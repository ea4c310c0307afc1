------------------------ MODULE SwitchCompletion_proofs ------------------------
(***************************************************************************)
(* More theorems about SwitchToConfiguration: that restarts are recorded,  *)
(* that a dry run changes nothing, and what a run that got to its end has  *)
(* made of the services it found up, wherever the runs before it were      *)
(* killed.                                                                 *)
(***************************************************************************)
EXTENDS SwitchToConfiguration_proofs

(* What the script relies on, as far as the last two theorems need it.  Only
   services have sockets; these come and go with them. *)
Fronts == {s \in Units : \E u \in Units, c \in Configs :
                            Eligible(u) /\ s \in SocketsOf[c][u]}

SocketsFollow ==
    /\ \A c \in Configs, u \in Units : SocketsOf[c][u] # {} => Kind[u] # "socket"
    /\ \A c \in Configs, u \in Units : Eligible(u) =>
          \A s \in SocketsOf[c][u] : UnitDef[c][s] # None => UnitDef[c][u] # None
    /\ \A c \in Configs, s \in Fronts :
          UnitDef[c][s] # None => UnitDef[c][s].stopOnRemoval

(* systemd loads the unit files it is told to, and what it is told to stop
   goes down. *)
CommandsWork == {"daemon-reload", "stop"} \cap Failing = {}

-----------------------------------------------------------------------------
(* What is true of the units whenever nobody or somebody runs the script.  *)

\* The definitions of u in configurations d and c differ in nothing that is
\* acted upon.
Same(d, c, u) == /\ UnitDef[d][u] # None /\ UnitDef[c][u] # None
                 /\ CompareUnits(UnitDef[d][u], UnitDef[c][u]) = 0

\* A unit the properties speak of.
InSight(u) == Eligible(u) /\ u \notin late /\ run[u] # None

\* It runs what /etc says, or the lists say that it does not.
Good(u) ==
    /\ UnitDef[etc][u] # None
    /\ u \notin missed => \/ Same(run[u], etc, u)
                          \/ u \in Listed("reload") \cup Listed("restart")

UnitsInv ==
    /\ \A u \in Units : run[u] # None => Exists(run[u], u)
    /\ \A u \in failed : run[u] = None
    /\ \A u \in late : Kind[u] # "socket"
    /\ \A u \in Units : InSight(u) => Good(u)
    /\ \A s \in Fronts : run[s] # None => UnitDef[etc][s] # None

-----------------------------------------------------------------------------
(* What a run knows of them.                                               *)

Planned(p, u) == u \in plan[p]["restart"] \cup plan[p]["reload"]

\* u and its sockets are going to be stopped, one way or the other.
ToStop(p, u) ==
    /\ u \in plan[p]["stop"]
    /\ \A s \in SocketsOf[top[p]][u] \cap active[p] :
          s \in plan[p]["stop"] \/ UnitDef[top[p]][s] = None

\* u may go on as it is, or the plan says that it does not.
ToKeep(p, u) ==
    /\ UnitDef[top[p]][u] # None
    /\ \/ Planned(p, u)
       \/ /\ Same(etc, top[p], u)
          /\ run[u] # None /\ u \notin missed => Same(run[u], top[p], u)

\* u is down, and no connection can bring it up.
Off(p, u) == run[u] = None /\ \A s \in SocketsOf[top[p]][u] : run[s] = None

Looking == {"examine", "fstab", "stop"}
Loaded  == {"checkReload", "reload", "unlinkReload", "restart",
            "unlinkRestart", "start", "unlinkStart", "listFailed", "done"}

Open(p, u) == pc[p] = "examine" /\ u \in todo[p]

\* What the list of active units says.
Seen(p) ==
    /\ pc[p] \in Snapshot =>
          \A u \in Units : run[u] # None /\ u \notin active[p] => u \in late
    /\ pc[p] \in Looking => \A u \in active[p] : run[u] # None \/ u \in late \cup failed
    /\ pc[p] = "examine" => /\ todo[p] \subseteq active[p] \cap Up
                            /\ \A u \in todo[p] \cap plan[p]["stop"] :
                                  Kind[u] = "socket"

\* What has been decided about the units in sight and the sockets.
Judged(p) ==
    /\ pc[p] \in Looking =>
          /\ \A u \in Units : InSight(u) => Open(p, u) \/ ToStop(p, u) \/ ToKeep(p, u)
          /\ \A s \in Fronts : run[s] # None =>
                \/ Open(p, s) \/ s \in plan[p]["stop"]
                \/ UnitDef[top[p]][s] # None
    /\ pc[p] = "activate" =>
          /\ \A u \in active[p] \ (late \cup failed) :
                Eligible(u) => Off(p, u) \/ ToKeep(p, u)
          /\ \A s \in Fronts : run[s] # None => UnitDef[top[p]][s] # None

\* What is left to be done, in memory and on disk.
Pending(p) ==
    /\ pc[p] \in Looking \cup {"activate"} =>
          plan[p]["restart"] \subseteq Listed("restart")
    /\ \A u \in Units : InSight(u) /\ u \notin missed =>
          /\ pc[p] \in Deciding \cup {"reload"} =>
                \/ Same(run[u], etc, u) \/ Planned(p, u)
                \/ pc[p] \in Looking /\ u \in plan[p]["stop"]
          /\ pc[p] \in {"unlinkReload", "restart"} =>
                \/ Same(run[u], etc, u)
                \/ /\ u \in plan[p]["restart"]
                   /\ pc[p] = "unlinkReload" => u \notin plan[p]["reload"]
          /\ pc[p] \in {"unlinkRestart", "start", "unlinkStart", "listFailed",
                        "done"} => Same(run[u], etc, u)

Moved(p) ==
    /\ pc[p] \in Loaded \cup {"propRestart", "propReload", "daemon"} =>
          (res[p] = 0 => etc = top[p])
    /\ pc[p] \in Loaded => loaded = etc

FreshInv ==
    /\ UnitsInv
    /\ \A p \in Procs : action[p] # "dry-activate" =>
          Seen(p) /\ Judged(p) /\ Pending(p) /\ Moved(p)

-----------------------------------------------------------------------------
(* Restarts are recorded.                                                  *)

\* What is to be restarted and still exists is in restart-list, or one of its
\* sockets is.
RestartsKept(d, c) ==
    \A u \in d.plan["restart"] : Exists(c, u) =>
        \E v \in Covers(c, u) \cap Units : d.lists["restart"][v] > 0

\* A decision about something else leaves restarts alone.
LEMMA RestartsUntouched ==
    ASSUME NEW a \in Actions, NEW d \in Decisions, NEW c \in Configs,
           RestartsKept(d, c), NEW u \in Units
    PROVE  /\ \A set \in {"start", "reload"} :
                 RestartsKept(Decide(d, a, set, {u}), c)
           /\ \A set \in {"stop", "skip"} : RestartsKept(Mark(d, set, {u}), c)
           /\ RestartsKept(DropReload(d, a, u), c)
<1>1. ASSUME NEW set \in {"start", "reload"}
      PROVE  RestartsKept(Decide(d, a, set, {u}), c)
  BY DEF RestartsKept, Decide, Recorded, Decisions, Plans, ListFiles, Sets, Lists
<1>2. ASSUME NEW set \in {"stop", "skip"} PROVE RestartsKept(Mark(d, set, {u}), c)
  BY DEF RestartsKept, Mark, Decisions, Plans, ListFiles, Sets, Lists
<1>3. RestartsKept(DropReload(d, a, u), c)
  BY DEF RestartsKept, DropReload, Unrecorded, Decisions, Plans, ListFiles, Sets,
     Lists
<1> QED
  BY <1>1, <1>2, <1>3

LEMMA RestartRecorded ==
    ASSUME NEW a \in Actions, a # "dry-activate", NEW d \in Decisions,
           NEW c \in Configs, RestartsKept(d, c), NEW u \in Units
    PROVE  LET e == Decide(d, a, "restart", {u})
           IN  e \in Decisions /\ RestartsKept(e, c)
<1> DEFINE e == Decide(d, a, "restart", {u})
<1>1. e \in Decisions
  BY DEF Decide, Recorded, Decisions, Plans, ListFiles, Sets, Lists
<1>2. e.plan["restart"] = d.plan["restart"] \cup {u}
  BY DEF Decide, Decisions, Plans, Sets, Lists
<1>3. /\ e.lists["restart"][u] > 0
      /\ \A v \in Units : d.lists["restart"][v] > 0 => e.lists["restart"][v] > 0
  BY DEF Decide, Recorded, Decisions, ListFiles, Lists
<1>4. u \in Covers(c, u)
  BY DEF Covers
<1>5. RestartsKept(e, c)
  <2> HIDE DEF e
  <2> QED
    BY <1>2, <1>3, <1>4 DEF RestartsKept
<1> QED
  BY <1>1, <1>5

\* The sockets that are restarted instead of a service cover it, and what is
\* restarted with them does not exist any more.
LEMMA StopAndStartRestarts ==
    ASSUME NEW a \in Actions, a # "dry-activate", NEW d \in Decisions,
           NEW c \in Configs, RestartsKept(d, c), NEW u \in Units,
           NEW up \in SUBSET Units,
           NEW sets \in {<<"stop", "start">>, <<"restart", "restart">>}
    PROVE  RestartsKept(StopAndStart(d, a, u, up, c, sets[1], sets[2]), c)
<1> DEFINE back  == SocketsBack(u, up, c)
           begin == IF back # {} THEN back ELSE {u}
           e     == StopAndStart(d, a, u, up, c, sets[1], sets[2])
<1>1. CASE sets = <<"stop", "start">>
  <2>1. /\ e.plan["restart"] = d.plan["restart"]
        /\ e.lists["restart"] = d.lists["restart"]
    BY <1>1 DEF StopAndStart, Decide, Recorded, Mark, DropReload, Unrecorded,
       Decisions, Plans, ListFiles, Sets, Lists
  <2> HIDE DEF e
  <2> QED
    BY <2>1 DEF RestartsKept, e
<1>2. CASE sets = <<"restart", "restart">>
  <2>1. begin \subseteq Units /\ SocketsUp(u, up, c) \subseteq SocketsOf[c][u]
    BY DEF SocketsBack, SocketsUp
  <2>2. e.plan["restart"] = d.plan["restart"] \cup begin \cup SocketsUp(u, up, c) \cup {u}
    BY <1>2 DEF StopAndStart, Decide, Mark, DropReload, Decisions, Plans, Sets,
       Lists
  <2>3. \A v \in Units : v \in begin \/ d.lists["restart"][v] > 0
                          => e.lists["restart"][v] > 0
    <3> HIDE DEF begin
    <3>1. StopAndStart(d, a, u, up, c, "restart", "restart") =
            DropReload(Mark(Decide(d, a, "restart", begin), "restart",
                            SocketsUp(u, up, c) \cup {u}), a, u)
      BY DEF StopAndStart, begin
    <3> QED
      BY <1>2, <3>1, <2>1 DEF Decide, Recorded, Mark, DropReload, Unrecorded,
         Decisions, Plans, ListFiles, Sets, Lists
  <2>4. \A s \in SocketsUp(u, up, c) : Exists(c, s) => s \in begin
    <3> SUFFICES ASSUME NEW s \in SocketsUp(u, up, c), Exists(c, s)
                 PROVE  s \in back
      OBVIOUS
    <3>1. s \in Units /\ Kind[s] = "socket"
      BY ConstantTypes DEF SocketsUp
    <3>2. Fstab[c][s] = None
      BY ONLY <3>1, FstabUnits, c \in Configs
    <3> QED
      BY <3>2 DEF SocketsBack, Exists
  <2>5. Covers(c, u) \cap begin # {} /\ \A v \in Units : v \in Covers(c, v)
    BY <2>1 DEF SocketsBack, SocketsUp, Covers
  <2>6. SocketsUp(u, up, c) \subseteq Units
    BY DEF SocketsUp
  <2> HIDE DEF e, begin
  <2> SUFFICES ASSUME NEW v \in e.plan["restart"], Exists(c, v)
               PROVE  \E w \in Covers(c, v) \cap Units : e.lists["restart"][w] > 0
    BY DEF RestartsKept, e
  <2>7. CASE v \in d.plan["restart"]
    BY <2>3, <2>7 DEF RestartsKept
  <2>8. CASE v = u
    BY <2>1, <2>3, <2>5, <2>8
  <2>9. CASE v \in begin \cup SocketsUp(u, up, c)
    BY <2>1, <2>3, <2>4, <2>5, <2>6, <2>9
  <2> QED
    BY <2>2, <2>7, <2>8, <2>9
<1> QED
  BY <1>1, <1>2

LEMMA HandleModifiedRestarts ==
    ASSUME NEW a \in Actions, a # "dry-activate", NEW d \in Decisions,
           NEW c \in Configs, RestartsKept(d, c), NEW u \in Units,
           NEW up \in SUBSET Units,
           NEW sets \in {<<"stop", "start">>, <<"restart", "restart">>}
    PROVE  RestartsKept(HandleModified(d, a, u, up, c, sets[1], sets[2]), c)
<1> DEFINE e == HandleModified(d, a, u, up, c, sets[1], sets[2])
           new == Settings(c, u)
           x == Decide(d, a, "restart", {u})
           y == StopAndStart(d, a, u, up, c, sets[1], sets[2])
<1>1. e \in {d, Decide(d, a, "reload", {u}), x, Mark(d, "skip", {u}), y,
             DropReload(x, a, u)}
  <2>1. Kind[u] \in Kinds
    BY ConstantTypes
  <2> HIDE DEF new
  <2> QED
    BY <2>1 DEF HandleModified, Kinds, new
<1>2. RestartsKept(y, c)
  BY StopAndStartRestarts
<1>3. x \in Decisions /\ RestartsKept(x, c)
  BY RestartRecorded
<1> HIDE DEF e, x, y
<1>4. RestartsKept(DropReload(x, a, u), c)
  BY <1>3, RestartsUntouched
<1> QED
  BY <1>1, <1>2, <1>3, <1>4, RestartsUntouched DEF e

LEMMA ExaminedRestarts ==
    ASSUME NEW a \in Actions, a # "dry-activate", NEW d \in Decisions,
           NEW c \in Configs, RestartsKept(d, c), NEW u \in Units,
           NEW up \in SUBSET Units, NEW old \in Configs
    PROVE  RestartsKept(Examined(d, a, u, up, old, c), c)
<1> DEFINE e == Examined(d, a, u, up, old, c)
           x == Decide(d, a, "start", {u})
<1>1. e \in {d, Mark(d, "stop", {u}), x, Mark(x, "stop", {u}),
             HandleModified(d, a, u, up, c, "stop", "start"),
             Decide(d, a, "reload", {u})}
  BY DEF Examined, ExaminedRemoved
<1>2. RestartsKept(HandleModified(d, a, u, up, c, "stop", "start"), c)
  <2>1. <<"stop", "start">>[1] = "stop" /\ <<"stop", "start">>[2] = "start"
    OBVIOUS
  <2> QED
    BY <2>1, HandleModifiedRestarts
<1>3. x \in Decisions /\ RestartsKept(x, c)
  <2>1. x \in Decisions
    BY DEF Decide, Recorded, Decisions, Plans, ListFiles, Sets, Lists
  <2> QED
    BY <2>1, RestartsUntouched
<1> HIDE DEF e, x
<1>4. RestartsKept(Mark(x, "stop", {u}), c)
  BY <1>3, RestartsUntouched
<1> QED
  BY <1>1, <1>2, <1>3, <1>4, RestartsUntouched DEF e

LEMMA ExaminedMountRestarts ==
    ASSUME NEW a \in Actions, a # "dry-activate", NEW d \in Decisions,
           NEW c \in Configs, RestartsKept(d, c), NEW u \in Units,
           NEW old \in Configs
    PROVE  RestartsKept(ExaminedMount(d, a, u, old, c), c)
<1>1. ExaminedMount(d, a, u, old, c) \in
        {d, Mark(d, "stop", {u}), Mark(d, "skip", {u}),
         Decide(d, a, "restart", {u}), Decide(d, a, "reload", {u})}
  BY DEF ExaminedMount
<1> QED
  BY <1>1, RestartRecorded, RestartsUntouched
Covering == Deciding \cup {"reload", "unlinkReload", "restart"}
RestartsRun(p) == action[p] # "dry-activate" /\ pc[p] \in Covering =>
                     RestartsKept(Memory(p), top[p])

LEMMA RestartsByRun == RestartsCovered <=> \A p \in Procs : RestartsRun(p)
BY DEF RestartsCovered, RestartsRun, RestartsKept, Memory, Listed, Covering

\* A step of the running process has only its own restarts to keep.
LEMMA RestartsAlone ==
    ASSUME IInv, NEW p \in Procs, Running(p), NEW where \in Pcs, Goto(p, where),
           RestartsRun(p)'
    PROVE  RestartsCovered'
<1>1. ASSUME NEW q \in Procs, q # p PROVE RestartsRun(q)'
  <2>1. pc'[q] \in {"idle", "lock"}
    BY <1>1, Alone DEF Goto, IInv, TypeOK
  <2> QED
    BY <2>1 DEF RestartsRun, Covering, Deciding
<1>2. \A q \in Procs : RestartsRun(q)'
  BY <1>1
<1>3. RestartsCovered' <=> \A q \in Procs : RestartsRun(q)'
  BY DEF RestartsCovered, RestartsRun, RestartsKept, Memory, Listed, Covering
<1> QED
  BY <1>2, <1>3

LEMMA DecidedRestarts ==
    ASSUME IInv, NEW p \in Procs, pc[p] \in Deciding,
           NEW u \in Units, NEW d \in Decisions, Decided(p, u, d),
           UNCHANGED <<pc, action, top>>,
           action[p] # "dry-activate" => RestartsKept(d, top[p])
    PROVE  RestartsCovered'
<1>1. Memory(p)' = d
  BY DEF Decided, Set, Memory, Decisions, IInv, TypeOK
<1>2. Running(p) /\ Goto(p, pc[p]) /\ pc[p] \in Pcs
  BY DecidingFacts DEF Goto, IInv, TypeOK
<1>3. RestartsRun(p)'
  BY <1>1 DEF RestartsRun
<1> QED
  BY <1>2, <1>3, RestartsAlone

\* A step that leaves the run outside or its plan and restart-list alone.
LEMMA RestartsFramed ==
    ASSUME IInv, RestartsCovered, NEW p \in Procs, Running(p),
           NEW where \in Pcs, Goto(p, where),
           \/ where \notin Covering
           \/ /\ pc[p] \in Covering
              /\ UNCHANGED <<plan, top, action>>
              /\ lists' = lists \/ lists' = Unlinked("reload")
    PROVE  RestartsCovered'
<1>1. pc'[p] = where
  BY DEF Goto, IInv, TypeOK
<1>2. CASE where \notin Covering
  BY <1>1, <1>2, RestartsAlone DEF RestartsRun
<1>3. CASE /\ pc[p] \in Covering
           /\ UNCHANGED <<plan, top, action>>
           /\ lists' = lists \/ lists' = Unlinked("reload")
  <2>1. lists'["restart"] = lists["restart"]
    BY <1>3 DEF Unlinked, Lists, IInv, TypeOK
  <2>2. RestartsRun(p)
    BY RestartsByRun
  <2>3. RestartsRun(p)'
    BY <1>3, <2>1, <2>2 DEF RestartsRun, RestartsKept, Memory
  <2> QED
    BY <2>3, RestartsAlone
<1> QED
  BY <1>2, <1>3

LEMMA ReadListsRestarts ==
    ASSUME IInv, NEW p \in Procs, ReadLists(p)
    PROVE  RestartsCovered'
<1>1. Running(p) /\ Goto(p, "examine") /\ "examine" \in Pcs
  BY DEF ReadLists, At, Running, Pcs
<1>2. plan'[p]["restart"] = Listed("restart") /\ lists' = lists
  BY DEF ReadLists, Set, Sets, Lists, IInv, TypeOK
<1>3. Memory(p)'.plan["restart"] = Listed("restart") /\ Memory(p)'.lists = lists
  BY <1>2 DEF Memory
<1>4. RestartsKept(Memory(p)', top'[p])
  <2> HIDE DEF Memory
  <2> QED
    BY <1>3 DEF RestartsKept, Listed, Covers
<1>5. RestartsRun(p)'
  BY <1>4 DEF RestartsRun, RestartsKept
<1> QED
  BY <1>1, <1>5, RestartsAlone

LEMMA DecisionRestarts ==
    ASSUME IInv, RestartsCovered, NEW p \in Procs,
           \/ ExamineUnit(p) \/ ExamineMount(p) \/ PropagateRestart(p)
           \/ PropagateReload(p) \/ CheckReload(p)
    PROVE  RestartsCovered'
<1> DEFINE m == Memory(p)
           a == action[p]
           c == top[p]
<1>1. pc[p] \in Deciding /\ UNCHANGED <<pc, action, top>>
  BY DEF ExamineUnit, ExamineMount, PropagateRestart, PropagateReload,
     CheckReload, At, Deciding
<1>2. /\ m \in Decisions /\ a \in Actions /\ c \in Configs /\ etc \in Configs
      /\ active[p] \in SUBSET Units /\ todo[p] \in SUBSET Units
  BY <1>1, DecidingFacts
<1>3. a # "dry-activate" => RestartsKept(m, c)
  BY <1>1, RestartsByRun DEF RestartsRun, Covering
<1>4. Sound(m, a)
  BY <1>1, DecidingFacts
<1> HIDE DEF m, a, c
<1>5. CASE ExamineUnit(p)
  <2> DEFINE e(u) == Examined(m, a, u, active[p], etc, c)
  <2>1. PICK u \in todo[p] : Decided(p, u, e(u))
    BY <1>5 DEF ExamineUnit, m, a, c
  <2>2. e(u) \in Decisions
    BY <1>2, <1>4, ExaminedSound
  <2>3. a # "dry-activate" => RestartsKept(e(u), c)
    BY <1>2, <1>3, ExaminedRestarts
  <2> QED
    BY <1>1, <1>2, <2>1, <2>2, <2>3, DecidedRestarts DEF a, c
<1>6. CASE ExamineMount(p)
  <2> DEFINE e(u) == ExaminedMount(m, a, u, etc, c)
  <2>1. PICK u \in todo[p] : Decided(p, u, e(u))
    BY <1>6 DEF ExamineMount, m, a, c
  <2>2. e(u) \in Decisions
    BY <1>2, <1>4, ExaminedMountSound
  <2>3. a # "dry-activate" => RestartsKept(e(u), c)
    BY <1>2, <1>3, ExaminedMountRestarts
  <2> QED
    BY <1>1, <1>2, <2>1, <2>2, <2>3, DecidedRestarts DEF a, c
<1>7. CASE PropagateRestart(p)
  <2> DEFINE x(u) == Decide(m, a, "start", {u})
             h(u) == HandleModified(m, a, u, active[p], c, "restart", "restart")
             e(u) == IF u \notin active[p] THEN x(u) ELSE h(u)
  <2>1. PICK u \in todo[p] : Decided(p, u, e(u))
    BY <1>7 DEF PropagateRestart, m, a, c
  <2>2. x(u) \in Decisions /\ h(u) \in Decisions
    BY <1>2, <1>4, DecideSound, HandleModifiedSound DEF Lists
  <2>3. a # "dry-activate" => RestartsKept(x(u), c) /\ RestartsKept(h(u), c)
    <3>1. <<"restart", "restart">>[1] = "restart" /\ <<"restart", "restart">>[2] = "restart"
      OBVIOUS
    <3> QED
      BY <1>2, <1>3, <3>1, RestartsUntouched, HandleModifiedRestarts
  <2>4. e(u) \in Decisions /\ (a # "dry-activate" => RestartsKept(e(u), c))
    BY <2>2, <2>3
  <2> HIDE DEF e
  <2> QED
    BY <1>1, <1>2, <2>1, <2>4, DecidedRestarts DEF a, c
<1>8. CASE PropagateReload(p)
  <2> DEFINE x(u) == Decide(m, a, "reload", {u})
             e(u) == IF u \in active[p] \ (plan[p].restart \cup plan[p].stop)
                     THEN x(u) ELSE m
  <2>1. PICK u \in todo[p] : Decided(p, u, e(u))
    BY <1>8 DEF PropagateReload, m, a
  <2>2. x(u) \in Decisions
    BY <1>2, <1>4, DecideSound DEF Lists
  <2>3. a # "dry-activate" => RestartsKept(x(u), c)
    BY <1>2, <1>3, RestartsUntouched
  <2>4. e(u) \in Decisions /\ (a # "dry-activate" => RestartsKept(e(u), c))
    BY <1>2, <1>3, <2>2, <2>3
  <2> HIDE DEF e
  <2> QED
    BY <1>1, <1>2, <2>1, <2>4, DecidedRestarts DEF a, c
<1>9. CASE CheckReload(p)
  <2> DEFINE x(u) == Decide(m, a, "start", {u})
             y(u) == IF MayStart(Settings(c, u)) THEN x(u) ELSE m
             e(u) == IF run[u] # None THEN m ELSE DropReload(y(u), a, u)
  <2>1. PICK u \in todo[p] : Decided(p, u, e(u))
    BY <1>9 DEF CheckReload, m, a, c
  <2>2. x(u) \in Decisions /\ Sound(x(u), a)
    BY <1>2, <1>4, DecideSound DEF Lists
  <2>3. a # "dry-activate" => RestartsKept(x(u), c)
    BY <1>2, <1>3, RestartsUntouched
  <2>4. y(u) \in Decisions /\ Sound(y(u), a) /\ (a # "dry-activate" => RestartsKept(y(u), c))
    BY <1>2, <1>3, <1>4, <2>2, <2>3
  <2> HIDE DEF y
  <2>5. /\ DropReload(y(u), a, u) \in Decisions
        /\ a # "dry-activate" => RestartsKept(DropReload(y(u), a, u), c)
    BY <1>2, <2>4, RestartsUntouched, DropReloadSound
  <2>6. e(u) \in Decisions /\ (a # "dry-activate" => RestartsKept(e(u), c))
    BY <1>2, <1>3, <2>5
  <2> HIDE DEF e
  <2> QED
    BY <1>1, <1>2, <2>1, <2>6, DecidedRestarts DEF a, c
<1> QED
  BY <1>5, <1>6, <1>7, <1>8, <1>9

LEMMA StepRestarts ==
    ASSUME IInv, RestartsCovered, NEW p \in Procs, Step(p)
    PROVE  RestartsCovered'
<1> USE DEF At, Running, Covering, Deciding, Pcs
<1>1. CASE Lock(p)
  <2>1. pc'[p] = "bootloader" /\ \A q \in Procs \ {p} : pc'[q] = pc[q]
    BY <1>1 DEF Lock, Goto, IInv, TypeOK
  <2>2. UNCHANGED <<plan, lists, action, top>>
    BY <1>1 DEF Lock, locals
  <2> QED
    BY <2>1, <2>2 DEF RestartsCovered, Listed
<1>2. CASE \/ InstallBootLoader(p) \/ CheckInitInterface(p) \/ DryActivate(p)
           \/ DryRestart(p) \/ DryRestartsSeen(p) \/ DryReload(p) \/ DryFinish(p)
           \/ ListFailed(p) \/ Finish(p)
  <2>1. /\ Running(p)
        /\ \E where \in {"idle", "check", "read", "dryRestart", "dryReload",
                          "done"} : Goto(p, where)
    <3>1. CASE DryRestart(p) \/ DryReload(p)
      <4>1. pc[p] \in {"dryRestart", "dryReload"} /\ UNCHANGED pc
        BY <3>1 DEF DryRestart, DryReload
      <4>2. Goto(p, pc[p])
        BY <4>1 DEF Goto, IInv, TypeOK
      <4> QED
        BY <4>1, <4>2
    <3>2. CASE ~(DryRestart(p) \/ DryReload(p))
      BY <1>2, <3>2 DEF InstallBootLoader, CheckInitInterface, DryActivate,
         DryRestartsSeen, DryFinish, ListFailed, Finish, Exit, Gone
    <3> QED
      BY <3>1, <3>2
  <2> QED
    BY <2>1, RestartsFramed
<1>3. CASE ReadLists(p)
  BY <1>3, ReadListsRestarts
<1>4. CASE \/ ExamineUnit(p) \/ ExamineMount(p) \/ PropagateRestart(p)
           \/ PropagateReload(p) \/ CheckReload(p)
  BY <1>4, DecisionRestarts
<1>5. CASE UnitsExamined(p) \/ MountsExamined(p) \/ StopUnits(p) \/ Activate(p)
           \/ RestartsPropagated(p) \/ ReloadsPropagated(p) \/ ReloadDaemon(p)
           \/ ReloadsChecked(p) \/ ReloadUnits(p)
  <2>1. Running(p) /\ pc[p] \in Covering /\ \E where \in Pcs : Goto(p, where)
    BY <1>5 DEF UnitsExamined, MountsExamined, StopUnits, Activate,
       RestartsPropagated, ReloadsPropagated, ReloadDaemon, ReloadsChecked,
       ReloadUnits
  <2>2. UNCHANGED <<plan, top, action, lists>>
    BY <1>5 DEF UnitsExamined, MountsExamined, StopUnits, Activate,
       RestartsPropagated, ReloadsPropagated, ReloadDaemon, ReloadsChecked,
       ReloadUnits, locals
  <2> QED
    BY <2>1, <2>2, RestartsFramed
<1>6. CASE UnlinkReload(p)
  <2>1. Running(p) /\ pc[p] \in Covering /\ \E where \in Pcs : Goto(p, where)
    BY <1>6 DEF UnlinkReload
  <2>2. UNCHANGED <<plan, top, action>> /\ lists' = Unlinked("reload")
    BY <1>6 DEF UnlinkReload, locals
  <2> QED
    BY <2>1, <2>2, RestartsFramed
<1>7. CASE RestartUnits(p) \/ UnlinkRestart(p) \/ StartUnits(p) \/ UnlinkStart(p)
  <2>1. /\ Running(p)
        /\ \E where \in {"unlinkRestart", "start", "unlinkStart",
                          "listFailed"} : Goto(p, where)
    BY <1>7 DEF RestartUnits, UnlinkRestart, StartUnits, UnlinkStart
  <2> QED
    BY <2>1, RestartsFramed
<1> QED
  BY <1>1, <1>2, <1>3, <1>4, <1>5, <1>6, <1>7 DEF Step

LEMMA NextRestarts == IInv /\ RestartsCovered /\ [Next]_vars => RestartsCovered'
<1> SUFFICES ASSUME IInv, RestartsCovered, [Next]_vars PROVE RestartsCovered'
  OBVIOUS
<1>1. CASE \E p \in Procs : Step(p)
  BY <1>1, StepRestarts
<1>2. ASSUME NEW p \in Procs, Invoke(p) PROVE RestartsCovered'
  <2>1. /\ \A q \in Procs : pc'[q] # "lock" => pc'[q] = pc[q] /\ q # p
        /\ \A q \in Procs \ {p} : action'[q] = action[q] /\ top'[q] = top[q]
        /\ UNCHANGED <<plan, lists>>
    BY <1>2 DEF Invoke, Goto, Set, IInv, TypeOK
  <2> QED
    BY <2>1 DEF RestartsCovered, Deciding, Listed
<1>3. ASSUME NEW p \in Procs, Kill(p) PROVE RestartsCovered'
  BY <1>3, RestartsFramed DEF Kill, Gone, Running, Pcs, Covering, Deciding
<1>4. CASE Reboot
  BY <1>4 DEF Reboot, RestartsCovered, Deciding
<1>5. CASE SocketActivation \/ UNCHANGED vars
  BY <1>5 DEF SocketActivation, locals, vars, RestartsCovered, Listed
<1> QED
  BY <1>1, <1>2, <1>3, <1>4, <1>5 DEF Next

\* Every restart that a run intends is in restart-list, as itself or as one of
\* its sockets, until it has been carried out (l.853, l.941-947).
THEOREM RestartsAreCovered == Spec => []RestartsCovered
<1>1. Init => RestartsCovered
  BY DEF Init, RestartsCovered, Deciding
<1> QED
  BY <1>1, NextRestarts, Invariance, PTL DEF Spec

-----------------------------------------------------------------------------
(* A dry run.                                                              *)

\* A decision of a dry run is written nowhere.
LEMMA DryDecisions ==
    ASSUME NEW a, a = "dry-activate", NEW d, NEW u \in Units,
           NEW up \in SUBSET Units, NEW c, NEW old
    PROVE  /\ \A set, us : /\ Decide(d, a, set, us).lists = d.lists
                           /\ Mark(d, set, us).lists = d.lists
           /\ HandleModified(d, a, u, up, c, "restart", "restart").lists = d.lists
           /\ Examined(d, a, u, up, old, c).lists = d.lists
           /\ ExaminedMount(d, a, u, old, c).lists = d.lists
<1>1. \A e, set, us : /\ Decide(e, a, set, us).lists = e.lists
                      /\ Mark(e, set, us).lists = e.lists
                      /\ DropReload(e, a, u).lists = e.lists
  BY DEF Decide, Recorded, Mark, DropReload, Unrecorded
<1>2. ASSUME NEW stopSet, NEW startSet
      PROVE  StopAndStart(d, a, u, up, c, stopSet, startSet).lists = d.lists
  BY <1>1 DEF StopAndStart
<1>3. ASSUME NEW stopSet, NEW startSet
      PROVE  HandleModified(d, a, u, up, c, stopSet, startSet).lists = d.lists
  <2>1. Kind[u] \in Kinds
    BY ConstantTypes
  <2> QED
    BY <1>1, <1>2, <2>1 DEF HandleModified, Kinds
<1>4. /\ Examined(d, a, u, up, old, c).lists = d.lists
      /\ ExaminedMount(d, a, u, old, c).lists = d.lists
  BY <1>1, <1>3 DEF Examined, ExaminedRemoved, ExaminedMount
<1>5. \A set, us : /\ Decide(d, a, set, us).lists = d.lists
                   /\ Mark(d, set, us).lists = d.lists
  BY <1>1
<1> QED
  BY <1>3, <1>4, <1>5

\* What a dry run must leave alone.
Shown == <<sys, lists, actReq.restart, actReq.reload, owed>>

\* A loop of a dry run over what it would do.
LEMMA DryLoopsShow ==
    ASSUME IInv, NEW p \in Procs, action[p] = "dry-activate",
           ExamineUnit(p) \/ ExamineMount(p) \/ DryRestart(p) \/ DryReload(p)
    PROVE  UNCHANGED Shown
<1>1. active[p] \in SUBSET Units /\ todo[p] \in SUBSET Units
  BY DEF IInv, TypeOK
<1>2. Memory(p).lists = lists
  BY DEF Memory
<1> DEFINE m == Memory(p)
           a == action[p]
           e(u) == Examined(m, a, u, active[p], etc, top[p])
           f(u) == ExaminedMount(m, a, u, etc, top[p])
           g(u) == IF u \notin active[p] THEN Mark(m, "start", {u})
                   ELSE HandleModified(m, a, u, active[p], top[p], "restart",
                                       "restart")
           h(u) == IF u \in active[p] \ (plan[p].restart \cup plan[p].stop)
                   THEN Decide(m, a, "reload", {u}) ELSE m
<1>3. \E u \in todo[p] : \/ Decided(p, u, e(u)) \/ Decided(p, u, f(u))
                         \/ Decided(p, u, g(u)) \/ Decided(p, u, h(u))
  BY DEF ExamineUnit, ExamineMount, DryRestart, DryReload
<1>4. PICK u \in todo[p] : \/ Decided(p, u, e(u)) \/ Decided(p, u, f(u))
                           \/ Decided(p, u, g(u)) \/ Decided(p, u, h(u))
  BY <1>3
<1>5. /\ e(u).lists = lists /\ f(u).lists = lists
      /\ g(u).lists = lists /\ h(u).lists = lists
  <2>1. u \in Units
    BY <1>1
  <2>2. m.lists = lists /\ a = "dry-activate"
    BY <1>2
  <2> HIDE DEF m, a
  <2>3. /\ Examined(m, a, u, active[p], etc, top[p]).lists = m.lists
        /\ ExaminedMount(m, a, u, etc, top[p]).lists = m.lists
    BY <1>1, <2>1, <2>2, DryDecisions
  <2>4. HandleModified(m, a, u, active[p], top[p], "restart", "restart").lists
          = m.lists
    BY <1>1, <2>1, <2>2, DryDecisions
  <2>5. /\ Mark(m, "start", {u}).lists = m.lists
        /\ Decide(m, a, "reload", {u}).lists = m.lists
    BY <1>1, <2>1, <2>2, DryDecisions
  <2> QED
    BY <2>2, <2>3, <2>4, <2>5
<1> HIDE DEF e, f, g, h
<1>6. lists' = lists
  BY <1>4, <1>5 DEF Decided
<1> QED
  BY <1>6 DEF ExamineUnit, ExamineMount, DryRestart, DryReload, Shown

\* No step of a dry run changes the system, the lists or the requests to the
\* next run, even if it goes through what it would do (l.81, l.757-807).
THEOREM DryRunsOnlyShow == Spec => DryRunChangesNothing
<1> DEFINE Showing(p) ==
       /\ action[p] = "dry-activate" /\ Running(p) /\ kills' = kills
       /\ <<pc[p], todo[p], plan[p]>>' # <<pc[p], todo[p], plan[p]>>
<1>1. ASSUME IInv, Next, NEW p \in Procs, Showing(p)
      PROVE  UNCHANGED Shown
  <2>1. ASSUME NEW q \in Procs, q # p PROVE ~Step(q) /\ ~Invoke(q) /\ ~Kill(q)
    <3>1. pc[q] \in {"idle", "lock"}
      BY <1>1, <2>1, Alone
    <3>2. ASSUME Lock(q) \/ Invoke(q)
          PROVE  /\ pc'[p] = pc[p] /\ todo'[p] = todo[p] /\ plan'[p] = plan[p]
      BY <1>1, <2>1, <3>2 DEF Lock, Invoke, Goto, locals, IInv, TypeOK
    <3>3. Step(q) => Lock(q)
      BY <3>1 DEF Step, InstallBootLoader, CheckInitInterface, ReadLists,
         ExamineUnit, UnitsExamined, ExamineMount, MountsExamined, DryActivate,
         DryRestart, DryRestartsSeen, DryReload, DryFinish,
         StopUnits, Activate, PropagateRestart, RestartsPropagated,
         PropagateReload, ReloadsPropagated, ReloadDaemon, CheckReload,
         ReloadsChecked, ReloadUnits, UnlinkReload, RestartUnits,
         UnlinkRestart, StartUnits, UnlinkStart, ListFailed, Finish, At
    <3>4. ~Kill(q)
      BY <3>1 DEF Kill
    <3> QED
      BY <1>1, <3>2, <3>3, <3>4
  <2>2. ~Invoke(p) /\ ~Kill(p) /\ ~Reboot /\ ~SocketActivation
    <3>1. ~Invoke(p)
      BY <1>1 DEF Invoke, At, Running
    <3>2. kills \in Nat
      BY ConstantTypes, <1>1 DEF IInv, TypeOK
    <3>3. ~Kill(p) /\ ~Reboot
      BY <1>1, <3>2 DEF Kill, Reboot
    <3>4. ~SocketActivation
      BY <1>1 DEF SocketActivation, locals
    <3> QED
      BY <3>1, <3>3, <3>4
  <2>3. Step(p)
    BY <1>1, <2>1, <2>2 DEF Next
  <2>4. pc[p] \in {"bootloader", "check", "read", "examine", "fstab"} \cup Dry
    <3>1. ProcInv(p) /\ pc[p] \in Pcs
      BY <1>1 DEF IInv, TypeOK
    <3>2. action[p] = "dry-activate" /\ pc[p] \notin {"idle", "lock"}
      BY <1>1 DEF Running
    <3>3. pc[p] \notin (Deciding \ {"examine", "fstab"}) \cup After \cup Done
      BY <3>1, <3>2 DEF ProcInv
    <3> QED
      BY <3>1, <3>2, <3>3 DEF Deciding, After, Done, Dry, Pcs
  <2>5. \/ InstallBootLoader(p) \/ CheckInitInterface(p) \/ ReadLists(p)
        \/ ExamineUnit(p) \/ UnitsExamined(p) \/ ExamineMount(p)
        \/ MountsExamined(p) \/ DryActivate(p) \/ DryRestart(p)
        \/ DryRestartsSeen(p) \/ DryReload(p) \/ DryFinish(p)
    BY <2>3, <2>4 DEF Step, Dry, Lock, StopUnits, Activate, PropagateRestart,
       RestartsPropagated, PropagateReload, ReloadsPropagated, ReloadDaemon,
       CheckReload, ReloadsChecked, ReloadUnits, UnlinkReload, RestartUnits,
       UnlinkRestart, StartUnits, UnlinkStart, ListFailed, Finish, At
  <2>6. CASE InstallBootLoader(p)
    BY <1>1, <2>6 DEF InstallBootLoader, sys, history, Shown
  <2>7. CASE \/ CheckInitInterface(p) \/ ReadLists(p) \/ UnitsExamined(p)
             \/ MountsExamined(p)
    BY <2>7 DEF CheckInitInterface, ReadLists, UnitsExamined, MountsExamined,
       history, Shown
  <2>8. CASE DryActivate(p) \/ DryRestartsSeen(p) \/ DryFinish(p)
    <3>1. UNCHANGED <<sys, lists, owed>>
      BY <2>8 DEF DryActivate, DryRestartsSeen, DryFinish, history
    <3>2. actReq'.restart = actReq.restart /\ actReq'.reload = actReq.reload
      <4>1. \/ \E r \in Requests :
                  actReq' = [actReq EXCEPT !.dryRestart = @ \cup r.restart,
                                           !.dryReload  = @ \cup r.reload]
            \/ actReq' = [actReq EXCEPT !.dryRestart = {}]
            \/ actReq' = [actReq EXCEPT !.dryReload = {}]
        BY <2>8 DEF DryActivate, DryRestartsSeen, DryFinish
      <4>2. actReq \in Asked
        BY <1>1 DEF IInv, TypeOK, Asked
      <4> QED
        BY <4>1, <4>2 DEF Asked
    <3> QED
      BY <3>1, <3>2 DEF Shown
  <2>9. CASE ExamineUnit(p) \/ ExamineMount(p) \/ DryRestart(p) \/ DryReload(p)
    BY <1>1, <2>9, DryLoopsShow
  <2> QED
    BY <2>5, <2>6, <2>7, <2>8, <2>9
<1>2. IInv /\ [Next]_vars =>
        [\A p \in Procs : Showing(p) => UNCHANGED Shown]_vars
  BY <1>1
<1> QED
  BY <1>2, Invariance, PTL DEF Spec, DryRunChangesNothing, Shown
-----------------------------------------------------------------------------
(* Unit files.                                                             *)

LEMMA Compared ==
    ASSUME NEW x, NEW y
    PROVE  /\ CompareUnits(x, y) \in {0, 1, 2}
           /\ CompareUnits(x, y) = 0 <=> /\ Essential(x) = Essential(y)
                                         /\ y.triggers \in {None, x.triggers}
                                         /\ y.options = x.options
BY DEF CompareUnits

LEMMA SameItself ==
    ASSUME NEW c, NEW u, UnitDef[c][u] # None
    PROVE  Same(c, c, u)
BY Compared DEF Same

LEMMA SameTransitive ==
    ASSUME NEW b, NEW c, NEW d, NEW u, Same(b, c, u), Same(c, d, u)
    PROVE  Same(b, d, u)
<1>1. ASSUME NEW x, NEW y, NEW z, CompareUnits(x, y) = 0, CompareUnits(y, z) = 0
      PROVE  CompareUnits(x, z) = 0
  BY <1>1, Compared
<1> QED
  BY <1>1 DEF Same

\* What exists has a unit file, unless it is a mount unit from fstab.
LEMMA HasUnitFile ==
    ASSUME NEW c \in Configs, NEW u \in Units, Exists(c, u),
           Fstab[c][u] = None
    PROVE  UnitDef[c][u] # None
BY DEF Exists

LEMMA EligibleHasUnitFile ==
    ASSUME NEW c \in Configs, NEW u \in Units, Exists(c, u), Eligible(u)
    PROVE  UnitDef[c][u] # None /\ Kind[u] # "socket"
BY DEF Exists, Eligible

LEMMA FrontsAreSockets ==
    ASSUME NEW s \in Fronts
    PROVE  /\ s \in Units /\ Kind[s] = "socket"
           /\ \A c \in Configs : Fstab[c][s] = None
<1>1. s \in Units /\ Kind[s] = "socket"
  BY ConstantTypes DEF Fronts
<1> QED
  BY <1>1, FstabUnits

-----------------------------------------------------------------------------
(* What a decision about v changes in the plan.                            *)

Wider(d, e, v) ==
    /\ d.plan["stop"] \subseteq e.plan["stop"]
    /\ d.plan["restart"] \subseteq e.plan["restart"]
    /\ d.plan["reload"] \ {v} \subseteq e.plan["reload"]
    /\ \A w \in Units : e.lists["restart"][w] >= d.lists["restart"][w]

\* Restarts it adds are on disk.
Noted(d, e) == \A w \in e.plan["restart"] \ d.plan["restart"] :
                  e.lists["restart"][w] > 0

LEMMA DecideWidens ==
    ASSUME NEW a \in Actions, a # "dry-activate", NEW d \in Decisions,
           NEW v \in Units, NEW set \in Lists
    PROVE  LET e == Decide(d, a, set, {v})
           IN  /\ e \in Decisions /\ Wider(d, e, v) /\ Noted(d, e)
               /\ e.plan["stop"] = d.plan["stop"] /\ v \in e.plan[set]
               /\ d.plan["reload"] \subseteq e.plan["reload"]
BY DEF Decide, Recorded, Wider, Noted, Decisions, Plans, ListFiles, Sets, Lists

LEMMA MarkWidens ==
    ASSUME NEW d \in Decisions, NEW v \in Units, NEW set \in {"stop", "skip"}
    PROVE  LET e == Mark(d, set, {v})
           IN  /\ e \in Decisions /\ Wider(d, e, v) /\ Noted(d, e)
               /\ e.plan["stop"] \subseteq d.plan["stop"] \cup {v}
               /\ set = "skip" => e.plan["stop"] = d.plan["stop"]
               /\ v \in e.plan[set] /\ e.plan["reload"] = d.plan["reload"]
BY DEF Mark, Wider, Noted, Decisions, Plans, ListFiles, Sets, Lists

LEMMA DropWidens ==
    ASSUME NEW a \in Actions, a # "dry-activate", NEW d \in Decisions,
           NEW v \in Units
    PROVE  LET e == DropReload(d, a, v)
           IN  /\ e \in Decisions /\ Wider(d, e, v) /\ Noted(d, e)
               /\ e.plan["stop"] = d.plan["stop"]
               /\ e.plan["restart"] = d.plan["restart"]
BY DEF DropReload, Unrecorded, Wider, Noted, Decisions, Plans, ListFiles, Sets,
   Lists

LEMMA WiderTransitive ==
    ASSUME NEW d \in Decisions, NEW e \in Decisions, NEW f \in Decisions,
           NEW v \in Units, Wider(d, e, v), Noted(d, e), Wider(e, f, v), Noted(e, f)
    PROVE  Wider(d, f, v) /\ Noted(d, f)
<1>1. \A w \in Units : /\ d.lists["restart"][w] \in Nat
                       /\ e.lists["restart"][w] \in Nat
                       /\ f.lists["restart"][w] \in Nat
  BY DEF Decisions, ListFiles, Lists
<1>2. e.plan["restart"] \subseteq Units /\ f.plan["restart"] \subseteq Units
  BY DEF Decisions, Plans, Sets, Lists
<1> QED
  BY <1>1, <1>2 DEF Wider, Noted

\* Restarting v takes the place of reloading it.
LEMMA RestartDecision ==
    ASSUME NEW a \in Actions, a # "dry-activate", NEW d \in Decisions,
           NEW v \in Units
    PROVE  LET e == DropReload(Decide(d, a, "restart", {v}), a, v)
           IN  /\ e \in Decisions /\ Wider(d, e, v) /\ Noted(d, e)
               /\ e.plan["stop"] = d.plan["stop"] /\ v \in e.plan["restart"]
<1> DEFINE x == Decide(d, a, "restart", {v})
           e == DropReload(x, a, v)
<1>1. /\ x \in Decisions /\ Wider(d, x, v) /\ Noted(d, x)
      /\ x.plan["stop"] = d.plan["stop"] /\ v \in x.plan["restart"]
  BY DecideWidens DEF Lists
<1> HIDE DEF x
<1>2. /\ e \in Decisions /\ Wider(x, e, v) /\ Noted(x, e)
      /\ e.plan["stop"] = x.plan["stop"] /\ e.plan["restart"] = x.plan["restart"]
  BY <1>1, DropWidens
<1>3. Wider(d, e, v) /\ Noted(d, e)
  <2> HIDE DEF e
  <2> QED
    BY <1>1, <1>2, WiderTransitive
<1> QED
  BY <1>1, <1>2, <1>3 DEF x

\* Stopping v now and starting it later.
LEMMA StopDecision ==
    ASSUME NEW a \in Actions, a # "dry-activate", NEW d \in Decisions,
           NEW v \in Units, NEW up \in SUBSET Units, NEW c \in Configs
    PROVE  LET e == StopAndStart(d, a, v, up, c, "stop", "start")
           IN  /\ Wider(d, e, v) /\ Noted(d, e)
               /\ e.plan["stop"] = d.plan["stop"] \cup (SocketsOf[c][v] \cap up) \cup {v}
<1> DEFINE begin == IF SocketsBack(v, up, c) # {} THEN SocketsBack(v, up, c) ELSE {v}
<1>1. begin \subseteq Units /\ SocketsUp(v, up, c) \subseteq Units
  BY DEF SocketsBack, SocketsUp
<1>2. StopAndStart(d, a, v, up, c, "stop", "start") =
        DropReload(Mark(Decide(d, a, "start", begin), "stop",
                        SocketsUp(v, up, c) \cup {v}), a, v)
  BY DEF StopAndStart
<1> HIDE DEF begin
<1> QED
  BY <1>1, <1>2 DEF Decide, Recorded, Mark, DropReload, Unrecorded, Wider, Noted,
     SocketsUp, Decisions, Plans, ListFiles, Sets, Lists

\* The same where the activation script has asked for it.
LEMMA StopDecisionAsked ==
    ASSUME NEW a \in Actions, a # "dry-activate", NEW d \in Decisions,
           NEW v \in Units, NEW up \in SUBSET Units, NEW c \in Configs
    PROVE  LET e == StopAndStart(d, a, v, up, c, "restart", "restart")
           IN  Wider(d, e, v) /\ v \in e.plan["restart"]
<1> DEFINE begin == IF SocketsBack(v, up, c) # {} THEN SocketsBack(v, up, c) ELSE {v}
<1>1. begin \subseteq Units /\ SocketsUp(v, up, c) \subseteq Units
  BY DEF SocketsBack, SocketsUp
<1>2. StopAndStart(d, a, v, up, c, "restart", "restart") =
        DropReload(Mark(Decide(d, a, "restart", begin), "restart",
                        SocketsUp(v, up, c) \cup {v}), a, v)
  BY DEF StopAndStart
<1> HIDE DEF begin
<1> QED
  BY <1>1, <1>2 DEF Decide, Recorded, Mark, DropReload, Unrecorded, Wider,
     Decisions, Plans, ListFiles, Sets, Lists

\* What can be decided about a changed service.
LEMMA ServiceModified ==
    ASSUME NEW d, NEW a, NEW v \in Units, Kind[v] = "service", NEW up,
           NEW c, NEW stopSet, NEW startSet
    PROVE  LET e   == HandleModified(d, a, v, up, c, stopSet, startSet)
               new == Settings(c, v)
               go  == v \in d.plan.restart \cup d.plan[stopSet]
           IN  \/ /\ new.reloadIfChanged /\ ~go
                  /\ e = Decide(d, a, "reload", {v})
               \/ /\ ~new.reloadIfChanged \/ go
                  /\ \/ /\ \/ ~new.restartIfChanged
                           \/ new.refuseManualStop \/ new.onlyManualStart
                        /\ e = Mark(d, "skip", {v})
                     \/ /\ new.stopIfChanged
                        /\ e = StopAndStart(d, a, v, up, c, stopSet, startSet)
                     \/ /\ ~new.stopIfChanged
                        /\ e = DropReload(Decide(d, a, "restart", {v}), a, v)
<1> DEFINE new == Settings(c, v)
<1> HIDE DEF new
<1> QED
  BY DEF HandleModified, new

\* The other kinds of unit are not stopped.
LEMMA OtherModified ==
    ASSUME NEW a \in Actions, a # "dry-activate", NEW d \in Decisions,
           NEW v \in Units, Kind[v] # "service", NEW up \in SUBSET Units,
           NEW c \in Configs, NEW stopSet, NEW startSet
    PROVE  LET e == HandleModified(d, a, v, up, c, stopSet, startSet)
           IN  /\ Wider(d, e, v) /\ Noted(d, e)
               /\ e.plan["stop"] = d.plan["stop"]
               /\ v \in d.plan["reload"] => v \in e.plan["reload"] \cup e.plan["restart"]
<1> DEFINE e == HandleModified(d, a, v, up, c, stopSet, startSet)
           new == Settings(c, v)
           x == Decide(d, a, "restart", {v})
<1>1. e \in {d, Decide(d, a, "reload", {v}), x, Mark(d, "skip", {v}),
             DropReload(x, a, v)}
  <2>1. Kind[v] \in Kinds
    BY ConstantTypes
  <2> HIDE DEF new
  <2> QED
    BY <2>1 DEF HandleModified, Kinds, new
<1>2. Wider(d, d, v) /\ Noted(d, d)
  BY DEF Wider, Noted, Decisions, ListFiles, Lists
<1>3. /\ Wider(d, x, v) /\ Noted(d, x) /\ x.plan["stop"] = d.plan["stop"]
      /\ v \in x.plan["restart"]
  BY DecideWidens DEF Lists
<1>4. LET f == DropReload(x, a, v)
      IN  /\ Wider(d, f, v) /\ Noted(d, f) /\ f.plan["stop"] = d.plan["stop"]
          /\ v \in f.plan["restart"]
  BY RestartDecision
<1>5. LET f == Decide(d, a, "reload", {v})
      IN  /\ Wider(d, f, v) /\ Noted(d, f) /\ f.plan["stop"] = d.plan["stop"]
          /\ v \in f.plan["reload"]
  BY DecideWidens DEF Lists
<1>6. LET f == Mark(d, "skip", {v})
      IN  /\ Wider(d, f, v) /\ Noted(d, f) /\ f.plan["stop"] = d.plan["stop"]
          /\ f.plan["reload"] = d.plan["reload"]
  BY MarkWidens
<1> HIDE DEF e, x
<1> QED
  BY <1>1, <1>2, <1>3, <1>4, <1>5, <1>6 DEF e
LEMMA ModifiedWidens ==
    ASSUME NEW a \in Actions, a # "dry-activate", NEW d \in Decisions,
           NEW v \in Units, NEW up \in SUBSET Units, NEW c \in Configs
    PROVE  LET e == HandleModified(d, a, v, up, c, "stop", "start")
           IN  /\ Wider(d, e, v) /\ Noted(d, e)
               /\ e.plan["stop"] \subseteq d.plan["stop"] \cup {v} \cup SocketsOf[c][v]
<1> DEFINE e == HandleModified(d, a, v, up, c, "stop", "start")
<1>1. CASE Kind[v] # "service"
  BY <1>1, OtherModified
<1>2. CASE Kind[v] = "service"
  <2>1. e \in {Decide(d, a, "reload", {v}), Mark(d, "skip", {v}),
               StopAndStart(d, a, v, up, c, "stop", "start"),
               DropReload(Decide(d, a, "restart", {v}), a, v)}
    BY <1>2, ServiceModified
  <2>2. LET f == Decide(d, a, "reload", {v})
        IN  Wider(d, f, v) /\ Noted(d, f) /\ f.plan["stop"] = d.plan["stop"]
    BY DecideWidens DEF Lists
  <2>3. LET f == Mark(d, "skip", {v})
        IN  Wider(d, f, v) /\ Noted(d, f) /\ f.plan["stop"] = d.plan["stop"]
    BY MarkWidens
  <2>4. LET f == StopAndStart(d, a, v, up, c, "stop", "start")
        IN  /\ Wider(d, f, v) /\ Noted(d, f)
            /\ f.plan["stop"] = d.plan["stop"] \cup (SocketsOf[c][v] \cap up) \cup {v}
    BY StopDecision
  <2>5. LET f == DropReload(Decide(d, a, "restart", {v}), a, v)
        IN  Wider(d, f, v) /\ Noted(d, f) /\ f.plan["stop"] = d.plan["stop"]
    BY RestartDecision
  <2> HIDE DEF e
  <2> QED
    BY <2>1, <2>2, <2>3, <2>4, <2>5 DEF e
<1> QED
  BY <1>1, <1>2

LEMMA ExaminedWidens ==
    ASSUME NEW a \in Actions, a # "dry-activate", NEW d \in Decisions,
           NEW v \in Units, NEW up \in SUBSET Units, NEW old \in Configs,
           NEW c \in Configs
    PROVE  LET e == Examined(d, a, v, up, old, c)
           IN  /\ Wider(d, e, v) /\ Noted(d, e)
               /\ e.plan["stop"] \subseteq d.plan["stop"] \cup {v} \cup SocketsOf[c][v]
<1> DEFINE e == Examined(d, a, v, up, old, c)
           x == Decide(d, a, "start", {v})
           y == Mark(x, "stop", {v})
           h == HandleModified(d, a, v, up, c, "stop", "start")
<1>1. e \in {d, Mark(d, "stop", {v}), x, y, h, Decide(d, a, "reload", {v})}
  BY DEF Examined, ExaminedRemoved
<1>2. Wider(d, d, v) /\ Noted(d, d)
  BY DEF Wider, Noted, Decisions, ListFiles, Lists
<1>3. LET f == Mark(d, "stop", {v})
      IN  /\ Wider(d, f, v) /\ Noted(d, f)
          /\ f.plan["stop"] \subseteq d.plan["stop"] \cup {v}
  BY MarkWidens
<1>4. /\ x \in Decisions /\ Wider(d, x, v) /\ Noted(d, x)
      /\ x.plan["stop"] = d.plan["stop"]
  BY DecideWidens DEF Lists
<1>5. LET f == Decide(d, a, "reload", {v})
      IN  Wider(d, f, v) /\ Noted(d, f) /\ f.plan["stop"] = d.plan["stop"]
  BY DecideWidens DEF Lists
<1>6. /\ Wider(d, h, v) /\ Noted(d, h)
      /\ h.plan["stop"] \subseteq d.plan["stop"] \cup {v} \cup SocketsOf[c][v]
  BY ModifiedWidens
<1> HIDE DEF e, x, h
<1>7. /\ Wider(d, y, v) /\ Noted(d, y)
      /\ y.plan["stop"] \subseteq d.plan["stop"] \cup {v}
  <2>1. /\ y \in Decisions /\ Wider(x, y, v) /\ Noted(x, y)
        /\ y.plan["stop"] \subseteq x.plan["stop"] \cup {v}
    BY <1>4, MarkWidens
  <2> HIDE DEF y
  <2> QED
    BY <1>4, <2>1, WiderTransitive
<1> HIDE DEF y
<1> QED
  BY <1>1, <1>2, <1>3, <1>4, <1>5, <1>6, <1>7 DEF e

\* What is decided about a changed unit that the properties speak of: a
\* restart, a reload or a stop, along with the sockets that are up.
LEMMA EligibleModified ==
    ASSUME NEW a \in Actions, a # "dry-activate", NEW d \in Decisions,
           NEW v \in Units, NEW up \in SUBSET Units, NEW c \in Configs,
           Eligible(v), v \notin d.plan["stop"], UnitDef[c][v] # None
    PROVE  LET e == HandleModified(d, a, v, up, c, "stop", "start")
           IN  \/ v \in e.plan["restart"] \cup e.plan["reload"]
               \/ /\ v \in e.plan["stop"]
                  /\ SocketsOf[c][v] \cap up \subseteq e.plan["stop"]
<1> DEFINE e == HandleModified(d, a, v, up, c, "stop", "start")
           new == Settings(c, v)
           r == Decide(d, a, "reload", {v})
           q == Decide(d, a, "restart", {v})
           k == Mark(d, "skip", {v})
           t == StopAndStart(d, a, v, up, c, "stop", "start")
           w == DropReload(q, a, v)
<1> SUFFICES \/ v \in e.plan["restart"] \cup e.plan["reload"]
             \/ /\ v \in e.plan["stop"]
                /\ SocketsOf[c][v] \cap up \subseteq e.plan["stop"]
  OBVIOUS
<1>1. new = UnitDef[c][v]
  BY DEF Settings
<1>2. v \in r.plan["reload"] /\ v \in q.plan["restart"]
  BY DecideWidens DEF Lists
<1>3. v \in w.plan["restart"]
  BY RestartDecision
<1>4. Wider(d, k, v)
  BY MarkWidens
<1>5. t.plan["stop"] = d.plan["stop"] \cup (SocketsOf[c][v] \cap up) \cup {v}
  BY StopDecision
<1>6. CASE Kind[v] = "mount"
  <2>1. e = q
    BY <1>6 DEF HandleModified
  <2> QED
    BY <1>2, <2>1
<1>7. CASE Kind[v] = "service"
  <2>1. \/ new.reloadIfChanged
        \/ new.restartIfChanged /\ ~new.refuseManualStop /\ ~new.onlyManualStart
    BY <1>1, <1>7 DEF Eligible
  <2>2. \/ e = r \/ e = t \/ e = w
        \/ /\ e = k
           /\ ~new.reloadIfChanged \/ v \in d.plan["restart"]
           /\ \/ ~new.restartIfChanged
              \/ new.refuseManualStop \/ new.onlyManualStart
    <3> HIDE DEF new
    <3> QED
      BY <1>7, ServiceModified DEF new
  <2>3. e = k => v \in k.plan["restart"] \/ e = r \/ e = t \/ e = w
    <3> HIDE DEF e, k, r, t, w, new
    <3> QED
      BY <1>4, <2>1, <2>2 DEF Wider
  <2> HIDE DEF e, k, r, t, w, new
  <2>4. e = k => v \in e.plan["restart"] \/ e = r \/ e = t \/ e = w
    BY <2>3
  <2>5. \/ e = r \/ e = t \/ e = w \/ v \in e.plan["restart"]
    BY <2>2, <2>4
  <2>6. CASE e = r
    BY <1>2, <2>6
  <2>7. CASE e = t
    <3>1. v \in t.plan["stop"] /\ SocketsOf[c][v] \cap up \subseteq t.plan["stop"]
      BY <1>5
    <3> QED
      BY <2>7, <3>1
  <2>8. CASE e = w
    BY <1>3, <2>8
  <2> QED
    BY <2>5, <2>6, <2>7, <2>8
<1> QED
  BY <1>6, <1>7 DEF Eligible

\* A unit that is up and that /etc knows is stopped if it is removed, and
\* otherwise left alone only if it is as it should be.
LEMMA ExaminedEligible ==
    ASSUME NEW a \in Actions, a # "dry-activate", NEW d \in Decisions,
           NEW v \in Units, NEW up \in SUBSET Units, NEW old \in Configs,
           NEW c \in Configs, Eligible(v), v \notin d.plan["stop"],
           UnitDef[old][v] # None
    PROVE  LET e == Examined(d, a, v, up, old, c)
           IN  /\ UnitDef[c][v] = None => v \in e.plan["stop"]
               /\ UnitDef[c][v] # None =>
                     \/ Same(old, c, v) /\ e = d
                     \/ v \in e.plan["restart"] \cup e.plan["reload"]
                     \/ /\ v \in e.plan["stop"]
                        /\ SocketsOf[c][v] \cap up \subseteq e.plan["stop"]
<1> DEFINE e == Examined(d, a, v, up, old, c)
           h == HandleModified(d, a, v, up, c, "stop", "start")
           r == Decide(d, a, "reload", {v})
           diff == CompareUnits(UnitDef[old][v], UnitDef[c][v])
<1>1. ~IsTarget(v)
  BY DEF Eligible, IsTarget
<1>2. ASSUME UnitDef[c][v] = None
      PROVE  v \in e.plan["stop"]
  <2>1. e = Mark(d, "stop", {v})
    BY <1>1, <1>2 DEF Examined, ExaminedRemoved, Eligible
  <2> QED
    BY <2>1, MarkWidens
<1>3. ASSUME UnitDef[c][v] # None
      PROVE  \/ Same(old, c, v) /\ e = d
             \/ v \in e.plan["restart"] \cup e.plan["reload"]
             \/ /\ v \in e.plan["stop"]
                /\ SocketsOf[c][v] \cap up \subseteq e.plan["stop"]
  <2>1. \/ v \in h.plan["restart"] \cup h.plan["reload"]
        \/ /\ v \in h.plan["stop"]
           /\ SocketsOf[c][v] \cap up \subseteq h.plan["stop"]
    BY <1>3, EligibleModified
  <2>2. v \in r.plan["reload"]
    BY DecideWidens DEF Lists, r
  <2>3. diff \in {0, 1, 2}
    BY Compared DEF diff
  <2> HIDE DEF h, r, diff
  <2>4. e = IF diff = 1 THEN h
            ELSE IF diff = 2 /\ v \notin d.plan.restart THEN r ELSE d
    BY <1>1, <1>3 DEF Examined, h, r, diff
  <2>5. CASE diff = 0
    BY <1>3, <2>4, <2>5 DEF Same, diff
  <2>6. CASE diff = 1
    BY <2>1, <2>4, <2>6
  <2>7. CASE diff = 2
    BY <2>2, <2>4, <2>7
  <2> QED
    BY <2>3, <2>5, <2>6, <2>7
<1> QED
  BY <1>2, <1>3

LEMMA ExaminedSocket ==
    ASSUME NEW a \in Actions, NEW d \in Decisions, NEW v \in Units,
           NEW up, NEW old \in Configs, NEW c \in Configs,
           UnitDef[old][v] # None, UnitDef[old][v].stopOnRemoval,
           UnitDef[c][v] = None
    PROVE  v \in Examined(d, a, v, up, old, c).plan["stop"]
<1>1. Examined(d, a, v, up, old, c) = Mark(d, "stop", {v})
  BY DEF Examined, ExaminedRemoved
<1> QED
  BY <1>1, MarkWidens

LEMMA ExaminedMountWidens ==
    ASSUME NEW a \in Actions, a # "dry-activate", NEW d \in Decisions,
           NEW v \in Units, NEW old \in Configs, NEW c \in Configs
    PROVE  LET e == ExaminedMount(d, a, v, old, c)
           IN  /\ Wider(d, e, v) /\ Noted(d, e)
               /\ d.plan["reload"] \subseteq e.plan["reload"]
<1> DEFINE e == ExaminedMount(d, a, v, old, c)
<1>1. e \in {d, Mark(d, "stop", {v}), Mark(d, "skip", {v}),
             Decide(d, a, "restart", {v}), Decide(d, a, "reload", {v})}
  BY DEF ExaminedMount
<1>2. Wider(d, d, v) /\ Noted(d, d)
  BY DEF Wider, Noted, Decisions, ListFiles, Lists
<1>3. ASSUME NEW set \in {"stop", "skip"}
      PROVE  LET f == Mark(d, set, {v})
             IN  Wider(d, f, v) /\ Noted(d, f) /\ d.plan["reload"] = f.plan["reload"]
  BY MarkWidens
<1>4. ASSUME NEW set \in {"restart", "reload"}
      PROVE  LET f == Decide(d, a, set, {v})
             IN  /\ Wider(d, f, v) /\ Noted(d, f)
                 /\ d.plan["reload"] \subseteq f.plan["reload"]
  BY DecideWidens DEF Lists
<1> HIDE DEF e
<1> QED
  BY <1>1, <1>2, <1>3, <1>4 DEF e

\* What becomes of a request to restart v.
LEMMA AskedModified ==
    ASSUME NEW a \in Actions, a # "dry-activate", NEW d \in Decisions,
           NEW v \in Units, NEW up \in SUBSET Units, NEW c \in Configs
    PROVE  LET e == HandleModified(d, a, v, up, c, "restart", "restart")
           IN  /\ Wider(d, e, v)
               /\ v \in d.plan["reload"] => v \in e.plan["reload"] \cup e.plan["restart"]
<1> DEFINE e == HandleModified(d, a, v, up, c, "restart", "restart")
           y == StopAndStart(d, a, v, up, c, "restart", "restart")
<1>1. CASE Kind[v] # "service"
  BY <1>1, OtherModified
<1>2. CASE Kind[v] = "service"
  <2>1. e \in {Decide(d, a, "reload", {v}), Mark(d, "skip", {v}), y,
               DropReload(Decide(d, a, "restart", {v}), a, v)}
    BY <1>2, ServiceModified
  <2>2. LET f == Decide(d, a, "reload", {v})
        IN  Wider(d, f, v) /\ v \in f.plan["reload"]
    BY DecideWidens DEF Lists
  <2>3. LET f == Mark(d, "skip", {v})
        IN  Wider(d, f, v) /\ f.plan["reload"] = d.plan["reload"]
    BY MarkWidens
  <2>4. LET f == DropReload(Decide(d, a, "restart", {v}), a, v)
        IN  Wider(d, f, v) /\ v \in f.plan["restart"]
    BY RestartDecision
  <2>5. Wider(d, y, v) /\ v \in y.plan["restart"]
    BY StopDecisionAsked
  <2> HIDE DEF e, y
  <2> QED
    BY <2>1, <2>2, <2>3, <2>4, <2>5 DEF e
<1> QED
  BY <1>1, <1>2

-----------------------------------------------------------------------------
(* The invariant is kept.                                                  *)

\* What a run that is not a dry one knows.
Knows(p) == action[p] # "dry-activate" =>
               Seen(p) /\ Judged(p) /\ Pending(p) /\ Moved(p)

Outside == {"idle", "lock", "bootloader", "check", "read"} \cup Dry

\* A run that has not looked at the system, or only shows, knows nothing of it.
LEMMA OutsideKnows ==
    ASSUME NEW p \in Procs, pc'[p] \in Outside
    PROVE  Knows(p)'
<1>1. pc'[p] \notin Snapshot \cup Looking \cup Deciding \cup Loaded
                      \cup {"propRestart", "propReload", "daemon"}
  BY DEF Outside, Dry, Snapshot, Looking, Deciding, Loaded
<1>2. Seen(p)'
  BY <1>1 DEF Seen, Looking
<1>3. Judged(p)'
  BY <1>1 DEF Judged, Snapshot, Looking
<1>4. Pending(p)'
  BY <1>1 DEF Pending, Deciding, Loaded, Looking
<1>5. Moved(p)'
  BY <1>1 DEF Moved
<1> QED
  BY <1>2, <1>3, <1>4, <1>5 DEF Knows

\* A step of the running process has only its own knowledge to keep.
LEMMA KnowsAlone ==
    ASSUME IInv, NEW p \in Procs, Running(p), NEW where \in Pcs, Goto(p, where),
           UnitsInv', where \in Outside \/ Knows(p)'
    PROVE  FreshInv'
<1>1. ASSUME NEW q \in Procs, q # p PROVE Knows(q)'
  <2>1. pc'[q] \in {"idle", "lock"}
    BY <1>1, Alone DEF Goto, IInv, TypeOK
  <2> QED
    BY <2>1, OutsideKnows DEF Outside
<1>2. pc'[p] = where
  BY DEF Goto, IInv, TypeOK
<1>3. Knows(p)'
  BY <1>2, OutsideKnows
<1> QED
  BY <1>1, <1>3 DEF FreshInv, Knows

\* Nobody knows less for a step that leaves the system and his locals alone.
LEMMA OthersKnow ==
    ASSUME NEW q \in Procs, Knows(q),
           UNCHANGED <<run, failed, etc, loaded, lists, late, missed>>,
           pc'[q] = pc[q], action'[q] = action[q], top'[q] = top[q],
           active'[q] = active[q], todo'[q] = todo[q], plan'[q] = plan[q],
           res'[q] = res[q]
    PROVE  Knows(q)'
<1>1. /\ Listed("restart")' = Listed("restart") /\ Fronts' = Fronts /\ Up' = Up
      /\ \A u \in Units : /\ InSight(u)' <=> InSight(u)
                          /\ Same(run[u], etc, u)' <=> Same(run[u], etc, u)
                          /\ Planned(q, u)' <=> Planned(q, u)
                          /\ Open(q, u)' <=> Open(q, u)
                          /\ ToStop(q, u)' <=> ToStop(q, u)
                          /\ ToKeep(q, u)' <=> ToKeep(q, u)
                          /\ Off(q, u)' <=> Off(q, u)
  BY DEF Listed, Fronts, Up, InSight, Same, Planned, Open, ToStop, ToKeep, Off
<1>2. ASSUME action[q] # "dry-activate"
      PROVE  Seen(q)' /\ Judged(q)' /\ Pending(q)' /\ Moved(q)'
  <2>1. Seen(q) /\ Judged(q) /\ Pending(q) /\ Moved(q)
    BY <1>2 DEF Knows
  <2>2. Seen(q)'
    BY <1>1, <2>1 DEF Seen
  <2>3. Judged(q)'
    BY <1>1, <2>1 DEF Judged, ToKeep, Off, Open, ToStop, Planned, Same
  <2>4. Pending(q)'
    BY <1>1, <2>1 DEF Pending
  <2> QED
    BY <2>1, <2>2, <2>3, <2>4 DEF Moved
<1> QED
  BY <1>2 DEF Knows

LEMMA UnitsFramed ==
    ASSUME UnitsInv, UNCHANGED <<run, etc, late, missed, lists>>,
           failed' \subseteq failed
    PROVE  UnitsInv'
BY DEF UnitsInv, InSight, Good, Same, Listed, Fronts, Exists

\* Some units go down, others are made to run what /etc says, and those that
\* missed something are remembered as long as they go on as they were.
Refreshes ==
    /\ UNCHANGED <<etc, late, lists>> /\ etc \in Configs
    /\ \A u \in Units : \/ run'[u] \in {None, run[u]}
                        \/ run'[u] = etc /\ Exists(etc, u)
    /\ \A u \in failed' : run'[u] = None
    /\ \A u \in missed : run'[u] = run[u] => u \in missed'

LEMMA UnitsRefreshed ==
    ASSUME UnitsInv, Refreshes
    PROVE  UnitsInv'
<1>1. ASSUME NEW u \in Units, run'[u] # None PROVE Exists(run'[u], u)
  BY <1>1 DEF UnitsInv, Refreshes
<1>2. ASSUME NEW u \in Units, InSight(u)' PROVE Good(u)'
  <2>1. CASE run'[u] = run[u]
    <3>1. Good(u)
      BY <1>2, <2>1 DEF UnitsInv, InSight, Refreshes
    <3>2. u \notin missed' => u \notin missed
      BY <2>1 DEF Refreshes
    <3> QED
      BY <2>1, <3>1, <3>2 DEF Good, Same, Listed, Refreshes
  <2>2. CASE run'[u] = etc /\ Exists(etc, u)
    <3>1. UnitDef[etc][u] # None
      BY <1>2, <2>2, EligibleHasUnitFile DEF InSight, Refreshes
    <3> QED
      BY <2>2, <3>1, SameItself DEF Good, Same, Refreshes
  <2>3. run'[u] # None
    BY <1>2 DEF InSight
  <2> QED
    BY <2>1, <2>2, <2>3 DEF Refreshes
<1>3. ASSUME NEW s \in Fronts, run'[s] # None PROVE UnitDef[etc'][s] # None
  <2>1. s \in Units /\ Kind[s] = "socket" /\ etc \in Configs /\ etc' = etc
    BY FrontsAreSockets DEF Refreshes
  <2>2. CASE run'[s] = run[s]
    BY <1>3, <2>1, <2>2 DEF UnitsInv
  <2>3. CASE run'[s] = etc /\ Exists(etc, s)
    BY <2>1, <2>3, FrontsAreSockets, HasUnitFile
  <2> QED
    BY <1>3, <2>1, <2>2, <2>3 DEF Refreshes
<1>4. /\ \A u \in late' : Kind[u] # "socket"
      /\ \A u \in failed' : run'[u] = None
  BY DEF UnitsInv, Refreshes
<1>5. Fronts' = Fronts
  BY DEF Fronts
<1> QED
  BY <1>1, <1>2, <1>3, <1>4, <1>5 DEF UnitsInv, Exists

\* Reading the lists and the active units.
LEMMA ReadListsFresh ==
    ASSUME IInv, FreshInv, NEW p \in Procs, ReadLists(p)
    PROVE  FreshInv'
<1>1. /\ Running(p) /\ "examine" \in Pcs /\ Goto(p, "examine")
      /\ UNCHANGED <<run, failed, etc, late, missed, lists>>
  BY DEF ReadLists, At, Running, Pcs, sys, history, budget
<1>2. UnitsInv'
  BY <1>1, UnitsFramed DEF FreshInv
<1>3. /\ pc'[p] = "examine" /\ active'[p] = Up \cup failed /\ todo'[p] = Up
      /\ plan'[p]["restart"] = Listed("restart")
      /\ plan'[p]["reload"] = Listed("reload") /\ plan'[p]["stop"] = {}
  BY DEF ReadLists, Goto, Set, Sets, Lists, IInv, TypeOK
<1>4. /\ Up' = Up /\ \A u \in Units : u \in Up <=> run'[u] # None
      /\ Up \subseteq Units /\ failed' = failed
  BY <1>1 DEF Up
<1>5. Seen(p)'
  BY <1>3, <1>4 DEF Seen
<1>6. Judged(p)'
  <2>1. \A u \in Units : InSight(u)' => Open(p, u)'
    BY <1>3, <1>4 DEF InSight, Open
  <2>2. \A s \in Fronts : s \in Units /\ (run'[s] # None => Open(p, s)')
    BY <1>3, <1>4, FrontsAreSockets DEF Open
  <2> QED
    BY <1>3, <2>1, <2>2 DEF Judged, Fronts
<1>7. Pending(p)'
  <2>1. Listed("restart")' = Listed("restart")
    BY <1>1 DEF Listed
  <2>2. ASSUME NEW u \in Units, InSight(u)', u \notin missed'
        PROVE  Same(run[u], etc, u)' \/ Planned(p, u)'
    <3>1. Good(u)
      BY <1>1, <2>2 DEF FreshInv, UnitsInv, InSight
    <3>2. Same(run[u], etc, u) <=> Same(run[u], etc, u)'
      BY <1>1 DEF Same
    <3> QED
      BY <1>1, <1>3, <2>2, <3>1, <3>2 DEF Good, Planned
  <2> QED
    BY <1>3, <2>1, <2>2 DEF Pending
<1>8. Moved(p)'
  BY <1>3 DEF Moved, Loaded
<1> QED
  BY <1>1, <1>2, <1>5, <1>6, <1>7, <1>8, KnowsAlone DEF Knows

\* What a decision about v may not do: take back a reload of it without a
\* restart or, at first, a stop in its place.
Keeping(p, d, e, v) ==
    /\ Wider(d, e, v)
    /\ InSight(v) /\ v \in d.plan["reload"] =>
          \/ v \in e.plan["reload"] \cup e.plan["restart"]
          \/ pc[p] \in Looking /\ v \in e.plan["stop"]
    /\ pc[p] \in Looking \cup {"activate"} => Noted(d, e)

\* A decision about v, as it is carried out.
Decides(p, v, d) ==
    /\ d \in Decisions /\ Decided(p, v, d)
    /\ pc[p] \in Deciding
    /\ UNCHANGED <<sys, pc, action, top, active, res, late>>

LEMMA DecidedState ==
    ASSUME IInv, NEW p \in Procs, NEW v \in Units, NEW d, Decides(p, v, d)
    PROVE  /\ plan'[p] = d.plan /\ lists' = d.lists
           /\ todo'[p] = todo[p] \ {v}
           /\ Memory(p) \in Decisions
           /\ Memory(p).plan = plan[p] /\ Memory(p).lists = lists
           /\ UNCHANGED <<run, failed, loaded, etc, pc, action, top, active, res,
                          late>>
           /\ missed \subseteq missed'
<1>1. Memory(p) \in Decisions
  BY DecidingFacts DEF Decides
<1>2. /\ plan' = Set(plan, p, d.plan) /\ lists' = d.lists
      /\ todo' = Set(todo, p, todo[p] \ {v}) /\ missed \subseteq missed'
  BY DEF Decides, Decided
<1>3. plan'[p] = d.plan /\ todo'[p] = todo[p] \ {v}
  BY <1>2 DEF Set, IInv, TypeOK
<1> QED
  BY <1>1, <1>2, <1>3 DEF Decides, Memory, sys

\* Restarts stay in the list.
LEMMA DecidedListed ==
    ASSUME IInv, NEW p \in Procs, NEW v \in Units, NEW d, Decides(p, v, d),
           Wider(Memory(p), d, v)
    PROVE  Listed("restart") \subseteq Listed("restart")'
<1>1. lists' = d.lists /\ Memory(p).lists = lists
  BY DecidedState
<1>2. \A w \in Units : lists["restart"][w] \in Nat /\ d.lists["restart"][w] \in Nat
  BY DEF Decides, Decisions, ListFiles, Lists, IInv, TypeOK
<1>3. \A w \in Units : d.lists["restart"][w] >= lists["restart"][w]
  BY <1>1 DEF Wider
<1> QED
  BY <1>1, <1>2, <1>3 DEF Listed

\* A unit whose reload is struck off the list has missed it.
LEMMA UnitsDecided ==
    ASSUME UnitsInv, IInv, NEW p \in Procs, NEW v \in Units, NEW d,
           Decides(p, v, d), Wider(Memory(p), d, v)
    PROVE  UnitsInv'
<1>1. UNCHANGED <<run, failed, etc, late>> /\ missed \subseteq missed'
  BY DecidedState
<1>2. ASSUME NEW u \in Units, InSight(u)' PROVE Good(u)'
  <2>1. InSight(u) /\ Good(u)
    BY <1>1, <1>2 DEF InSight, UnitsInv
  <2>2. ASSUME u \notin missed'
        PROVE  Same(run[u], etc, u)' \/ u \in (Listed("reload") \cup Listed("restart"))'
    <3>1. CASE Same(run[u], etc, u)
      BY <1>1, <3>1 DEF Same
    <3>2. CASE u \in Listed("restart")
      BY <3>2, DecidedListed
    <3>3. CASE u \in Listed("reload")
      <4>1. u \in Up
        BY <2>1 DEF InSight, Up
      <4> QED
        BY <2>2, <3>3, <4>1 DEF Decides, Decided
    <3> QED
      BY <1>1, <2>1, <2>2, <3>1, <3>2, <3>3 DEF Good
  <2> QED
    BY <1>1, <2>1, <2>2 DEF Good
<1> QED
  BY <1>1, <1>2 DEF UnitsInv, Exists, Fronts

LEMMA DecidedPending ==
    ASSUME IInv, NEW p \in Procs, NEW v \in Units, NEW d, Decides(p, v, d),
           Pending(p), Keeping(p, Memory(p), d, v)
    PROVE  Pending(p)'
<1>1. /\ plan'[p] = d.plan /\ lists' = d.lists
      /\ Memory(p) \in Decisions /\ d \in Decisions
      /\ Memory(p).plan = plan[p] /\ Memory(p).lists = lists
      /\ UNCHANGED <<run, etc, pc, late>> /\ missed \subseteq missed'
      /\ pc[p] \in Deciding
  BY DecidedState DEF Decides
<1> DEFINE m == Memory(p)
<1>2. Listed("restart") \subseteq Listed("restart")'
  BY DecidedListed DEF Keeping
<1> HIDE DEF m
<1>3. Wider(m, d, v) /\ m.plan = plan[p] /\ m.lists = lists
  BY <1>1 DEF Keeping, m
<1>4. plan'[p]["restart"] \subseteq Units /\ plan[p]["restart"] \subseteq Units
  BY <1>1 DEF Decisions, Plans, Sets, Lists
<1>5. ASSUME pc[p] \in Looking \cup {"activate"}, NEW u \in plan'[p]["restart"]
      PROVE  u \in Listed("restart")'
  <2>1. u \in plan[p]["restart"] \/ d.lists["restart"][u] > 0
    BY <1>1, <1>3, <1>5 DEF Keeping, Noted, m
  <2>2. CASE u \in plan[p]["restart"]
    BY <1>2, <1>5, <2>2 DEF Pending
  <2>3. CASE d.lists["restart"][u] > 0
    BY <1>1, <1>4, <2>3 DEF Listed
  <2> QED
    BY <2>1, <2>2, <2>3
<1>6. ASSUME NEW u \in Units, InSight(u), Planned(p, u)
      PROVE  \/ Planned(p, u)'
             \/ pc[p] \in Looking /\ u \in plan'[p]["stop"]
  <2>1. CASE u # v
    BY <1>1, <1>3, <1>6, <2>1 DEF Wider, Planned
  <2>2. CASE u = v
    <3>1. u \in m.plan["reload"] =>
            \/ u \in d.plan["reload"] \cup d.plan["restart"]
            \/ pc[p] \in Looking /\ u \in d.plan["stop"]
      BY <1>6, <2>2 DEF Keeping, m
    <3> QED
      BY <1>1, <1>3, <1>6, <3>1 DEF Wider, Planned
  <2> QED
    BY <2>1, <2>2
<1>7. ASSUME NEW u \in Units, InSight(u)', u \notin missed'
      PROVE  \/ Same(run[u], etc, u)' \/ Planned(p, u)'
             \/ pc[p] \in Looking /\ u \in plan'[p]["stop"]
  <2>1. InSight(u) /\ u \notin missed
    BY <1>1, <1>7 DEF InSight
  <2>2. \/ Same(run[u], etc, u) \/ Planned(p, u)
        \/ pc[p] \in Looking /\ u \in plan[p]["stop"]
    BY <1>1, <2>1 DEF Pending
  <2>3. Same(run[u], etc, u) <=> Same(run[u], etc, u)'
    BY <1>1 DEF Same
  <2>4. plan[p]["stop"] \subseteq plan'[p]["stop"]
    BY <1>1, <1>3 DEF Wider
  <2> QED
    BY <1>6, <2>1, <2>2, <2>3, <2>4
<1>8. pc'[p] = pc[p] /\ pc'[p] \in Deciding
  BY <1>1
<1> QED
  BY <1>5, <1>7, <1>8 DEF Pending, Deciding, Looking

\* A decision of a loop whose outcome the run keeps track of.
LEMMA DecidedFresh ==
    ASSUME IInv, FreshInv, NEW p \in Procs, NEW v \in Units, NEW d,
           Decides(p, v, d),
           action[p] = "dry-activate" => d.lists = lists,
           action[p] # "dry-activate" =>
              Keeping(p, Memory(p), d, v) /\ Seen(p)' /\ Judged(p)'
    PROVE  FreshInv'
<1>1. /\ lists' = d.lists
      /\ UNCHANGED <<run, failed, loaded, etc, pc, action, top, active, res, late>>
      /\ pc[p] \in Deciding
  BY DecidedState DEF Decides
<1>2. Running(p) /\ Goto(p, pc[p]) /\ pc[p] \in Pcs
  BY <1>1, DecidingFacts DEF Goto, IInv, TypeOK
<1>3. CASE action[p] = "dry-activate"
  <2>1. missed' = missed
    <3>1. Listed("reload")' = Listed("reload")
      BY <1>1, <1>3 DEF Listed
    <3> QED
      BY <3>1 DEF Decides, Decided
  <2>2. UnitsInv'
    BY <1>1, <1>3, <2>1, UnitsFramed DEF FreshInv
  <2>3. Knows(p)'
    BY <1>1, <1>3 DEF Knows
  <2> QED
    BY <1>2, <2>2, <2>3, KnowsAlone
<1>4. CASE action[p] # "dry-activate"
  <2>1. Pending(p)'
    BY <1>4, DecidedPending DEF FreshInv
  <2>2. UnitsInv'
    BY <1>4, UnitsDecided DEF FreshInv, Keeping
  <2>3. Moved(p)'
    BY <1>1, <1>4 DEF FreshInv, Moved
  <2> QED
    BY <1>2, <1>4, <2>1, <2>2, <2>3, KnowsAlone DEF Knows
<1> QED
  BY <1>3, <1>4

\* A unit in sight that is looked at: it is stopped, planned or as it should
\* be, and what was planned for it is not forgotten.
LEMMA UnitInSightExamined ==
    ASSUME SocketsFollow, IInv, FreshInv, NEW p \in Procs,
           action[p] # "dry-activate", pc[p] = "examine", NEW v \in todo[p],
           InSight(v), NEW d, Decides(p, v, d),
           d = Examined(Memory(p), action[p], v, active[p], etc, top[p])
    PROVE  /\ ToStop(p, v)' \/ ToKeep(p, v)'
           /\ v \in plan[p]["reload"] => Planned(p, v)' \/ v \in plan'[p]["stop"]
<1> DEFINE m == Memory(p)
           c == top[p]
<1>1. /\ action[p] \in Actions /\ c \in Configs /\ etc \in Configs
      /\ active[p] \in SUBSET Units /\ v \in Units
  BY DecidingFacts DEF Deciding
<1>2. /\ plan'[p] = d.plan /\ lists' = d.lists
      /\ m \in Decisions /\ m.plan = plan[p] /\ m.lists = lists
      /\ UNCHANGED <<run, etc, top, active>> /\ missed \subseteq missed'
  BY <1>1, DecidedState
<1>3. Seen(p) /\ Judged(p) /\ Pending(p) /\ Good(v)
  BY <1>1 DEF FreshInv, UnitsInv
<1>4. v \notin m.plan["stop"] /\ UnitDef[etc][v] # None /\ Eligible(v)
  <2>1. Kind[v] # "socket"
    BY DEF InSight, Eligible
  <2> QED
    BY <1>2, <1>3, <2>1 DEF Seen, Good, InSight
<1>5. /\ UnitDef[c][v] = None => v \in d.plan["stop"]
      /\ UnitDef[c][v] # None =>
            \/ Same(etc, c, v) /\ d = m
            \/ v \in d.plan["restart"] \cup d.plan["reload"]
            \/ /\ v \in d.plan["stop"]
               /\ SocketsOf[c][v] \cap active[p] \subseteq d.plan["stop"]
  <2> HIDE DEF m, c
  <2> DEFINE a == action[p]
             up == active[p]
  <2>1. a \in Actions /\ a # "dry-activate" /\ up \in SUBSET Units
    BY <1>1
  <2> HIDE DEF a, up
  <2>2. d = Examined(m, a, v, up, etc, c)
    BY DEF m, c, a, up
  <2>3. m \in Decisions /\ v \in Units /\ c \in Configs /\ etc \in Configs
    BY <1>1, <1>2
  <2> QED
    BY ONLY <1>4, <2>1, <2>2, <2>3, ExaminedEligible DEF up
<1> HIDE DEF m
<1>6. CASE UnitDef[c][v] = None
  <2>1. \A s \in SocketsOf[c][v] : UnitDef[c][s] = None
    BY <1>1, <1>4, <1>6 DEF SocketsFollow
  <2>2. ToStop(p, v)'
    BY <1>2, <1>5, <1>6, <2>1 DEF ToStop
  <2> QED
    BY <1>2, <1>5, <1>6, <2>2
<1>7. CASE UnitDef[c][v] # None
  <2>1. CASE Same(etc, c, v) /\ d = m
    <3>1. Planned(p, v)' <=> Planned(p, v)
      BY <1>2, <2>1 DEF Planned
    <3>2. v \notin missed => Same(run[v], etc, v) \/ Planned(p, v)
      BY <1>1, <1>2, <1>3, <1>4 DEF Pending, Deciding
    <3>3. Same(run[v], etc, v) => Same(run[v], c, v)
      BY <2>1, SameTransitive
    <3>4. ToKeep(p, v)'
      BY <1>2, <1>7, <2>1, <3>1, <3>2, <3>3 DEF ToKeep, Same
    <3> QED
      BY <3>1, <3>4 DEF Planned
  <2>2. CASE v \in d.plan["restart"] \cup d.plan["reload"]
    BY <1>2, <1>7, <2>2 DEF ToKeep, Planned
  <2>3. CASE /\ v \in d.plan["stop"]
             /\ SocketsOf[c][v] \cap active[p] \subseteq d.plan["stop"]
    BY <1>2, <2>3 DEF ToStop
  <2> QED
    BY <1>5, <1>7, <2>1, <2>2, <2>3
<1> QED
  BY <1>6, <1>7

LEMMA ExamineUnitFresh ==
    ASSUME SocketsFollow, IInv, FreshInv, NEW p \in Procs, ExamineUnit(p)
    PROVE  FreshInv'
<1> DEFINE m == Memory(p)
           a == action[p]
           c == top[p]
           e(u) == Examined(m, a, u, active[p], etc, c)
<1>1. PICK v \in todo[p] : Decided(p, v, e(v))
  BY DEF ExamineUnit
<1>2. pc[p] = "examine" /\ pc[p] \in Deciding
  BY DEF ExamineUnit, At, Deciding
<1>3. /\ m \in Decisions /\ Sound(m, a) /\ a \in Actions /\ c \in Configs
      /\ etc \in Configs /\ active[p] \in SUBSET Units /\ v \in Units
  BY <1>2, DecidingFacts
<1>4. Decides(p, v, e(v))
  <2>1. e(v) \in Decisions
    BY <1>3, ExaminedSound
  <2> HIDE DEF e
  <2> QED
    BY <1>1, <1>2, <2>1 DEF Decides, ExamineUnit, sys, budget
<1> DEFINE d == e(v)
<1>5. /\ plan'[p] = d.plan /\ lists' = d.lists /\ todo'[p] = todo[p] \ {v}
      /\ m.plan = plan[p] /\ m.lists = lists
      /\ UNCHANGED <<run, failed, loaded, etc, pc, action, top, active, res, late>>
      /\ missed \subseteq missed'
  BY <1>3, <1>4, DecidedState
<1>6. a = "dry-activate" => d.lists = lists
  <2> SUFFICES ASSUME a = "dry-activate" PROVE d.lists = lists
    OBVIOUS
  <2> HIDE DEF m, a
  <2>1. Examined(m, a, v, active[p], etc, c).lists = m.lists
    BY <1>3, DryDecisions
  <2> QED
    BY <1>5, <2>1 DEF m, a
<1>7. ASSUME a # "dry-activate"
      PROVE  Keeping(p, m, d, v) /\ Seen(p)' /\ Judged(p)'
  <2>1. Seen(p) /\ Judged(p) /\ Pending(p)
    BY <1>7 DEF FreshInv
  <2>2. /\ Wider(m, d, v) /\ Noted(m, d)
        /\ d.plan["stop"] \subseteq m.plan["stop"] \cup {v} \cup SocketsOf[c][v]
    BY <1>3, <1>7, ExaminedWidens
  <2>3. ASSUME InSight(v)
        PROVE  /\ ToStop(p, v)' \/ ToKeep(p, v)'
               /\ v \in plan[p]["reload"] => Planned(p, v)' \/ v \in plan'[p]["stop"]
    BY <1>2, <1>4, <1>7, <2>3, UnitInSightExamined
  <2>4. v \in active[p] /\ run[v] # None
    BY <1>2, <1>3, <2>1 DEF Seen, Up
  <2>5. ASSUME v \in Fronts
        PROVE  v \in d.plan["stop"] \/ UnitDef[c][v] # None
    <3>1. UnitDef[etc][v] # None
      BY <1>3, <2>4, <2>5 DEF FreshInv, UnitsInv
    <3>2. UnitDef[etc][v].stopOnRemoval
      BY <1>3, <2>5, <3>1 DEF SocketsFollow
    <3> QED
      BY <1>3, <1>7, <3>1, <3>2, ExaminedSocket
  <2> HIDE DEF m, d, e
  <2>6. Keeping(p, m, d, v)
    BY <1>2, <1>5, <2>2, <2>3 DEF Keeping, Planned, Looking
  <2>7. Seen(p)'
    <3>1. ASSUME NEW u \in (todo[p] \ {v}) \cap d.plan["stop"]
          PROVE  Kind[u] = "socket"
      <4>1. CASE u \in m.plan["stop"]
        BY <1>2, <1>5, <2>1, <4>1 DEF Seen
      <4>2. CASE u \in SocketsOf[c][v]
        BY <1>3, <4>2, ConstantTypes
      <4> QED
        BY <2>2, <4>1, <4>2
    <3>2. Up' = Up
      BY <1>5 DEF Up
    <3> QED
      BY <1>2, <1>5, <2>1, <3>1, <3>2 DEF Seen, Looking, Snapshot
  <2>8. ASSUME NEW u \in Units, InSight(u)'
        PROVE  Open(p, u)' \/ ToStop(p, u)' \/ ToKeep(p, u)'
    <3>1. InSight(u)
      BY <1>5, <2>8 DEF InSight
    <3>2. CASE u = v
      BY <2>3, <3>1, <3>2
    <3>3. CASE u # v
      <4>1. Open(p, u) \/ ToStop(p, u) \/ ToKeep(p, u)
        BY <1>2, <2>1, <3>1 DEF Judged, Looking
      <4>2. Open(p, u) => Open(p, u)'
        BY <1>5, <3>3 DEF Open
      <4>3. ToStop(p, u) => ToStop(p, u)'
        BY <1>5, <2>2 DEF ToStop, Wider
      <4>4. Planned(p, u) => Planned(p, u)'
        BY <1>5, <2>2, <3>3 DEF Planned, Wider
      <4>5. ToKeep(p, u) => ToKeep(p, u)'
        BY <1>5, <4>4 DEF ToKeep, Same
      <4> QED
        BY <4>1, <4>2, <4>3, <4>5
    <3> QED
      BY <3>2, <3>3
  <2>9. ASSUME NEW s \in Fronts, run'[s] # None
        PROVE  Open(p, s)' \/ s \in plan'[p]["stop"] \/ UnitDef[top'[p]][s] # None
    <3>1. CASE s = v
      BY <1>5, <2>5, <2>9, <3>1
    <3>2. CASE s # v
      BY <1>2, <1>5, <2>1, <2>2, <2>9, <3>2 DEF Judged, Looking, Open, Wider
    <3> QED
      BY <3>1, <3>2
  <2>10. Judged(p)'
    BY <1>2, <1>5, <2>8, <2>9 DEF Judged, Fronts
  <2> QED
    BY <2>6, <2>7, <2>10
<1> HIDE DEF d, e
<1> QED
  BY <1>3, <1>4, <1>6, <1>7, DecidedFresh DEF d

\* What is planned for the units that are not generated remains.
LEMMA ExamineMountFresh ==
    ASSUME IInv, FreshInv, NEW p \in Procs, ExamineMount(p)
    PROVE  FreshInv'
<1> DEFINE m == Memory(p)
           a == action[p]
           c == top[p]
           e(u) == ExaminedMount(m, a, u, etc, c)
<1>1. PICK v \in todo[p] : Decided(p, v, e(v))
  BY DEF ExamineMount
<1>2. pc[p] = "fstab" /\ pc[p] \in Deciding
  BY DEF ExamineMount, At, Deciding
<1>3. /\ m \in Decisions /\ Sound(m, a) /\ a \in Actions /\ c \in Configs
      /\ etc \in Configs /\ active[p] \in SUBSET Units /\ v \in Units
  BY <1>2, DecidingFacts
<1>4. Decides(p, v, e(v))
  <2>1. e(v) \in Decisions
    BY <1>3, ExaminedMountSound
  <2> HIDE DEF e
  <2> QED
    BY <1>1, <1>2, <2>1 DEF Decides, ExamineMount, sys, budget
<1> DEFINE d == e(v)
<1>5. /\ plan'[p] = d.plan /\ lists' = d.lists /\ todo'[p] = todo[p] \ {v}
      /\ m.plan = plan[p] /\ m.lists = lists
      /\ UNCHANGED <<run, failed, loaded, etc, pc, action, top, active, res, late>>
      /\ missed \subseteq missed'
  BY <1>3, <1>4, DecidedState
<1>6. a = "dry-activate" => d.lists = lists
  <2> SUFFICES ASSUME a = "dry-activate" PROVE d.lists = lists
    OBVIOUS
  <2> HIDE DEF m, a
  <2>1. ExaminedMount(m, a, v, etc, c).lists = m.lists
    BY <1>3, DryDecisions
  <2> QED
    BY <1>5, <2>1 DEF m, a
<1>7. ASSUME a # "dry-activate"
      PROVE  Keeping(p, m, d, v) /\ Seen(p)' /\ Judged(p)'
  <2>1. Seen(p) /\ Judged(p)
    BY <1>7 DEF FreshInv
  <2>2. /\ Wider(m, d, v) /\ Noted(m, d)
        /\ m.plan["reload"] \subseteq d.plan["reload"]
    BY <1>3, <1>7, ExaminedMountWidens
  <2> HIDE DEF m, d, e
  <2>3. Keeping(p, m, d, v)
    BY <2>2 DEF Keeping
  <2>4. Seen(p)'
    <3>1. Up' = Up
      BY <1>5 DEF Up
    <3> QED
      BY <1>2, <1>5, <2>1, <3>1 DEF Seen, Looking, Snapshot
  <2>5. ASSUME NEW u \in Units, InSight(u)'
        PROVE  ToStop(p, u)' \/ ToKeep(p, u)'
    <3>1. InSight(u)
      BY <1>5, <2>5 DEF InSight
    <3>2. ToStop(p, u) \/ ToKeep(p, u)
      BY <1>2, <2>1, <3>1 DEF Judged, Looking, Open
    <3>3. ToStop(p, u) => ToStop(p, u)'
      BY <1>5, <2>2 DEF ToStop, Wider
    <3>4. Planned(p, u) => Planned(p, u)'
      BY <1>5, <2>2 DEF Planned, Wider
    <3>5. ToKeep(p, u) => ToKeep(p, u)'
      BY <1>5, <3>4 DEF ToKeep, Same
    <3> QED
      BY <3>2, <3>3, <3>5
  <2>6. ASSUME NEW s \in Fronts, run'[s] # None
        PROVE  s \in plan'[p]["stop"] \/ UnitDef[top'[p]][s] # None
    BY <1>2, <1>5, <2>1, <2>2, <2>6 DEF Judged, Looking, Open, Wider
  <2>7. Judged(p)'
    BY <1>2, <1>5, <2>5, <2>6 DEF Judged, Fronts
  <2> QED
    BY <2>3, <2>4, <2>7
<1> HIDE DEF d, e
<1> QED
  BY <1>3, <1>4, <1>6, <1>7, DecidedFresh DEF d

\* After the activation script nothing is looked at any more.
LEMMA LaterKnows ==
    ASSUME NEW p \in Procs, UNCHANGED <<run, etc, pc, active, late>>, Seen(p),
           pc[p] \notin Looking \cup {"activate"}
    PROVE  Seen(p)' /\ Judged(p)'
BY DEF Seen, Judged, Looking

LEMMA PropagateRestartFresh ==
    ASSUME IInv, FreshInv, NEW p \in Procs, PropagateRestart(p)
    PROVE  FreshInv'
<1> DEFINE m == Memory(p)
           a == action[p]
           c == top[p]
           x(u) == Decide(m, a, "start", {u})
           h(u) == HandleModified(m, a, u, active[p], c, "restart", "restart")
           e(u) == IF u \notin active[p] THEN x(u) ELSE h(u)
<1>1. PICK v \in todo[p] : Decided(p, v, e(v))
  BY DEF PropagateRestart
<1>2. pc[p] = "propRestart" /\ pc[p] \in Deciding
  BY DEF PropagateRestart, At, Deciding
<1>3. /\ m \in Decisions /\ Sound(m, a) /\ a \in Actions /\ c \in Configs
      /\ active[p] \in SUBSET Units /\ v \in Units
  BY <1>2, DecidingFacts
<1>4. a # "dry-activate"
  BY <1>2 DEF IInv, ProcInv, Deciding
<1>5. x(v) \in Decisions /\ h(v) \in Decisions
  BY <1>3, DecideSound, HandleModifiedSound DEF Lists
<1>6. Keeping(p, m, x(v), v)
  <2>1. /\ Wider(m, x(v), v) /\ Noted(m, x(v))
        /\ m.plan["reload"] \subseteq x(v).plan["reload"]
    BY <1>3, <1>4, DecideWidens DEF Lists
  <2> HIDE DEF m, x
  <2> QED
    BY <2>1 DEF Keeping
<1>7. Keeping(p, m, h(v), v)
  <2>1. /\ Wider(m, h(v), v)
        /\ v \in m.plan["reload"] => v \in h(v).plan["reload"] \cup h(v).plan["restart"]
    BY <1>3, <1>4, AskedModified
  <2> HIDE DEF m, h
  <2> QED
    BY <1>2, <2>1 DEF Keeping, Looking
<1> HIDE DEF x, h, m
<1>8. e(v) \in Decisions /\ Keeping(p, m, e(v), v)
  BY <1>5, <1>6, <1>7
<1> HIDE DEF e
<1>9. Decides(p, v, e(v))
  BY <1>1, <1>2, <1>8 DEF Decides, PropagateRestart, sys, budget
<1>10. Seen(p)' /\ Judged(p)'
  BY <1>2, <1>4, <1>9, LaterKnows DEF FreshInv, Decides, sys, Looking
<1> QED
  BY <1>3, <1>4, <1>8, <1>9, <1>10, DecidedFresh DEF m

LEMMA PropagateReloadFresh ==
    ASSUME IInv, FreshInv, NEW p \in Procs, PropagateReload(p)
    PROVE  FreshInv'
<1> DEFINE m == Memory(p)
           a == action[p]
           x(u) == Decide(m, a, "reload", {u})
           e(u) == IF u \in active[p] \ (plan[p].restart \cup plan[p].stop)
                   THEN x(u) ELSE m
<1>1. PICK v \in todo[p] : Decided(p, v, e(v))
  BY DEF PropagateReload
<1>2. pc[p] = "propReload" /\ pc[p] \in Deciding
  BY DEF PropagateReload, At, Deciding
<1>3. m \in Decisions /\ Sound(m, a) /\ a \in Actions /\ v \in Units
  BY <1>2, DecidingFacts
<1>4. a # "dry-activate"
  BY <1>2 DEF IInv, ProcInv, Deciding
<1>5. /\ Wider(m, x(v), v) /\ Noted(m, x(v)) /\ x(v) \in Decisions
      /\ m.plan["reload"] \subseteq x(v).plan["reload"]
  BY <1>3, <1>4, DecideWidens DEF Lists
<1> HIDE DEF x, m
<1>6. Keeping(p, m, x(v), v)
  BY <1>5 DEF Keeping
<1>7. Keeping(p, m, m, v)
  BY <1>3 DEF Keeping, Wider, Noted, Decisions, ListFiles, Lists
<1>8. e(v) \in Decisions /\ Keeping(p, m, e(v), v)
  BY <1>3, <1>5, <1>6, <1>7
<1> HIDE DEF e
<1>9. Decides(p, v, e(v))
  BY <1>1, <1>2, <1>8 DEF Decides, PropagateReload, sys, budget
<1>10. Seen(p)' /\ Judged(p)'
  BY <1>2, <1>4, <1>9, LaterKnows DEF FreshInv, Decides, sys, Looking
<1> QED
  BY <1>3, <1>4, <1>8, <1>9, <1>10, DecidedFresh DEF m

\* A reload is only given up for a unit that is down.
LEMMA CheckReloadFresh ==
    ASSUME IInv, FreshInv, NEW p \in Procs, CheckReload(p)
    PROVE  FreshInv'
<1> DEFINE m == Memory(p)
           a == action[p]
           c == top[p]
           x(u) == Decide(m, a, "start", {u})
           y(u) == IF MayStart(Settings(c, u)) THEN x(u) ELSE m
           z(u) == DropReload(y(u), a, u)
           e(u) == IF run[u] # None THEN m ELSE z(u)
<1>1. PICK v \in todo[p] : Decided(p, v, e(v))
  BY DEF CheckReload
<1>2. pc[p] = "checkReload" /\ pc[p] \in Deciding
  BY DEF CheckReload, At, Deciding
<1>3. m \in Decisions /\ Sound(m, a) /\ a \in Actions /\ v \in Units
  BY <1>2, DecidingFacts
<1>4. a # "dry-activate"
  BY <1>2 DEF IInv, ProcInv, Deciding
<1>5. Wider(m, x(v), v) /\ Noted(m, x(v)) /\ x(v) \in Decisions
  BY <1>3, <1>4, DecideWidens DEF Lists
<1>6. Wider(m, m, v) /\ Noted(m, m)
  <2> HIDE DEF m
  <2> QED
    BY <1>3 DEF Wider, Noted, Decisions, ListFiles, Lists
<1> HIDE DEF x, m
<1>7. Wider(m, y(v), v) /\ Noted(m, y(v)) /\ y(v) \in Decisions
  BY <1>3, <1>5, <1>6
<1> HIDE DEF y
<1>8. Wider(y(v), z(v), v) /\ Noted(y(v), z(v)) /\ z(v) \in Decisions
  BY <1>3, <1>4, <1>7, DropWidens
<1> HIDE DEF z
<1>9. Wider(m, z(v), v) /\ Noted(m, z(v))
  BY <1>3, <1>7, <1>8, WiderTransitive
<1>10. Keeping(p, m, m, v)
  BY <1>6 DEF Keeping
<1>11. run[v] = None => Keeping(p, m, z(v), v)
  BY <1>9 DEF Keeping, InSight
<1>12. e(v) \in Decisions /\ Keeping(p, m, e(v), v)
  BY <1>3, <1>8, <1>10, <1>11
<1> HIDE DEF e
<1>13. Decides(p, v, e(v))
  BY <1>1, <1>2, <1>12 DEF Decides, CheckReload, sys, budget
<1>14. Seen(p)' /\ Judged(p)'
  BY <1>2, <1>4, <1>13, LaterKnows DEF FreshInv, Decides, sys, Looking
<1> QED
  BY <1>3, <1>4, <1>12, <1>13, <1>14, DecidedFresh DEF m

\* From one step of the script to the next.
LEMMA MoveFresh ==
    ASSUME IInv, FreshInv, NEW p \in Procs,
           \/ UnitsExamined(p) \/ MountsExamined(p) \/ RestartsPropagated(p)
           \/ ReloadsPropagated(p) \/ ReloadsChecked(p) \/ ListFailed(p)
    PROVE  FreshInv'
<1>1. /\ Running(p) /\ pc'[p] \in Pcs /\ Goto(p, pc'[p])
      /\ UNCHANGED <<run, failed, loaded, etc, lists, late, missed, top, action,
                     active, plan>>
      /\ res'[p] = 0 => res[p] = 0
  BY DEF UnitsExamined, MountsExamined, RestartsPropagated, ReloadsPropagated,
     ReloadsChecked, ListFailed, At, Running, Goto, Set, Pcs, sys, locals, history,
     budget, IInv, TypeOK
<1>2. UnitsInv'
  BY <1>1, UnitsFramed DEF FreshInv
<1>3. /\ Listed("restart")' = Listed("restart") /\ Up' = Up /\ Fronts' = Fronts
      /\ \A u \in Units : /\ Planned(p, u)' <=> Planned(p, u)
                          /\ InSight(u)' <=> InSight(u)
                          /\ ToStop(p, u)' <=> ToStop(p, u)
                          /\ ToKeep(p, u)' <=> ToKeep(p, u)
                          /\ Same(run[u], etc, u)' <=> Same(run[u], etc, u)
  BY <1>1 DEF Listed, Up, Planned, InSight, ToStop, ToKeep, Same, Fronts
<1>4. CASE action[p] = "dry-activate"
  BY <1>1, <1>2, <1>4, KnowsAlone DEF Knows
<1>5. CASE action[p] # "dry-activate"
  <2>1. Seen(p) /\ Judged(p) /\ Pending(p) /\ Moved(p)
    BY <1>5 DEF FreshInv
  <2>2. CASE UnitsExamined(p) \/ MountsExamined(p)
    <3>1. /\ pc[p] \in {"examine", "fstab"} /\ pc'[p] \in {"fstab", "stop"}
          /\ pc[p] = "examine" => todo[p] = {}
      BY <1>5, <2>2 DEF UnitsExamined, MountsExamined, At, Goto, IInv, TypeOK
    <3>2. Seen(p)'
      BY <1>1, <1>3, <2>1, <3>1 DEF Seen, Looking, Snapshot
    <3>3. Judged(p)'
      <4>1. \A u \in Units : InSight(u) => ToStop(p, u) \/ ToKeep(p, u)
        BY <2>1, <3>1 DEF Judged, Looking, Open
      <4>2. \A s \in Fronts : run[s] # None =>
               s \in plan[p]["stop"] \/ UnitDef[top[p]][s] # None
        BY <2>1, <3>1 DEF Judged, Looking, Open
      <4> QED
        BY <1>1, <1>3, <3>1, <4>1, <4>2 DEF Judged
    <3>4. Pending(p)'
      BY <1>1, <1>3, <2>1, <3>1 DEF Pending, Deciding, Looking
    <3>5. Moved(p)'
      BY <3>1 DEF Moved, Loaded
    <3> QED
      BY <1>1, <1>2, <3>2, <3>3, <3>4, <3>5, KnowsAlone DEF Knows
  <2>3. CASE RestartsPropagated(p) \/ ReloadsPropagated(p)
    <3>1. pc[p] \in {"propRestart", "propReload"} /\ pc'[p] \in {"propReload", "daemon"}
      BY <2>3 DEF RestartsPropagated, ReloadsPropagated, At, Goto, IInv, TypeOK
    <3>2. Seen(p)'
      BY <1>1, <1>3, <2>1, <3>1 DEF Seen, Looking, Snapshot
    <3>3. Judged(p)'
      BY <3>1 DEF Judged, Looking
    <3>4. Pending(p)'
      BY <1>1, <1>3, <2>1, <3>1 DEF Pending, Deciding, Looking
    <3>5. Moved(p)'
      BY <1>1, <2>1, <3>1 DEF Moved, Loaded
    <3> QED
      BY <1>1, <1>2, <3>2, <3>3, <3>4, <3>5, KnowsAlone DEF Knows
  <2>4. CASE ReloadsChecked(p) \/ ListFailed(p)
    <3>1. \/ /\ pc[p] = "checkReload"
             /\ \/ pc'[p] = "reload"
                \/ pc'[p] = "restart" /\ plan[p]["reload"] = {}
                \/ /\ pc'[p] = "start"
                   /\ plan[p]["reload"] = {} /\ plan[p]["restart"] = {}
          \/ pc[p] = "listFailed" /\ pc'[p] = "done"
      BY <2>4 DEF ReloadsChecked, ListFailed, At, Goto, IInv, TypeOK
    <3>2. Seen(p)' /\ Judged(p)'
      BY <3>1 DEF Seen, Judged, Looking, Snapshot
    <3>3. Pending(p)'
      <4>1. \A u \in Units : InSight(u) /\ u \notin missed =>
               \/ Same(run[u], etc, u)
               \/ pc[p] = "checkReload" /\ Planned(p, u)
        BY <2>1, <3>1 DEF Pending, Deciding, Looking
      <4> QED
        BY <1>1, <1>3, <3>1, <4>1 DEF Pending, Planned, Deciding, Looking
    <3>4. Moved(p)'
      BY <1>1, <2>1, <3>1 DEF Moved, Loaded
    <3> QED
      BY <1>1, <1>2, <3>2, <3>3, <3>4, KnowsAlone DEF Knows
  <2> QED
    BY <2>2, <2>3, <2>4
<1> QED
  BY <1>4, <1>5

\* The list of active units names every socket of a unit in sight, as what
\* connections started behind the run's back are no sockets.
LEMMA FrontsAreActive ==
    ASSUME UnitsInv, NEW p \in Procs, Seen(p), pc[p] \in Snapshot,
           NEW s \in Units, Kind[s] = "socket", run[s] # None
    PROVE  s \in active[p]
BY DEF UnitsInv, Seen

LEMMA StopUnitsFresh ==
    ASSUME SocketsFollow, CommandsWork, IInv, FreshInv, NEW p \in Procs,
           StopUnits(p)
    PROVE  FreshInv'
<1>1. /\ pc[p] = "stop" /\ Running(p) /\ "activate" \in Pcs /\ Goto(p, "activate")
      /\ pc'[p] = "activate" /\ TakenDown(p, plan[p].stop)
      /\ UNCHANGED <<failed, loaded, etc, lists, late, top, action, active, plan, res>>
  <2>1. \A S : S \ {} = S
    OBVIOUS
  <2>2. TakenDown(p, plan[p].stop)
    BY <2>1 DEF StopUnits, Broken, CommandsWork
  <2>3. UNCHANGED <<failed, loaded, etc, late>>
    BY <2>2 DEF TakenDown
  <2> QED
    BY <2>2, <2>3 DEF StopUnits, At, Running, Goto, Pcs, locals, budget, IInv, TypeOK
<1>2. /\ run' = Stopped(plan[p]["stop"]) /\ missed' = StillMissed
      /\ top[p] \in Configs /\ etc \in Configs
  BY <1>1 DEF TakenDown, IInv, TypeOK
<1>3. /\ \A u \in Units : run'[u] \in {None, run[u]}
      /\ \A u \in plan[p]["stop"] \cap Units : run'[u] = None
      /\ \A u \in missed : run'[u] = run[u] => u \in missed'
  BY <1>2 DEF Stopped, Down, StillMissed
<1>4. action[p] # "dry-activate"
  BY <1>1 DEF IInv, ProcInv, Deciding
<1>5. Seen(p) /\ Judged(p) /\ Pending(p) /\ UnitsInv
  BY <1>4 DEF FreshInv
<1>6. UnitsInv'
  <2>1. \A u \in failed' : run'[u] = None
    BY <1>1, <1>3, <1>5 DEF UnitsInv, IInv, TypeOK
  <2>2. Refreshes
    BY <1>1, <1>2, <1>3, <2>1 DEF Refreshes
  <2> QED
    BY <1>5, <2>2, UnitsRefreshed
<1>7. \A u \in Units : run'[u] # None => run[u] = run'[u]
  BY <1>3
<1>8. Seen(p)'
  BY <1>1, <1>5, <1>7 DEF Seen, Looking, Snapshot
<1>9. Judged(p)'
  <2>1. ASSUME NEW u \in active[p] \ (late \cup failed), Eligible(u), u \in Units
        PROVE  Off(p, u)' \/ ToKeep(p, u)'
    <3>1. InSight(u)
      BY <1>1, <1>5, <2>1 DEF Seen, Looking, InSight
    <3>2. ToStop(p, u) \/ ToKeep(p, u)
      BY <1>1, <1>5, <2>1, <3>1 DEF Judged, Looking, Open
    <3>3. CASE ToStop(p, u)
      <4>1. ASSUME NEW s \in SocketsOf[top[p]][u], run'[s] # None PROVE FALSE
        <5>1. s \in Units /\ Kind[s] = "socket"
          BY <1>2, <2>1, ConstantTypes
        <5>2. run[s] # None
          BY <1>7, <4>1, <5>1
        <5>3. s \in active[p]
          BY <1>1, <1>5, <5>1, <5>2, FrontsAreActive DEF Snapshot
        <5>4. s \in Fronts
          BY <1>2, <2>1, <5>1 DEF Fronts
        <5>5. s \in plan[p]["stop"] \/ UnitDef[top[p]][s] # None
          BY <1>1, <1>5, <5>2, <5>4 DEF Judged, Looking, Open
        <5>6. s \in plan[p]["stop"]
          BY <3>3, <5>3, <5>5 DEF ToStop
        <5> QED
          BY <1>3, <4>1, <5>1, <5>6
      <4>2. run'[u] = None
        BY <1>3, <2>1, <3>3 DEF ToStop
      <4> QED
        BY <1>1, <4>1, <4>2 DEF Off
    <3>4. CASE ToKeep(p, u)
      <4>1. run'[u] # None /\ u \notin missed' => run'[u] = run[u] /\ u \notin missed
        BY <1>3, <2>1
      <4> QED
        BY <1>1, <2>1, <3>4, <4>1 DEF ToKeep, Same, Planned
    <3> QED
      BY <3>2, <3>3, <3>4
  <2>2. ASSUME NEW s \in Fronts, run'[s] # None PROVE UnitDef[top[p]][s] # None
    <3>1. s \in Units /\ Kind[s] = "socket"
      BY FrontsAreSockets
    <3>2. run[s] # None /\ s \notin plan[p]["stop"]
      BY <1>3, <1>7, <2>2, <3>1
    <3> QED
      BY <1>1, <1>5, <3>2 DEF Judged, Looking, Open
  <2>3. \A u \in active[p] : u \in Units
    BY DEF IInv, TypeOK
  <2> QED
    BY <1>1, <2>1, <2>2, <2>3 DEF Judged, Looking, Fronts
<1>10. Pending(p)'
  <2>1. Listed("restart")' = Listed("restart")
    BY <1>1 DEF Listed
  <2>2. ASSUME NEW u \in Units, InSight(u)', u \notin missed'
        PROVE  Same(run[u], etc, u)' \/ Planned(p, u)'
    <3>1. InSight(u) /\ run'[u] = run[u] /\ u \notin plan[p]["stop"]
      BY <1>1, <1>3, <1>7, <2>2 DEF InSight
    <3>2. u \notin missed
      BY <1>3, <2>2, <3>1
    <3>3. Same(run[u], etc, u) \/ Planned(p, u)
      BY <1>1, <1>5, <3>1, <3>2 DEF Pending, Deciding
    <3> QED
      BY <1>1, <3>1, <3>3 DEF Same, Planned
  <2> QED
    BY <1>1, <1>5, <2>1, <2>2 DEF Pending, Deciding, Looking
<1>11. Moved(p)'
  BY <1>1 DEF Moved, Loaded
<1> QED
  BY <1>1, <1>6, <1>8, <1>9, <1>10, <1>11, KnowsAlone DEF Knows

\* /etc is switched: what goes on running is as it should be or planned.
LEMMA EtcSwitched ==
    ASSUME IInv, FreshInv, NEW p \in Procs, pc[p] = "activate",
           UNCHANGED <<run, failed, lists, late, missed>>, etc' \in {etc, top[p]}
    PROVE  /\ UnitsInv'
           /\ \A u \in Units : InSight(u) /\ u \notin missed =>
                 Same(run[u], etc', u) \/ Planned(p, u)
<1>1. action[p] # "dry-activate"
  BY DEF IInv, ProcInv, Deciding
<1>2. Seen(p) /\ Judged(p) /\ Pending(p) /\ UnitsInv
  BY <1>1 DEF FreshInv
<1>3. ASSUME NEW u \in Units, InSight(u) PROVE ToKeep(p, u)
  <2>1. u \in active[p] \ (late \cup failed) /\ Eligible(u)
    BY <1>2, <1>3 DEF Seen, Snapshot, InSight, UnitsInv
  <2> QED
    BY <1>2, <1>3, <2>1 DEF Judged, Looking, Off, InSight
<1>4. ASSUME NEW u \in Units, InSight(u), u \notin missed
      PROVE  Same(run[u], etc', u) \/ Planned(p, u)
  <2>1. CASE etc' = etc
    BY <1>2, <1>4, <2>1 DEF Pending, Deciding, Looking
  <2>2. CASE etc' = top[p]
    BY <1>3, <1>4, <2>2 DEF ToKeep, InSight
  <2> QED
    BY <2>1, <2>2
<1>5. ASSUME NEW u \in Units, InSight(u) PROVE UnitDef[etc'][u] # None
  <2>1. CASE etc' = etc
    BY <1>2, <1>5, <2>1 DEF UnitsInv, Good
  <2>2. CASE etc' = top[p]
    BY <1>3, <1>5, <2>2 DEF ToKeep
  <2> QED
    BY <2>1, <2>2
<1>6. ASSUME NEW u \in Units, Planned(p, u)
      PROVE  u \in Listed("reload") \cup Listed("restart")
  <2>1. u \in plan[p]["restart"] => u \in Listed("restart")
    BY <1>2 DEF Pending
  <2>2. u \in plan[p]["reload"] => u \in Listed("reload")
    <3>1. Sound(Memory(p), action[p])
      BY DecidingFacts DEF Deciding
    <3> QED
      BY <1>1, <3>1 DEF Sound, OnDisk, Memory, Listed
  <2> QED
    BY <1>6, <2>1, <2>2 DEF Planned
<1>7. ASSUME NEW u \in Units, InSight(u)' PROVE Good(u)'
  <2>1. InSight(u)
    BY <1>7 DEF InSight
  <2>2. Listed("reload")' = Listed("reload") /\ Listed("restart")' = Listed("restart")
    BY DEF Listed
  <2> QED
    BY <1>4, <1>5, <1>6, <2>1, <2>2 DEF Good, Same
<1>8. ASSUME NEW s \in Fronts, run'[s] # None PROVE UnitDef[etc'][s] # None
  BY <1>2, <1>8 DEF UnitsInv, Judged, Looking
<1>9. UnitsInv'
  BY <1>2, <1>7, <1>8 DEF UnitsInv, Fronts, Exists
<1> QED
  BY <1>4, <1>9

LEMMA ActivateFresh ==
    ASSUME IInv, FreshInv, NEW p \in Procs, Activate(p)
    PROVE  FreshInv'
<1>1. /\ pc[p] = "activate" /\ Running(p) /\ "propRestart" \in Pcs
      /\ Goto(p, "propRestart") /\ pc'[p] = "propRestart"
      /\ UNCHANGED <<run, failed, loaded, lists, late, missed, top, action, active,
                     plan>>
      /\ etc' \in {etc, top[p]} /\ (res'[p] = 0 => etc' = top[p])
  BY DEF Activate, At, Running, Goto, Pcs, Set, history, budget, IInv, TypeOK
<1>2. action[p] # "dry-activate"
  BY <1>1 DEF IInv, ProcInv, Deciding
<1>3. Seen(p) /\ Pending(p)
  BY <1>2 DEF FreshInv
<1>4. /\ UnitsInv'
      /\ \A u \in Units : InSight(u) /\ u \notin missed =>
            Same(run[u], etc', u) \/ Planned(p, u)
  BY <1>1, EtcSwitched
<1>5. Seen(p)' /\ Judged(p)'
  BY <1>1, <1>3 DEF Seen, Judged, Looking, Snapshot
<1>6. Pending(p)'
  <2>1. Listed("restart")' = Listed("restart")
    BY <1>1 DEF Listed
  <2> QED
    BY <1>1, <1>3, <1>4, <2>1 DEF Pending, Deciding, Looking, InSight, Same, Planned
<1>7. Moved(p)'
  BY <1>1 DEF Moved, Loaded
<1> QED
  BY <1>1, <1>4, <1>5, <1>6, <1>7, KnowsAlone DEF Knows

LEMMA ReloadDaemonFresh ==
    ASSUME CommandsWork, IInv, FreshInv, NEW p \in Procs, ReloadDaemon(p)
    PROVE  FreshInv'
<1>1. /\ pc[p] = "daemon" /\ Running(p) /\ "checkReload" \in Pcs
      /\ Goto(p, "checkReload") /\ pc'[p] = "checkReload" /\ failed' = {}
      /\ UNCHANGED <<run, etc, lists, late, missed, top, action, active, plan>>
  BY DEF ReloadDaemon, At, Running, Goto, Pcs, history, budget, IInv, TypeOK
<1>2. loaded' = etc /\ (res'[p] = 0 => res[p] = 0)
  BY DEF ReloadDaemon, CommandsWork, Set, IInv, TypeOK
<1>3. action[p] # "dry-activate"
  BY <1>1 DEF IInv, ProcInv, Deciding
<1>4. Seen(p) /\ Pending(p) /\ Moved(p)
  BY <1>3 DEF FreshInv
<1>5. UnitsInv'
  BY <1>1, UnitsFramed DEF FreshInv
<1>6. Seen(p)' /\ Judged(p)'
  BY <1>1 DEF Seen, Judged, Looking, Snapshot
<1>7. Pending(p)'
  <2>1. Listed("restart")' = Listed("restart")
    BY <1>1 DEF Listed
  <2> QED
    BY <1>1, <1>4, <2>1 DEF Pending, Deciding, Looking, InSight, Same, Planned
<1>8. Moved(p)'
  BY <1>1, <1>2, <1>4 DEF Moved, Loaded
<1> QED
  BY <1>1, <1>5, <1>6, <1>7, <1>8, KnowsAlone DEF Knows

\* The calls of systemctl after daemon-reload: what they touch runs what /etc
\* says, and the rest did already, or is to be restarted.
LEMMA RefreshFresh ==
    ASSUME IInv, FreshInv, NEW p \in Procs,
           pc[p] \in {"reload", "restart", "start"},
           NEW where \in {"unlinkReload", "unlinkRestart", "unlinkStart"},
           Goto(p, where), UNCHANGED <<loaded, locals>>, Refreshes,
           res'[p] = 0 => res[p] = 0,
           \A u \in Units : InSight(u)' /\ u \notin missed' =>
              \/ Same(run[u], etc, u)'
              \/ /\ where = "unlinkReload" /\ u \in plan[p]["restart"]
                 /\ u \notin plan[p]["reload"]
    PROVE  FreshInv'
<1>1. Running(p) /\ where \in Pcs /\ pc'[p] = where
  BY DEF Running, Pcs, Goto, IInv, TypeOK
<1>2. action[p] # "dry-activate"
  BY DEF IInv, ProcInv, Deciding, After
<1>3. Pending(p) /\ Moved(p)
  BY <1>2 DEF FreshInv
<1>4. UnitsInv'
  BY UnitsRefreshed DEF FreshInv
<1>5. Seen(p)' /\ Judged(p)'
  BY <1>1 DEF Seen, Judged, Looking, Snapshot
<1>6. Pending(p)'
  <2>1. plan' = plan
    BY DEF locals
  <2> QED
    BY <1>1, <2>1 DEF Pending, Deciding, Looking
<1>7. Moved(p)'
  BY <1>1, <1>3 DEF Moved, Loaded, locals, Refreshes
<1> QED
  BY <1>1, <1>4, <1>5, <1>6, <1>7, KnowsAlone DEF Knows

LEMMA ReloadUnitsFresh ==
    ASSUME IInv, FreshInv, NEW p \in Procs, ReloadUnits(p)
    PROVE  FreshInv'
<1>1. pc[p] = "reload" /\ action[p] # "dry-activate"
  BY DEF ReloadUnits, At, IInv, ProcInv, Deciding, After
<1>2. Pending(p) /\ Moved(p) /\ UnitsInv /\ loaded = etc /\ etc \in Configs
  BY <1>1 DEF FreshInv, Moved, Loaded, IInv, TypeOK
<1> DEFINE S == plan[p]["reload"]
<1>3. PICK broken : /\ Refreshed(S, broken)
                    /\ res' = CallStatus(p, S, broken)
  BY DEF ReloadUnits
<1> HIDE DEF S
<1>4. /\ Goto(p, "unlinkReload")
      /\ UNCHANGED <<etc, failed, loaded, late, lists, locals>>
      /\ res'[p] = 0 => res[p] = 0
  BY <1>3 DEF ReloadUnits, Refreshed, CallStatus, Set, budget, IInv, TypeOK
<1>5. /\ \A u \in Units : run'[u] = IF /\ u \in S \ broken /\ run[u] # None
                                      /\ Exists(etc, u)
                                   THEN etc ELSE run[u]
      /\ missed' = {u \in missed : run'[u] = run[u]} \cup broken
  BY <1>2, <1>3 DEF Refreshed, Reloaded, Known, StillMissed
<1>6. Refreshes
  <2>1. failed \subseteq Units
    BY DEF IInv, TypeOK
  <2> QED
    BY <1>2, <1>4, <1>5, <2>1 DEF Refreshes, UnitsInv
<1>7. ASSUME NEW u \in Units, InSight(u)', u \notin missed'
      PROVE  Same(run[u], etc, u)' \/ (u \in plan[p]["restart"] /\ u \notin S)
  <2>1. InSight(u) /\ u \notin broken
    BY <1>4, <1>5, <1>7 DEF InSight
  <2>2. UnitDef[etc][u] # None
    BY <1>2, <2>1 DEF UnitsInv, Good
  <2>3. CASE u \in S
    <3>1. run'[u] = etc
      BY <1>5, <2>1, <2>2, <2>3 DEF InSight, Exists
    <3> QED
      BY <1>4, <2>2, <3>1, SameItself DEF Same
  <2>4. CASE u \notin S
    <3>1. run'[u] = run[u] /\ u \notin missed
      BY <1>5, <1>7, <2>4
    <3>2. Same(run[u], etc, u) \/ Planned(p, u)
      BY <1>1, <1>2, <2>1, <3>1 DEF Pending, Looking
    <3> QED
      BY <1>4, <2>4, <3>1, <3>2 DEF Same, Planned, S
  <2> QED
    BY <2>3, <2>4
<1> QED
  BY <1>1, <1>4, <1>6, <1>7, RefreshFresh DEF S

\* What is restarted runs what /etc says; the rest did already.
LEMMA RestartUnitsFresh ==
    ASSUME IInv, FreshInv, NEW p \in Procs, RestartUnits(p)
    PROVE  FreshInv'
<1>1. pc[p] = "restart" /\ action[p] # "dry-activate"
  BY DEF RestartUnits, At, IInv, ProcInv, Deciding, After
<1>2. Pending(p) /\ Moved(p) /\ UnitsInv /\ loaded = etc /\ etc \in Configs
  BY <1>1 DEF FreshInv, Moved, Loaded, IInv, TypeOK
<1> DEFINE S == plan[p]["restart"]
<1>3. PICK broken \in Broken("restart", Known(S)) :
        /\ Replaced(S, broken) /\ res' = CallStatus(p, S, broken)
  BY DEF RestartUnits
<1> HIDE DEF S
<1>4. /\ Goto(p, "unlinkRestart")
      /\ UNCHANGED <<etc, loaded, late, lists, locals>>
      /\ res'[p] = 0 => res[p] = 0
      /\ broken \subseteq Known(S)
  BY <1>3 DEF RestartUnits, Replaced, CallStatus, Broken, Set, budget, IInv, TypeOK
<1>5. /\ \A u \in Units : run'[u] = IF u \in S /\ Exists(etc, u)
                                   THEN IF u \in broken THEN None ELSE etc
                                   ELSE run[u]
      /\ missed' = {u \in missed : run'[u] = run[u]}
      /\ failed' = (failed \ Known(S)) \cup broken
  BY <1>2, <1>3 DEF Replaced, Restarted, Known, StillMissed
<1>6. Refreshes
  <2>1. failed \subseteq Units /\ S \subseteq Units
    BY DEF S, IInv, TypeOK, Sets, Lists
  <2>2. Known(S) = {u \in S : Exists(etc, u)}
    BY <1>2 DEF Known
  <2>3. \A u \in failed' : run'[u] = None
    BY <1>2, <1>4, <1>5, <2>1, <2>2 DEF UnitsInv
  <2> QED
    BY <1>2, <1>4, <1>5, <2>3 DEF Refreshes
<1>7. ASSUME NEW u \in Units, InSight(u)', u \notin missed'
      PROVE  Same(run[u], etc, u)'
  <2>1. CASE u \in S /\ Exists(etc, u)
    <3>1. run'[u] = etc /\ Eligible(u)
      BY <1>5, <1>7, <2>1 DEF InSight
    <3>2. UnitDef[etc][u] # None
      BY <1>2, <2>1, <3>1, EligibleHasUnitFile
    <3> QED
      BY <1>4, <3>1, <3>2, SameItself DEF Same
  <2>2. CASE ~(u \in S /\ Exists(etc, u))
    <3>1. run'[u] = run[u] /\ InSight(u) /\ u \notin missed
      BY <1>4, <1>5, <1>7, <2>2 DEF InSight
    <3>2. Exists(etc, u)
      BY <1>2, <3>1 DEF UnitsInv, Good, Exists
    <3>3. Same(run[u], etc, u)
      BY <1>1, <1>2, <2>2, <3>1, <3>2 DEF Pending, S
    <3> QED
      BY <1>4, <3>1, <3>3 DEF Same
  <2> QED
    BY <2>1, <2>2
<1> QED
  BY <1>1, <1>4, <1>6, <1>7, RefreshFresh

LEMMA StartUnitsFresh ==
    ASSUME IInv, FreshInv, NEW p \in Procs, StartUnits(p)
    PROVE  FreshInv'
<1>1. pc[p] = "start" /\ action[p] # "dry-activate"
  BY DEF StartUnits, At, IInv, ProcInv, Deciding, After, Done
<1>2. Pending(p) /\ Moved(p) /\ UnitsInv /\ loaded = etc /\ etc \in Configs
  BY <1>1 DEF FreshInv, Moved, Loaded, IInv, TypeOK
<1> DEFINE S == plan[p]["start"]
<1>3. PICK broken \in Broken("start", ToStart(S)) :
        /\ BroughtUp(S, broken) /\ res' = CallStatus(p, S, broken)
  BY DEF StartUnits
<1> HIDE DEF S
<1>4. /\ Goto(p, "unlinkStart")
      /\ UNCHANGED <<etc, loaded, late, lists, locals>>
      /\ res'[p] = 0 => res[p] = 0
      /\ broken \subseteq ToStart(S)
  BY <1>3 DEF StartUnits, BroughtUp, CallStatus, Broken, Set, budget, IInv, TypeOK
<1>5. /\ \A u \in Units : run'[u] = IF u \in ToStart(S) \ broken THEN etc ELSE run[u]
      /\ \A u \in ToStart(S) : Exists(etc, u) /\ run[u] = None
      /\ missed' = {u \in missed : run'[u] = run[u]}
      /\ failed' = (failed \ ToStart(S)) \cup broken
  BY <1>2, <1>3 DEF BroughtUp, Started, ToStart, Known, StillMissed
<1>6. Refreshes
  <2>1. failed \subseteq Units /\ ToStart(S) \subseteq Units
    <3>1. S \subseteq Units /\ \A v \in S : Wants[v] \subseteq Units
      BY ConstantTypes DEF S, IInv, TypeOK, Sets, Lists
    <3> QED
      BY <3>1 DEF ToStart, Known, IInv, TypeOK
  <2>2. \A u \in failed' : run'[u] = None
    BY <1>2, <1>4, <1>5, <2>1 DEF UnitsInv
  <2> QED
    BY <1>2, <1>4, <1>5, <2>2 DEF Refreshes
<1>7. ASSUME NEW u \in Units, InSight(u)', u \notin missed'
      PROVE  Same(run[u], etc, u)'
  <2>1. CASE u \in ToStart(S) \ broken
    <3>1. run'[u] = etc /\ Eligible(u)
      BY <1>5, <1>7, <2>1 DEF InSight
    <3>2. UnitDef[etc][u] # None
      BY <1>2, <1>5, <2>1, <3>1, EligibleHasUnitFile
    <3> QED
      BY <1>4, <3>1, <3>2, SameItself DEF Same
  <2>2. CASE u \notin ToStart(S) \ broken
    <3>1. run'[u] = run[u] /\ InSight(u) /\ u \notin missed
      BY <1>4, <1>5, <1>7, <2>2 DEF InSight
    <3>2. Same(run[u], etc, u)
      BY <1>1, <1>2, <3>1 DEF Pending
    <3> QED
      BY <1>4, <3>1, <3>2 DEF Same
  <2> QED
    BY <2>1, <2>2
<1> QED
  BY <1>1, <1>4, <1>6, <1>7, RefreshFresh

\* reload-list goes: what it still names is as /etc says, is to be restarted,
\* or has missed its reload.
LEMMA UnlinkReloadFresh ==
    ASSUME IInv, FreshInv, NEW p \in Procs, UnlinkReload(p)
    PROVE  FreshInv'
<1>1. /\ Running(p) /\ pc'[p] \in Pcs /\ Goto(p, pc'[p])
      /\ UNCHANGED <<run, failed, loaded, etc, late, top, action, active, plan, res>>
      /\ pc[p] = "unlinkReload" /\ lists' = Unlinked("reload")
      /\ \/ pc'[p] = "restart"
         \/ pc'[p] = "start" /\ plan[p]["restart"] = {}
      /\ missed' = missed \cup {w \in (Up \cap Listed("reload")) \ plan[p].reload :
                                  w \notin Listed("restart")}
  BY DEF UnlinkReload, At, Running, Goto, Pcs, sys, locals, budget, IInv, TypeOK
<1>2. action[p] # "dry-activate"
  BY <1>1 DEF IInv, ProcInv, Deciding, After
<1>3. Pending(p) /\ Moved(p) /\ UnitsInv
  BY <1>2 DEF FreshInv
<1>4. Seen(p)' /\ Judged(p)'
  BY <1>1 DEF Seen, Judged, Looking, Snapshot
<1>5. \A u \in Units : /\ InSight(u)' <=> InSight(u)
                       /\ Same(run[u], etc, u)' <=> Same(run[u], etc, u)
  BY <1>1 DEF InSight, Same
<1>6. missed \subseteq missed'
  BY <1>1
<1>7. ASSUME NEW u \in Units, InSight(u), u \notin missed
      PROVE  \/ Same(run[u], etc, u)
             \/ u \in plan[p]["restart"] /\ u \notin plan[p]["reload"]
  BY <1>1, <1>3, <1>7 DEF Pending
<1>8. Pending(p)'
  BY <1>1, <1>5, <1>6, <1>7 DEF Pending, Deciding, Looking
<1>9. Moved(p)'
  BY <1>1, <1>3 DEF Moved, Loaded
<1>10. UnitsInv'
  <2>1. Listed("restart")' = Listed("restart")
    BY <1>1 DEF Listed, Unlinked, Lists, IInv, TypeOK
  <2>2. ASSUME NEW u \in Units, InSight(u)' PROVE Good(u)'
    <3>1. Good(u) /\ InSight(u) /\ u \in Up
      BY <1>3, <1>5, <2>2 DEF UnitsInv, InSight, Up
    <3>2. ASSUME u \notin missed'
          PROVE  Same(run[u], etc, u) \/ u \in Listed("restart")
      <4>1. u \notin missed
        BY <1>6, <3>2
      <4>2. \/ Same(run[u], etc, u) \/ u \in Listed("restart")
            \/ u \in Listed("reload")
        BY <3>1, <4>1 DEF Good
      <4>3. CASE u \in Listed("reload") \ Listed("restart")
        <5>1. u \in plan[p]["reload"]
          BY <1>1, <3>1, <3>2, <4>3
        <5> QED
          BY <1>7, <3>1, <4>1, <5>1
      <4> QED
        BY <4>2, <4>3
    <3> QED
      BY <1>1, <1>5, <2>1, <3>1, <3>2 DEF Good
  <2> QED
    BY <1>1, <1>3, <2>2 DEF UnitsInv, Exists, Fronts
<1> QED
  BY <1>1, <1>4, <1>8, <1>9, <1>10, KnowsAlone DEF Knows

\* The other lists go once every unit in sight is as /etc says.
LEMMA UnlinkFresh ==
    ASSUME IInv, FreshInv, NEW p \in Procs, UnlinkRestart(p) \/ UnlinkStart(p)
    PROVE  FreshInv'
<1>1. /\ Running(p) /\ pc'[p] \in Pcs /\ Goto(p, pc'[p])
      /\ UNCHANGED <<run, failed, loaded, etc, late, missed, top, action, active,
                     plan, res>>
      /\ \/ pc[p] = "unlinkRestart" /\ pc'[p] = "start"
         \/ pc[p] = "unlinkStart" /\ pc'[p] = "listFailed"
  BY DEF UnlinkRestart, UnlinkStart, At, Running, Goto, Pcs, sys, locals, history,
     budget, IInv, TypeOK
<1>2. action[p] # "dry-activate"
  BY <1>1 DEF IInv, ProcInv, Deciding, After, Done
<1>3. Pending(p) /\ Moved(p) /\ UnitsInv
  BY <1>2 DEF FreshInv
<1>4. Seen(p)' /\ Judged(p)'
  BY <1>1 DEF Seen, Judged, Looking, Snapshot
<1>5. \A u \in Units : /\ InSight(u)' <=> InSight(u)
                       /\ Same(run[u], etc, u)' <=> Same(run[u], etc, u)
  BY <1>1 DEF InSight, Same
<1>6. \A u \in Units : InSight(u) /\ u \notin missed => Same(run[u], etc, u)
  BY <1>1, <1>3 DEF Pending
<1>7. Pending(p)'
  BY <1>1, <1>5, <1>6 DEF Pending, Deciding, Looking
<1>8. Moved(p)'
  BY <1>1, <1>3 DEF Moved, Loaded
<1>9. UnitsInv'
  <2>1. \A u \in Units : InSight(u)' => Good(u)'
    BY <1>1, <1>3, <1>5, <1>6 DEF UnitsInv, Good
  <2> QED
    BY <1>1, <1>3, <2>1 DEF UnitsInv, Exists, Fronts
<1> QED
  BY <1>1, <1>4, <1>7, <1>8, <1>9, KnowsAlone DEF Knows

\* Steps before the script looks at the system, those that end it, and those
\* of a dry run.
LEMMA OutsideFresh ==
    ASSUME IInv, FreshInv, NEW p \in Procs,
           \/ InstallBootLoader(p) \/ CheckInitInterface(p) \/ Finish(p)
           \/ DryActivate(p) \/ DryRestart(p) \/ DryRestartsSeen(p)
           \/ DryReload(p) \/ DryFinish(p)
    PROVE  FreshInv'
<1>1. CASE \/ InstallBootLoader(p) \/ CheckInitInterface(p) \/ Finish(p)
           \/ DryActivate(p) \/ DryRestartsSeen(p) \/ DryFinish(p)
  <2>1. /\ Running(p) /\ UNCHANGED <<run, failed, etc, late, missed, lists>>
        /\ \E where \in {"idle", "check", "read"} \cup Dry : Goto(p, where)
    BY <1>1 DEF InstallBootLoader, CheckInitInterface, DryActivate, Finish,
       DryRestartsSeen, DryFinish, Exit, Gone, At, Running, Dry, sys, history, budget
  <2>2. UnitsInv'
    BY <2>1, UnitsFramed DEF FreshInv
  <2> QED
    BY <2>1, <2>2, KnowsAlone DEF Outside, Dry, Pcs
<1>2. CASE DryRestart(p) \/ DryReload(p)
  <2>1. /\ pc[p] \in Dry /\ Running(p) /\ Goto(p, pc[p]) /\ pc[p] \in Pcs
        /\ UNCHANGED late
    BY <1>2 DEF DryRestart, DryReload, At, Goto, Running, Dry, Pcs, IInv, TypeOK
  <2>2. UNCHANGED Shown
    BY <1>2, <2>1, DryLoopsShow DEF IInv, ProcInv
  <2>3. /\ UNCHANGED <<run, failed, etc, lists>>
        /\ Listed("reload")' = Listed("reload")
    BY <2>2 DEF Shown, sys, Listed
  <2>4. missed' = missed
    <3>1. \E u, d : Decided(p, u, d)
      BY <1>2 DEF DryRestart, DryReload
    <3> QED
      BY <2>3, <3>1 DEF Decided
  <2>5. UnitsInv'
    BY <2>1, <2>3, <2>4, UnitsFramed DEF FreshInv
  <2> QED
    BY <2>1, <2>5, KnowsAlone DEF Outside
<1> QED
  BY <1>1, <1>2

\* A run is asked for, or gets the lock: the others know what they knew.
LEMMA EnterFresh ==
    ASSUME IInv, FreshInv, NEW p \in Procs, Invoke(p) \/ Lock(p)
    PROVE  FreshInv'
<1>1. /\ UNCHANGED <<run, failed, etc, loaded, late, missed, lists>>
      /\ pc'[p] \in {"lock", "bootloader"}
      /\ \A q \in Procs \ {p} :
            /\ pc'[q] = pc[q] /\ action'[q] = action[q] /\ top'[q] = top[q]
            /\ active'[q] = active[q] /\ todo'[q] = todo[q]
            /\ plan'[q] = plan[q] /\ res'[q] = res[q]
  BY DEF Invoke, Lock, Goto, Set, sys, locals, history, budget, IInv, TypeOK
<1>2. UnitsInv'
  BY <1>1, UnitsFramed DEF FreshInv
<1>3. Knows(p)'
  BY <1>1, OutsideKnows DEF Outside
<1>4. ASSUME NEW q \in Procs, q # p PROVE Knows(q)'
  BY <1>1, <1>4, OthersKnow DEF FreshInv, Knows
<1> QED
  BY <1>2, <1>3, <1>4 DEF FreshInv, Knows

\* Whatever part of its effect the interrupted call has had.
LEMMA KillFresh ==
    ASSUME IInv, FreshInv, NEW p \in Procs, Kill(p)
    PROVE  FreshInv'
<1>1. /\ Running(p) /\ Goto(p, "idle") /\ UNCHANGED lists
      /\ PartialEffect(p)
  BY DEF Kill, Gone, Running
<1>2. /\ UnitsInv /\ etc \in Configs /\ failed \subseteq Units
      /\ plan[p] \in [Sets -> SUBSET Units]
  BY DEF FreshInv, IInv, TypeOK
<1>3. \A u \in failed : run[u] = None
  BY <1>2 DEF UnitsInv
<1>4. CASE pc[p] = "stop"
  <2>1. PICK S : TakenDown(p, S)
    BY <1>1, <1>4 DEF PartialEffect, At
  <2>2. Refreshes
    BY <1>1, <1>2, <1>3, <2>1 DEF TakenDown, Stopped, StillMissed, Refreshes
  <2> QED
    BY <1>1, <1>2, <2>2, UnitsRefreshed, KnowsAlone DEF Outside, Pcs
<1>5. CASE pc[p] = "activate"
  <2>1. UNCHANGED <<run, failed, late, missed>> /\ etc' \in {etc, top[p]}
    BY <1>1, <1>5 DEF PartialEffect, At, history
  <2>2. UnitsInv'
    BY <1>1, <1>5, <2>1, EtcSwitched
  <2> QED
    BY <1>1, <2>2, KnowsAlone DEF Outside, Pcs
<1>6. CASE pc[p] \in {"reload", "restart", "start"}
  <2>1. action[p] # "dry-activate"
    BY <1>6 DEF IInv, ProcInv, Deciding, After, Done
  <2>2. loaded = etc
    BY <1>6, <2>1 DEF FreshInv, Moved, Loaded
  <2>3. CASE pc[p] = "reload"
    <3>1. PICK S : Refreshed(S, {})
      BY <1>1, <2>3 DEF PartialEffect, At
    <3>2. Refreshes
      BY <1>1, <1>2, <1>3, <2>2, <3>1 DEF Refreshed, Reloaded, Known, StillMissed,
         Refreshes
    <3> QED
      BY <1>1, <1>2, <3>2, UnitsRefreshed, KnowsAlone DEF Outside, Pcs
  <2>4. CASE pc[p] = "restart"
    <3>1. PICK S \in SUBSET plan[p].restart :
            \E broken \in Broken("restart", Known(S)) : Replaced(S, broken)
      BY <1>1, <2>4 DEF PartialEffect, At
    <3>2. PICK broken : broken \subseteq Known(S) /\ Replaced(S, broken)
      BY <3>1 DEF Broken
    <3>3. /\ UNCHANGED <<etc, late>> /\ run' = Restarted(S, broken)
          /\ failed' = (failed \ Known(S)) \cup broken /\ missed' = StillMissed
      BY <3>2 DEF Replaced
    <3>4. Known(S) \subseteq Units
      BY <1>2, <3>1 DEF Known, Sets, Lists
    <3>5. \A u \in Units : \/ u \notin Known(S) /\ run'[u] = run[u]
                           \/ /\ u \in Known(S) /\ Exists(etc, u)
                              /\ run'[u] = IF u \in broken THEN None ELSE etc
      BY <2>2, <3>3 DEF Restarted, Known
    <3>6. Refreshes
      <4>1. \A u \in failed' : run'[u] = None
        BY <1>2, <1>3, <3>2, <3>3, <3>4, <3>5
      <4>2. \A u \in Units : \/ run'[u] \in {None, run[u]}
                             \/ run'[u] = etc /\ Exists(etc, u)
        BY <3>5
      <4> QED
        BY <1>1, <1>2, <3>3, <4>1, <4>2 DEF StillMissed, Refreshes
    <3> QED
      BY <1>1, <1>2, <3>6, UnitsRefreshed, KnowsAlone DEF Outside, Pcs
  <2>5. CASE pc[p] = "start"
    <3>1. PICK S \in SUBSET plan[p].start :
            \E broken \in Broken("start", ToStart(S)) : BroughtUp(S, broken)
      BY <1>1, <2>5 DEF PartialEffect, At
    <3>2. PICK broken : broken \subseteq ToStart(S) /\ BroughtUp(S, broken)
      BY <3>1 DEF Broken
    <3>3. /\ UNCHANGED <<etc, late>> /\ run' = Started(S, broken)
          /\ failed' = (failed \ ToStart(S)) \cup broken /\ missed' = StillMissed
      BY <3>2 DEF BroughtUp
    <3>4. \A u \in ToStart(S) : Exists(etc, u) /\ run[u] = None /\ u \in Units
      <4>1. S \subseteq Units /\ \A v \in S : Wants[v] \subseteq Units
        BY <1>2, <3>1, ConstantTypes DEF Sets, Lists
      <4> QED
        BY <2>2, <4>1 DEF ToStart, Known
    <3>5. \A u \in Units : \/ run'[u] = run[u] /\ u \notin ToStart(S) \ broken
                           \/ u \in ToStart(S) \ broken /\ run'[u] = etc
      BY <2>2, <3>3 DEF Started
    <3>6. Refreshes
      <4>1. \A u \in failed' : run'[u] = None
        BY <1>2, <1>3, <3>2, <3>3, <3>4, <3>5
      <4>2. \A u \in Units : \/ run'[u] \in {None, run[u]}
                             \/ run'[u] = etc /\ Exists(etc, u)
        BY <3>4, <3>5
      <4> QED
        BY <1>1, <1>2, <3>3, <4>1, <4>2 DEF StillMissed, Refreshes
    <3> QED
      BY <1>1, <1>2, <3>6, UnitsRefreshed, KnowsAlone DEF Outside, Pcs
  <2> QED
    BY <1>6, <2>3, <2>4, <2>5
<1>7. CASE pc[p] \notin {"stop", "activate", "reload", "restart", "start"}
  <2>1. UNCHANGED <<run, failed, etc, late, missed>>
    BY <1>1, <1>7 DEF PartialEffect, At, sys, history
  <2> QED
    BY <1>1, <1>2, <2>1, UnitsFramed, KnowsAlone DEF Outside, Pcs
<1> QED
  BY <1>4, <1>5, <1>6, <1>7

\* After a reboot everything that is up runs what /etc says.
LEMMA BootedFresh ==
    ASSUME NEW c \in Configs, run' = BootedUnits(c), failed' = {}, etc' = c,
           late' = {}, pc' = [p \in Procs |-> "idle"]
    PROVE  FreshInv'
<1>1. \A u \in Units : run'[u] \in {c, None} /\ (run'[u] = c => Exists(c, u) \/ c = None)
  BY DEF BootedUnits, Exists
<1>2. c # None
  BY ConstantTypes
<1>3. ASSUME NEW u \in Units, InSight(u)' PROVE Good(u)'
  <2>1. run'[u] = c /\ UnitDef[c][u] # None
    BY <1>1, <1>2, <1>3, EligibleHasUnitFile DEF InSight
  <2> QED
    BY <2>1, SameItself DEF Good, Same
<1>4. ASSUME NEW s \in Fronts, run'[s] # None PROVE UnitDef[etc'][s] # None
  BY <1>1, <1>2, <1>4, FrontsAreSockets, HasUnitFile
<1>5. UnitsInv'
  BY <1>1, <1>2, <1>3, <1>4 DEF UnitsInv, Exists, Fronts
<1>6. \A p \in Procs : Knows(p)'
  BY OutsideKnows DEF Outside
<1> QED
  BY <1>5, <1>6 DEF FreshInv, Knows

\* A service started by a connection is late, or it runs what /etc says.
LEMMA SocketActivationFresh ==
    ASSUME SocketsFollow, IInv, FreshInv, SocketActivation
    PROVE  FreshInv'
<1>1. PICK u \in Units :
        /\ run[u] = None /\ Exists(loaded, u)
        /\ run' = [run EXCEPT ![u] = loaded]
        /\ failed' = failed \ {u}
        /\ \E s \in SocketsOf[loaded][u] :
              /\ run[s] # None
              /\ late' = IF \/ loaded # etc
                           \/ \E p \in Procs : pc[p] \in Snapshot /\ ~Foreseen(p, u, s)
                         THEN late \cup {u} ELSE late
  BY DEF SocketActivation
<1>2. PICK s \in SocketsOf[loaded][u] :
        /\ run[s] # None
        /\ late' = IF \/ loaded # etc
                     \/ \E p \in Procs : pc[p] \in Snapshot /\ ~Foreseen(p, u, s)
                   THEN late \cup {u} ELSE late
  BY <1>1
<1>3. /\ UNCHANGED <<loaded, etc, lists, pc, action, top, active, todo, plan, res,
                     missed>>
      /\ run \in [Units -> Configs \cup {None}] /\ loaded \in Configs
      /\ etc \in Configs /\ failed \subseteq Units
      /\ \A p \in Procs : active[p] \subseteq Units /\ top[p] \in Configs
  BY DEF SocketActivation, locals, IInv, TypeOK
<1>4. /\ run'[u] = loaded /\ \A w \in Units \ {u} : run'[w] = run[w]
      /\ Kind[u] # "socket" /\ u \notin Fronts
      /\ late \subseteq late' /\ late' \subseteq late \cup {u}
      /\ u \notin late' =>
            /\ loaded = etc
            /\ \A p \in Procs : pc[p] \in Snapshot => Foreseen(p, u, s)
  BY <1>1, <1>2, <1>3, FrontsAreSockets DEF SocketsFollow
<1>5. UnitsInv
  BY DEF FreshInv
<1>6. ASSUME NEW w \in Units, InSight(w)'
      PROVE  \/ w # u /\ InSight(w) /\ run'[w] = run[w]
             \/ /\ w = u /\ run'[u] = etc /\ loaded = etc
                /\ UnitDef[etc][u] # None /\ Same(run[u], etc, u)'
  <2>1. CASE w # u
    BY <1>4, <1>6, <2>1 DEF InSight
  <2>2. CASE w = u
    <3>1. loaded = etc /\ Eligible(u)
      BY <1>4, <1>6, <2>2 DEF InSight
    <3>2. UnitDef[etc][u] # None
      BY <1>1, <1>3, <3>1, EligibleHasUnitFile
    <3> QED
      BY <1>3, <1>4, <2>2, <3>1, <3>2, SameItself DEF Same
  <2> QED
    BY <2>1, <2>2
<1>7. UnitsInv'
  <2>1. ASSUME NEW w \in Units, run'[w] # None PROVE Exists(run'[w], w)
    BY <1>1, <1>4, <1>5, <2>1 DEF UnitsInv
  <2>2. \A w \in late' : Kind[w] # "socket"
    BY <1>4, <1>5 DEF UnitsInv
  <2>3. \A w \in failed' : run'[w] = None
    BY <1>1, <1>3, <1>4, <1>5 DEF UnitsInv
  <2>4. ASSUME NEW w \in Units, InSight(w)' PROVE Good(w)'
    <3>1. w # u => Good(w)
      BY <1>5, <1>6, <2>4 DEF UnitsInv
    <3> QED
      BY <1>3, <1>6, <2>4, <3>1 DEF Good, Same, Listed
  <2>5. ASSUME NEW t \in Fronts, run'[t] # None PROVE UnitDef[etc'][t] # None
    BY <1>3, <1>4, <1>5, <2>5, FrontsAreSockets DEF UnitsInv
  <2> QED
    BY <2>1, <2>2, <2>3, <2>4, <2>5 DEF UnitsInv, Exists, Fronts
<1>8. ASSUME NEW p \in Procs, action'[p] # "dry-activate"
      PROVE  Seen(p)' /\ Judged(p)' /\ Pending(p)' /\ Moved(p)'
  <2>1. Seen(p) /\ Judged(p) /\ Pending(p) /\ Moved(p)
    BY <1>3, <1>8 DEF FreshInv
  <2>2. Up \subseteq Up' /\ u \notin Up /\ failed \subseteq failed' \cup {u}
    BY <1>1, <1>4 DEF Up
  <2>3. Seen(p)'
    <3>1. ASSUME pc[p] \in Snapshot, NEW w \in Units, run'[w] # None, w \notin active[p]
          PROVE  w \in late'
      <4>1. CASE w = u
        BY <1>4, <3>1, <4>1 DEF Foreseen
      <4>2. CASE w # u
        BY <1>4, <2>1, <3>1, <4>2 DEF Seen
      <4> QED
        BY <4>1, <4>2
    <3>2. ASSUME pc[p] \in Looking, NEW w \in active[p]
          PROVE  run'[w] # None \/ w \in late' \cup failed'
      <4>1. run'[u] # None /\ w \in Units
        BY <1>3, <1>4, ConstantTypes
      <4>2. run[w] # None \/ w \in late \cup failed
        BY <2>1, <3>2 DEF Seen
      <4> QED
        BY <1>4, <2>2, <4>1, <4>2
    <3> QED
      BY <1>3, <2>1, <2>2, <3>1, <3>2 DEF Seen
  <2>4. ASSUME pc[p] \in Looking, NEW w \in Units, InSight(w)'
        PROVE  Open(p, w)' \/ ToStop(p, w)' \/ ToKeep(p, w)'
    <3>1. w # u
      <4>1. ASSUME w = u PROVE FALSE
        <5>1. u \notin late /\ u \notin late'
          BY <1>4, <2>4, <4>1 DEF InSight
        <5>2. u \in active[p] \ failed
          BY <1>4, <2>4, <5>1 DEF Looking, Snapshot, Foreseen
        <5>3. run[u] # None
          BY <2>1, <2>4, <5>1, <5>2 DEF Seen
        <5> QED
          BY <1>1, <5>3
      <4> QED
        BY <4>1
    <3>2. InSight(w) /\ run'[w] = run[w]
      BY <1>6, <2>4, <3>1
    <3>3. Open(p, w) \/ ToStop(p, w) \/ ToKeep(p, w)
      BY <2>1, <2>4, <3>2 DEF Judged
    <3> QED
      BY <1>3, <3>2, <3>3 DEF Open, ToStop, ToKeep, Same, Planned
  <2>5. ASSUME pc[p] = "activate", NEW w \in active[p] \ (late' \cup failed'), Eligible(w)
        PROVE  Off(p, w)' \/ ToKeep(p, w)'
    <3>1. w \in Units /\ top[p] \in Configs
      BY <1>3, <2>5
    <3>2. CASE w # u
      <4>1. w \in active[p] \ (late \cup failed)
        BY <1>4, <2>2, <2>5, <3>2
      <4>2. Off(p, w) \/ ToKeep(p, w)
        BY <2>1, <2>5, <4>1 DEF Judged, Looking
      <4>3. run'[w] = run[w]
        BY <1>4, <3>1, <3>2
      <4>4. \A t \in SocketsOf[top[p]][w] : t \in Units /\ Kind[t] = "socket"
        BY <3>1, ConstantTypes
      <4>5. Off(p, w) => Off(p, w)'
        BY <1>3, <1>4, <4>3, <4>4 DEF Off
      <4>6. ToKeep(p, w) => ToKeep(p, w)'
        BY <1>3, <4>3 DEF ToKeep, Same, Planned
      <4> QED
        BY <4>2, <4>5, <4>6
    <3>3. CASE w = u
      <4>1. Foreseen(p, u, s) /\ run'[u] = etc
        BY <1>4, <2>5, <3>3 DEF Snapshot
      <4>2. u \in active[p] \ (late \cup failed) /\ ~Off(p, u)
        BY <1>2, <1>4, <2>5, <3>3, <4>1 DEF Foreseen, Off
      <4>3. ToKeep(p, u)
        BY <2>1, <2>5, <3>3, <4>2 DEF Judged, Looking
      <4> QED
        BY <1>3, <3>3, <4>1, <4>3 DEF ToKeep, Same, Planned
    <3> QED
      BY <3>2, <3>3
  <2>6. ASSUME pc[p] = "activate", NEW t \in Fronts, run'[t] # None
        PROVE  UnitDef[top[p]][t] # None
    BY <1>4, <2>1, <2>6, FrontsAreSockets DEF Judged, Looking
  <2>7. ASSUME pc[p] \in Looking, NEW t \in Fronts, run'[t] # None
        PROVE  \/ Open(p, t)' \/ t \in plan[p]["stop"]
               \/ UnitDef[top[p]][t] # None
    <3>1. run[t] # None
      BY <1>4, <2>7, FrontsAreSockets
    <3> QED
      BY <1>3, <2>1, <2>7, <3>1 DEF Judged, Open
  <2>8. Judged(p)'
    BY <1>3, <2>4, <2>5, <2>6, <2>7 DEF Judged, Fronts
  <2>9. Pending(p)'
    <3>1. Listed("restart")' = Listed("restart")
      BY <1>3 DEF Listed
    <3>2. \A w \in Units : InSight(w)' =>
             \/ Same(run[w], etc, w)'
             \/ InSight(w) /\ (Same(run[w], etc, w)' <=> Same(run[w], etc, w))
      BY <1>3, <1>6 DEF Same
    <3> QED
      BY <1>3, <2>1, <3>1, <3>2 DEF Pending, Planned
  <2>10. Moved(p)'
    BY <1>3, <2>1 DEF Moved
  <2> QED
    BY <2>3, <2>8, <2>9, <2>10
<1> QED
  BY <1>7, <1>8 DEF FreshInv

LEMMA InitFresh == Init => FreshInv
<1> SUFFICES ASSUME Init PROVE FreshInv
  OBVIOUS
<1> DEFINE c == BootDefault
<1>1. /\ \A u \in Units : run[u] # None => run[u] = c /\ Exists(c, u)
      /\ etc = c /\ late = {} /\ failed = {} /\ c \in Configs
      /\ \A p \in Procs : pc[p] = "idle"
  BY ConstantTypes DEF Init, BootedUnits, Exists
<1> HIDE DEF c
<1>2. ASSUME NEW u \in Units, InSight(u) PROVE Good(u)
  <2>1. run[u] = c /\ UnitDef[c][u] # None
    BY <1>1, <1>2, EligibleHasUnitFile DEF InSight
  <2> QED
    BY <1>1, <2>1, SameItself DEF Good, Same
<1>3. ASSUME NEW s \in Fronts, run[s] # None PROVE UnitDef[etc][s] # None
  BY <1>1, <1>3, FrontsAreSockets, HasUnitFile
<1>4. UnitsInv
  BY <1>1, <1>2, <1>3 DEF UnitsInv
<1>5. ASSUME NEW p \in Procs PROVE Seen(p) /\ Judged(p) /\ Pending(p) /\ Moved(p)
  BY <1>1, <1>5 DEF Seen, Judged, Pending, Moved, Snapshot, Looking, Deciding, Loaded
<1> QED
  BY <1>4, <1>5 DEF FreshInv

LEMMA NextFresh ==
    ASSUME SocketsFollow, CommandsWork
    PROVE  IInv /\ FreshInv /\ [Next]_vars => FreshInv'
<1> SUFFICES ASSUME IInv, FreshInv, [Next]_vars PROVE FreshInv'
  OBVIOUS
<1>1. ASSUME NEW p \in Procs, Step(p) PROVE FreshInv'
  BY <1>1, EnterFresh, OutsideFresh, ReadListsFresh, ExamineUnitFresh,
     ExamineMountFresh, MoveFresh, StopUnitsFresh, ActivateFresh,
     PropagateRestartFresh, PropagateReloadFresh, ReloadDaemonFresh,
     CheckReloadFresh, ReloadUnitsFresh, UnlinkReloadFresh, RestartUnitsFresh,
     StartUnitsFresh, UnlinkFresh DEF Step
<1>2. ASSUME NEW p \in Procs, Invoke(p) \/ Kill(p) PROVE FreshInv'
  BY <1>2, EnterFresh, KillFresh
<1>3. CASE Reboot
  BY <1>3, BootedFresh DEF Reboot, IInv, TypeOK
<1>4. CASE SocketActivation
  BY <1>4, SocketActivationFresh
<1>5. CASE UNCHANGED vars
  <2>1. UNCHANGED <<run, failed, etc, loaded, late, missed, lists, pc, action, top,
                    active, todo, plan, res>>
    BY <1>5 DEF vars, sys, history
  <2>2. UnitsInv'
    BY <2>1, UnitsFramed DEF FreshInv
  <2>3. \A p \in Procs : Knows(p)'
    BY <2>1, OthersKnow DEF FreshInv, Knows
  <2> QED
    BY <2>2, <2>3 DEF FreshInv, Knows
<1> QED
  BY <1>1, <1>2, <1>3, <1>4, <1>5 DEF Next

\* What is kept: every unit in sight runs what /etc says or is listed, or has
\* missed a reload.
THEOREM ListsKeepUp ==
    ASSUME SocketsFollow, CommandsWork
    PROVE  Spec => []FreshInv
<1>1. IInv /\ FreshInv /\ [Next]_vars => FreshInv'
  BY NextFresh
<1> QED
  BY <1>1, InitFresh, Invariance, PTL DEF Spec

\* A run that exits 0 leaves no service running that its configuration does
\* not have, wherever the runs before it were killed (l.591-597, l.810-815).
THEOREM RemovedUnitsAreGone ==
    ASSUME SocketsFollow, CommandsWork
    PROVE  Spec => []NoOrphans
<1>1. ASSUME IInv, FreshInv PROVE NoOrphans
  <2> SUFFICES ASSUME NEW p \in Procs, pc[p] = "done", res[p] = 0,
                      NEW u \in active[p] \ late, Eligible(u), run[u] # None
               PROVE  UnitDef[top[p]][u] # None
    BY DEF NoOrphans, At
  <2>1. action[p] # "dry-activate" /\ u \in Units
    BY <1>1 DEF IInv, ProcInv, TypeOK, Done
  <2>2. Good(u) /\ etc = top[p]
    BY <1>1, <2>1 DEF FreshInv, UnitsInv, InSight, Moved, Loaded
  <2> QED
    BY <2>2 DEF Good
<1> QED
  BY <1>1, Invariance, ListsKeepUp, PTL

\* Nor one that runs an old definition of what the new configuration changed,
\* whether it is reloaded, restarted, or stopped and started (l.480-550,
\* l.928-955), unless it missed a reload.
THEOREM ServicesAreUpToDate ==
    ASSUME SocketsFollow, CommandsWork
    PROVE  Spec => []UpToDate
<1>1. ASSUME IInv, FreshInv PROVE UpToDate
  <2> SUFFICES ASSUME NEW p \in Procs, pc[p] = "done", res[p] = 0,
                      NEW u \in active[p] \ (late \cup missed), Eligible(u),
                      run[u] # None
               PROVE  CompareUnits(UnitDef[run[u]][u], UnitDef[top[p]][u]) = 0
    BY DEF UpToDate, At
  <2>1. action[p] # "dry-activate" /\ u \in Units
    BY <1>1 DEF IInv, ProcInv, TypeOK, Done
  <2>2. Same(run[u], etc, u) /\ etc = top[p]
    BY <1>1, <2>1 DEF FreshInv, Pending, InSight, Moved, Loaded
  <2> QED
    BY <2>2 DEF Same
<1> QED
  BY <1>1, Invariance, ListsKeepUp, PTL
================================================================================
