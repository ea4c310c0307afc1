-------------------- MODULE SwitchToConfiguration_proofs --------------------
(***************************************************************************)
(* Theorems about SwitchToConfiguration, for any number of invocations,    *)
(* units and configurations, of kills and of failing commands.             *)
(***************************************************************************)
EXTENDS SwitchToConfiguration, TLAPS

-----------------------------------------------------------------------------
(* Decisions: a plan in memory and the list files.                         *)

Plans     == [Sets -> SUBSET Units]
ListFiles == [Lists -> [Units -> Nat]]
Decisions == [plan : Plans, lists : ListFiles]

\* Nothing that is listed to be started or restarted has been forgotten.
InMemory(d) == \A f \in {"start", "restart"}, u \in Units :
                  d.lists[f][u] > 0 => u \in d.plan[f]

\* Nothing that is to be started or reloaded is only in memory.
OnDisk(d)   == \A f \in {"start", "reload"} : \A u \in d.plan[f] :
                  d.lists[f][u] > 0

\* Memory and list files agree, unless this is a dry run.
Sound(d, a) == /\ d \in Decisions
               /\ InMemory(d)
               /\ a # "dry-activate" => OnDisk(d)

\* Decisions about starts are never taken back, nor are their records.
Grows(d, e) == /\ d.plan["start"] \subseteq e.plan["start"]
               /\ \A u \in Units : e.lists["start"][u] >= d.lists["start"][u]

\* Whatever is going to be stopped and still exists is going to be started.
StopsCovered(d, c) == \A u \in d.plan["stop"] :
                         Exists(c, u) => Covers(c, u) \cap d.plan["start"] # {}

LEMMA GrowsTransitive ==
    ASSUME NEW d \in Decisions, NEW e \in Decisions, NEW f \in Decisions,
           Grows(d, e), Grows(e, f)
    PROVE  Grows(d, f)
BY DEF Grows, Decisions, ListFiles, Lists

LEMMA MarkSound ==
    ASSUME NEW a \in Actions, NEW d \in Decisions, Sound(d, a),
           NEW us \in SUBSET Units, NEW set \in {"stop", "skip", "restart"}
    PROVE  /\ Mark(d, set, us) \in Decisions
           /\ Sound(Mark(d, set, us), a) /\ Grows(d, Mark(d, set, us))
BY DEF Decisions, Plans, ListFiles, Mark, Sets, Lists, Sound, InMemory, OnDisk,
       Grows, Actions

LEMMA DryMarkSound ==
    ASSUME NEW a \in Actions, NEW d \in Decisions, Sound(d, a),
           a = "dry-activate", NEW us \in SUBSET Units, NEW set \in Sets
    PROVE  /\ Mark(d, set, us) \in Decisions
           /\ Sound(Mark(d, set, us), a) /\ Grows(d, Mark(d, set, us))
BY DEF Decisions, Plans, ListFiles, Mark, Sets, Lists, Sound, InMemory, OnDisk,
       Grows, Actions

LEMMA DecideSound ==
    ASSUME NEW a \in Actions, NEW d \in Decisions, Sound(d, a),
           NEW us \in SUBSET Units, NEW set \in Lists
    PROVE  /\ Decide(d, a, set, us) \in Decisions
           /\ Sound(Decide(d, a, set, us), a) /\ Grows(d, Decide(d, a, set, us))
BY DEF Decisions, Plans, ListFiles, Decide, Recorded, Sets, Lists, Sound,
       InMemory, OnDisk, Grows, Actions

LEMMA DropReloadSound ==
    ASSUME NEW a \in Actions, NEW d \in Decisions, Sound(d, a), NEW u \in Units
    PROVE  /\ DropReload(d, a, u) \in Decisions
           /\ Sound(DropReload(d, a, u), a) /\ Grows(d, DropReload(d, a, u))
BY DEF Decisions, Plans, ListFiles, DropReload, Unrecorded, Sets, Lists, Sound,
       InMemory, OnDisk, Grows, Actions

LEMMA StopAndStartSound ==
    ASSUME NEW a \in Actions, NEW d \in Decisions, Sound(d, a), NEW u \in Units,
           NEW up \in SUBSET Units, NEW c \in Configs,
           NEW stopSet \in {"stop", "restart"}, NEW startSet \in Lists
    PROVE  LET e == StopAndStart(d, a, u, up, c, stopSet, startSet)
           IN  e \in Decisions /\ Sound(e, a) /\ Grows(d, e)
<1> DEFINE back  == SocketsBack(u, up, c)
           begin == IF back # {} THEN back ELSE {u}
           ups   == SocketsUp(u, up, c) \cup {u}
           d1    == Decide(d, a, startSet, begin)
           d2    == Mark(d1, stopSet, ups)
           d3    == DropReload(d2, a, u)
<1>1. begin \in SUBSET Units /\ ups \in SUBSET Units
  BY DEF SocketsBack, SocketsUp
<1>2. d1 \in Decisions /\ Sound(d1, a) /\ Grows(d, d1)
  BY <1>1, DecideSound
<1>3. d2 \in Decisions /\ Sound(d2, a) /\ Grows(d1, d2)
  <2> HIDE DEF d1
  <2> QED
    BY <1>1, <1>2, MarkSound
<1>4. d3 \in Decisions /\ Sound(d3, a) /\ Grows(d2, d3)
  <2> HIDE DEF d2
  <2> QED
    BY <1>3, DropReloadSound
<1>5. Grows(d, d3)
  <2> HIDE DEF d1, d2, d3
  <2> QED
    BY <1>2, <1>3, <1>4, GrowsTransitive
<1>6. StopAndStart(d, a, u, up, c, stopSet, startSet) = d3
  BY DEF StopAndStart
<1> QED
  BY <1>4, <1>5, <1>6

\* Stopping the sockets along with a service, and starting those that still
\* exist instead of it, leaves nothing uncovered.
LEMMA StopAndStartCovers ==
    ASSUME NEW a \in Actions, NEW d \in Decisions, NEW u \in Units,
           NEW up \in SUBSET Units, NEW c \in Configs, StopsCovered(d, c)
    PROVE  StopsCovered(StopAndStart(d, a, u, up, c, "stop", "start"), c)
<1> DEFINE back  == SocketsBack(u, up, c)
           begin == IF back # {} THEN back ELSE {u}
           ups   == SocketsUp(u, up, c) \cup {u}
           e     == StopAndStart(d, a, u, up, c, "stop", "start")
<1>1. /\ e.plan["start"] = d.plan["start"] \cup begin
      /\ e.plan["stop"] = d.plan["stop"] \cup ups
  BY DEF StopAndStart, Decide, Mark, DropReload, Decisions, Plans, Sets, Lists
<1>2. \A v \in Units : v \in Covers(c, v)
  BY DEF Covers
<1>3. \A s \in SocketsUp(u, up, c) : Exists(c, s) => s \in back
  <2> SUFFICES ASSUME NEW s \in SocketsUp(u, up, c), Exists(c, s)
               PROVE  s \in back
    OBVIOUS
  <2>1. s \in Units /\ Kind[s] = "socket"
    BY ConstantTypes DEF SocketsUp
  <2>2. Fstab[c][s] = None
    BY ONLY <2>1, FstabUnits, c \in Configs
  <2> QED
    BY <2>1, <2>2 DEF SocketsBack, Exists
<1>4. Covers(c, u) \cap begin # {}
  BY <1>2 DEF SocketsBack, SocketsUp, Covers
<1>5. \A s \in SocketsUp(u, up, c) : Exists(c, s) => Covers(c, s) \cap begin # {}
  <2>1. \A s \in SocketsUp(u, up, c) : s \in Units
    BY DEF SocketsUp
  <2> QED
    BY <1>2, <1>3, <2>1
<1> HIDE DEF e, begin
<1> QED
  BY <1>1, <1>4, <1>5 DEF StopsCovered, e

LEMMA HandleModifiedSound ==
    ASSUME NEW a \in Actions, NEW d \in Decisions, Sound(d, a), NEW u \in Units,
           NEW up \in SUBSET Units, NEW c \in Configs,
           NEW stopSet \in {"stop", "restart"}, NEW startSet \in Lists
    PROVE  LET e == HandleModified(d, a, u, up, c, stopSet, startSet)
           IN  e \in Decisions /\ Sound(e, a) /\ Grows(d, e)
<1> DEFINE e == HandleModified(d, a, u, up, c, stopSet, startSet)
           new == Settings(c, u)
           x == Decide(d, a, "restart", {u})
<1>1. e \in {d, Decide(d, a, "reload", {u}), x, Mark(d, "skip", {u}),
             StopAndStart(d, a, u, up, c, stopSet, startSet),
             DropReload(x, a, u)}
  <2>1. Kind[u] \in Kinds
    BY ConstantTypes
  <2> HIDE DEF new
  <2> QED
    BY <2>1 DEF HandleModified, Kinds, new
<1>2. /\ d \in Decisions /\ Sound(d, a) /\ Grows(d, d)
  BY DEF Grows, Decisions, ListFiles, Lists
<1>3. LET f == Decide(d, a, "reload", {u})
      IN  f \in Decisions /\ Sound(f, a) /\ Grows(d, f)
  BY DecideSound DEF Lists
<1>4. x \in Decisions /\ Sound(x, a) /\ Grows(d, x)
  BY DecideSound DEF Lists
<1>5. LET f == DropReload(x, a, u)
      IN  f \in Decisions /\ Sound(f, a) /\ Grows(x, f)
  <2> HIDE DEF x
  <2> QED
    BY <1>4, DropReloadSound
<1>6. Grows(d, DropReload(x, a, u))
  <2> HIDE DEF x
  <2> QED
    BY <1>4, <1>5, GrowsTransitive
<1>7. LET f == Mark(d, "skip", {u})
      IN  f \in Decisions /\ Sound(f, a) /\ Grows(d, f)
  BY MarkSound
<1>8. LET f == StopAndStart(d, a, u, up, c, stopSet, startSet)
      IN  f \in Decisions /\ Sound(f, a) /\ Grows(d, f)
  BY StopAndStartSound
<1> HIDE DEF e, x
<1> QED
  BY <1>1, <1>2, <1>3, <1>4, <1>5, <1>6, <1>7, <1>8 DEF e

LEMMA HandleModifiedCovers ==
    ASSUME NEW a \in Actions, NEW d \in Decisions, NEW u \in Units,
           NEW up \in SUBSET Units, NEW c \in Configs, StopsCovered(d, c)
    PROVE  StopsCovered(HandleModified(d, a, u, up, c, "stop", "start"), c)
<1> DEFINE e == HandleModified(d, a, u, up, c, "stop", "start")
           new == Settings(c, u)
           x == Decide(d, a, "restart", {u})
           y == StopAndStart(d, a, u, up, c, "stop", "start")
<1>1. e \in {d, Decide(d, a, "reload", {u}), x, Mark(d, "skip", {u}), y,
             DropReload(x, a, u)}
  <2>1. Kind[u] \in Kinds
    BY ConstantTypes
  <2> HIDE DEF new
  <2> QED
    BY <2>1 DEF HandleModified, Kinds, new
<1>2. StopsCovered(y, c)
  BY StopAndStartCovers
<1>3. \A f \in {Decide(d, a, "reload", {u}), x, Mark(d, "skip", {u}),
                DropReload(x, a, u)} :
         f.plan["stop"] = d.plan["stop"] /\ f.plan["start"] = d.plan["start"]
  BY DEF Decide, Mark, DropReload, Decisions, Plans, Sets, Lists
<1> HIDE DEF e, x, y
<1>4. CASE e \in {d, y}
  BY <1>2, <1>4 DEF e
<1>5. CASE e \notin {d, y}
  BY <1>1, <1>3, <1>5 DEF StopsCovered, e
<1> QED
  BY <1>4, <1>5

LEMMA ExaminedSound ==
    ASSUME NEW a \in Actions, NEW d \in Decisions, Sound(d, a), NEW u \in Units,
           NEW up \in SUBSET Units, NEW old \in Configs, NEW c \in Configs
    PROVE  LET e == Examined(d, a, u, up, old, c)
           IN  e \in Decisions /\ Sound(e, a) /\ Grows(d, e)
<1> DEFINE e == Examined(d, a, u, up, old, c)
           x == Decide(d, a, "start", {u})
<1>1. e \in {d, Mark(d, "stop", {u}), x, Mark(x, "stop", {u}),
             HandleModified(d, a, u, up, c, "stop", "start"),
             Decide(d, a, "reload", {u})}
  BY DEF Examined, ExaminedRemoved
<1>2. /\ d \in Decisions /\ Sound(d, a) /\ Grows(d, d)
  BY DEF Grows, Decisions, ListFiles, Lists
<1>3. LET f == Mark(d, "stop", {u})
      IN  f \in Decisions /\ Sound(f, a) /\ Grows(d, f)
  BY MarkSound
<1>4. x \in Decisions /\ Sound(x, a) /\ Grows(d, x)
  BY DecideSound DEF Lists
<1>5. LET f == Mark(x, "stop", {u})
      IN  f \in Decisions /\ Sound(f, a) /\ Grows(x, f)
  <2> HIDE DEF x
  <2> QED
    BY <1>4, MarkSound
<1>6. Grows(d, Mark(x, "stop", {u}))
  <2> HIDE DEF x
  <2> QED
    BY <1>4, <1>5, GrowsTransitive
<1>7. LET f == HandleModified(d, a, u, up, c, "stop", "start")
      IN  f \in Decisions /\ Sound(f, a) /\ Grows(d, f)
  BY HandleModifiedSound DEF Lists
<1>8. LET f == Decide(d, a, "reload", {u})
      IN  f \in Decisions /\ Sound(f, a) /\ Grows(d, f)
  BY DecideSound DEF Lists
<1> HIDE DEF e, x
<1> QED
  BY <1>1, <1>2, <1>3, <1>4, <1>5, <1>6, <1>7, <1>8 DEF e

\* A unit without a unit file in the new system that had one does not exist
\* there; a target stopped by reconfigurations is started again.
LEMMA ExaminedCovers ==
    ASSUME NEW a \in Actions, NEW d \in Decisions, NEW u \in Units,
           NEW up \in SUBSET Units, NEW old \in Configs, NEW c \in Configs,
           StopsCovered(d, c)
    PROVE  StopsCovered(Examined(d, a, u, up, old, c), c)
<1> DEFINE e == Examined(d, a, u, up, old, c)
           x == Decide(d, a, "start", {u})
           h == HandleModified(d, a, u, up, c, "stop", "start")
<1>1. \/ e \in {d, Decide(d, a, "reload", {u}), x, h}
      \/ /\ UnitDef[old][u] # None /\ UnitDef[c][u] = None
         /\ e = Mark(d, "stop", {u})
      \/ /\ UnitDef[c][u] # None /\ IsTarget(u)
         /\ UnitDef[c][u].stopOnReconfiguration
         /\ \/ e = Mark(x, "stop", {u})
            \/ ~MayStart(UnitDef[c][u])
  BY DEF Examined, ExaminedRemoved
<1>2. StopsCovered(h, c)
  BY HandleModifiedCovers
<1>3. /\ LET f == Decide(d, a, "reload", {u})
         IN  f.plan["stop"] = d.plan["stop"] /\ f.plan["start"] = d.plan["start"]
      /\ x.plan["stop"] = d.plan["stop"]
      /\ x.plan["start"] = d.plan["start"] \cup {u}
      /\ LET f == Mark(d, "stop", {u})
         IN  /\ f.plan["stop"] = d.plan["stop"] \cup {u}
             /\ f.plan["start"] = d.plan["start"]
      /\ LET f == Mark(x, "stop", {u})
         IN  /\ f.plan["stop"] = d.plan["stop"] \cup {u}
             /\ f.plan["start"] = d.plan["start"] \cup {u}
  BY DEF Decide, Mark, Decisions, Plans, Sets, Lists
<1>4. u \in Covers(c, u)
  BY DEF Covers
<1> HIDE DEF e, x, h
<1>5. CASE e \in {d, h}
  BY <1>2, <1>5 DEF e
<1>6. CASE e \in {Decide(d, a, "reload", {u}), x}
  BY <1>3, <1>6 DEF StopsCovered, e
<1>7. CASE /\ UnitDef[old][u] # None /\ UnitDef[c][u] = None
           /\ e = Mark(d, "stop", {u})
  <2>1. ~Exists(c, u)
    BY <1>7, FstabUnits DEF Exists
  <2> QED
    BY <1>3, <1>7, <2>1 DEF StopsCovered, e
<1>8. CASE e = Mark(x, "stop", {u})
  BY <1>3, <1>4, <1>8 DEF StopsCovered, e
<1>9. CASE /\ UnitDef[c][u] # None /\ IsTarget(u)
           /\ UnitDef[c][u].stopOnReconfiguration
           /\ ~MayStart(UnitDef[c][u])
  BY <1>9, ReconfigurationTargets DEF IsTarget, MayStart
<1> QED
  BY <1>1, <1>5, <1>6, <1>7, <1>8, <1>9

LEMMA ExaminedMountSound ==
    ASSUME NEW a \in Actions, NEW d \in Decisions, Sound(d, a), NEW u \in Units,
           NEW old \in Configs, NEW c \in Configs
    PROVE  LET e == ExaminedMount(d, a, u, old, c)
           IN  e \in Decisions /\ Sound(e, a) /\ Grows(d, e)
<1> DEFINE e == ExaminedMount(d, a, u, old, c)
<1>1. e \in {d, Mark(d, "stop", {u}), Mark(d, "skip", {u}),
             Decide(d, a, "restart", {u}), Decide(d, a, "reload", {u})}
  BY DEF ExaminedMount
<1>2. d \in Decisions /\ Sound(d, a) /\ Grows(d, d)
  BY DEF Grows, Decisions, ListFiles, Lists
<1>3. LET f == Mark(d, "stop", {u})
      IN  f \in Decisions /\ Sound(f, a) /\ Grows(d, f)
  BY MarkSound
<1>4. LET f == Mark(d, "skip", {u})
      IN  f \in Decisions /\ Sound(f, a) /\ Grows(d, f)
  BY MarkSound
<1>5. LET f == Decide(d, a, "restart", {u})
      IN  f \in Decisions /\ Sound(f, a) /\ Grows(d, f)
  BY DecideSound DEF Lists
<1>6. LET f == Decide(d, a, "reload", {u})
      IN  f \in Decisions /\ Sound(f, a) /\ Grows(d, f)
  BY DecideSound DEF Lists
<1> HIDE DEF e
<1> QED
  BY <1>1, <1>2, <1>3, <1>4, <1>5, <1>6 DEF e

LEMMA ExaminedMountCovers ==
    ASSUME NEW a \in Actions, NEW d \in Decisions, NEW u \in Units,
           NEW old \in Configs, NEW c \in Configs, StopsCovered(d, c),
           UnitDef[c][u] = None
    PROVE  StopsCovered(ExaminedMount(d, a, u, old, c), c)
<1> DEFINE e == ExaminedMount(d, a, u, old, c)
<1>1. \/ e = d
      \/ e \in {Mark(d, "skip", {u}), Decide(d, a, "restart", {u}),
                Decide(d, a, "reload", {u})}
      \/ Fstab[c][u] = None /\ e = Mark(d, "stop", {u})
  BY DEF ExaminedMount
<1>2. \A f \in {Mark(d, "skip", {u}), Decide(d, a, "restart", {u}),
                Decide(d, a, "reload", {u})} :
         f.plan["stop"] = d.plan["stop"] /\ f.plan["start"] = d.plan["start"]
  BY DEF Decide, Mark, Decisions, Plans, Sets, Lists
<1>3. LET f == Mark(d, "stop", {u})
      IN  /\ f.plan["stop"] = d.plan["stop"] \cup {u}
          /\ f.plan["start"] = d.plan["start"]
  BY DEF Mark, Decisions, Plans, Sets, Lists
<1>4. Fstab[c][u] = None => ~Exists(c, u)
  BY DEF Exists
<1> HIDE DEF e
<1> QED
  BY <1>1, <1>2, <1>3, <1>4 DEF StopsCovered, e

-----------------------------------------------------------------------------
(* The inductive invariant.                                                *)

After == {"reload", "unlinkReload", "restart", "unlinkRestart", "start"}
Done  == {"unlinkStart", "listFailed", "done"}
Dry   == {"dry", "dryRestart", "dryReload"}
Asked == [restart : SUBSET Units, reload : SUBSET Units,
          dryRestart : SUBSET Units, dryReload : SUBSET Units]

\* What each process p can rely on at each step of the script.
ProcInv(p) ==
    /\ Running(p) => lock = p
    /\ pc[p] \in (Deciding \ {"examine", "fstab"}) \cup After \cup Done
         => action[p] # "dry-activate"
    /\ pc[p] \in Dry => action[p] = "dry-activate"
    /\ pc[p] \in Deciding \cup Dry => Sound(Memory(p), action[p])
    /\ pc[p] \in {"examine", "fstab", "stop"} => StopsCovered(Memory(p), top[p])
    /\ pc[p] = "fstab" => \A u \in todo[p], c \in Configs : UnitDef[c][u] = None
    /\ pc[p] \in After => Listed("start") = plan[p]["start"]
    /\ pc[p] = "reload" => plan[p]["reload"] \subseteq Listed("reload")
    /\ pc[p] \in {"reload", "unlinkReload", "restart"}
         => Listed("restart") \subseteq plan[p]["restart"]
    /\ pc[p] \in {"start"} \cup Done => Listed("restart") = {}
    /\ pc[p] \in Done => owed = {}
    /\ pc[p] \in Done => (res[p] = 0 => plan[p]["start"] \subseteq Up)
    /\ pc[p] \in {"listFailed", "done"} => Listed("start") = {}

IInv == TypeOK /\ StopsAreRecoverable /\ \A p \in Procs : ProcInv(p)

\* A process that is idle or waits for the lock relies on nothing.
LEMMA OutsideIsSafe ==
    ASSUME NEW p \in Procs, pc[p] \in {"idle", "lock"}
    PROVE  ProcInv(p)
BY DEF ProcInv, Running, Deciding, After, Done, Dry

\* While p runs, nobody else does.
LEMMA Alone ==
    ASSUME IInv, NEW p \in Procs, Running(p)
    PROVE  \A q \in Procs : q # p => pc[q] \in {"idle", "lock"}
BY DEF IInv, ProcInv, Running

\* A step of the running process has only its own part of IInv to keep.
LEMMA AloneKeeps ==
    ASSUME IInv, NEW p \in Procs, Running(p), NEW where \in Pcs,
           Goto(p, where), TypeOK', StopsAreRecoverable', ProcInv(p)'
    PROVE  IInv'
<1>1. \A q \in Procs : q # p => pc'[q] \in {"idle", "lock"}
  BY Alone DEF IInv, TypeOK, Goto
<1>2. \A q \in Procs : q # p => ProcInv(q)'
  BY <1>1 DEF ProcInv, Running, Deciding, After, Done, Dry
<1> QED
  BY <1>2 DEF IInv

LEMMA InitEstablishes == Init => IInv
<1> SUFFICES ASSUME Init PROVE IInv
  OBVIOUS
<1>1. TypeOK
  <2>1. /\ BootDefault \in Configs /\ 0 \in 0..MaxRuns /\ 0 \in 0..MaxKills
    BY ConstantTypes
  <2>2. /\ run \in [Units -> Configs \cup {None}]
        /\ lists \in [Lists -> [Units -> Nat]]
        /\ plan \in [Procs -> [Sets -> SUBSET Units]]
    BY <2>1 DEF Init, BootedUnits, Empty, NoPlan
  <2>3. /\ actReq \in Asked /\ pc \in [Procs -> Pcs]
        /\ action \in [Procs -> Actions]
    BY DEF Init, NoneListed, Asked, Pcs, Actions
  <2> QED
    BY <2>1, <2>2, <2>3 DEF Init, TypeOK, Asked
<1>2. StopsAreRecoverable
  BY DEF Init, StopsAreRecoverable
<1>3. \A p \in Procs : ProcInv(p)
  BY OutsideIsSafe DEF Init
<1> QED
  BY <1>1, <1>2, <1>3 DEF IInv

-----------------------------------------------------------------------------
(* The steps that only move on or leave.                                   *)

\* A step after which p is gone preserves IInv if it leaves the lists alone
\* and owes nothing new.
LEMMA GoneKeeps ==
    ASSUME IInv, NEW p \in Procs, Gone(p),
           run' \in [Units -> Configs \cup {None}],
           loaded' \in Configs, etc' \in Configs,
           current' \in Configs, bootDef' \in Configs,
           actReq' \in Asked,
           res' \in [Procs -> {0, 1, 2, 3, 4, 100}],
           failed' \in SUBSET Units, late' \in SUBSET Units,
           missed' \in SUBSET Units, kills' \in 0..MaxKills,
           UNCHANGED <<lists, runs>>, owed' \in SUBSET SUBSET Units,
           \A d \in owed' : d \cap Listed("start") # {},
           Running(p)
    PROVE  IInv'
<1>1. Goto(p, "idle") /\ "idle" \in Pcs
  BY DEF Gone, Pcs
<1>2. TypeOK'
  <2>1. lock' \in Procs \cup {None} /\ pc' \in [Procs -> Pcs]
    BY <1>1 DEF IInv, TypeOK, Gone, Goto
  <2>2. /\ action' \in [Procs -> Actions] /\ top' \in [Procs -> Configs]
        /\ active' \in [Procs -> SUBSET Units]
        /\ todo' \in [Procs -> SUBSET Units]
    BY ConstantTypes DEF IInv, TypeOK, Gone, Set, Actions
  <2>3. plan' \in [Procs -> [Sets -> SUBSET Units]]
    BY DEF IInv, TypeOK, Gone, Set, NoPlan
  <2> QED
    BY <2>1, <2>2, <2>3 DEF IInv, TypeOK, Asked
<1>3. StopsAreRecoverable'
  BY DEF StopsAreRecoverable, Listed, history
<1>4. pc'[p] = "idle"
  BY <1>1 DEF Goto, IInv, TypeOK
<1>5. ProcInv(p)'
  BY <1>4 DEF ProcInv, Running, Deciding, After, Done, Dry
<1> QED
  BY <1>1, <1>2, <1>3, <1>5, AloneKeeps

LEMMA InvokePreserves ==
    ASSUME IInv, NEW p \in Procs, Invoke(p)
    PROVE  IInv'
<1>1. TypeOK'
  BY ConstantTypes DEF IInv, TypeOK, Invoke, At, Goto, Set, sys, history,
     Pcs
<1>2. StopsAreRecoverable'
  BY DEF IInv, StopsAreRecoverable, Listed, history, Invoke
<1>3. ProcInv(p)'
  BY DEF IInv, TypeOK, Invoke, Goto, ProcInv, Running, Deciding, After, Done, Dry
<1>4. ASSUME NEW q \in Procs, q # p PROVE ProcInv(q)'
  <2>1. /\ pc'[q] = pc[q] /\ action'[q] = action[q] /\ top'[q] = top[q]
        /\ res'[q] = res[q]
        /\ UNCHANGED <<run, lock, lists, plan, todo, owed>>
    BY <1>4 DEF IInv, TypeOK, Invoke, Goto, Set, history, sys
  <2>2. ProcInv(q)
    BY DEF IInv
  <2> QED
    BY <2>1, <2>2 DEF ProcInv, Running, Memory, StopsCovered, Sound, InMemory,
       OnDisk, Listed, Up, Deciding, After, Done, Dry
<1> QED
  BY <1>1, <1>2, <1>3, <1>4 DEF IInv

LEMMA LockPreserves ==
    ASSUME IInv, NEW p \in Procs, Lock(p)
    PROVE  IInv'
<1>1. TypeOK'
  BY DEF IInv, TypeOK, Lock, At, Goto, sys, locals, history, budget, Pcs
<1>2. StopsAreRecoverable'
  BY DEF IInv, StopsAreRecoverable, Listed, history, Lock
<1>3. ProcInv(p)'
  BY DEF IInv, TypeOK, Lock, Goto, ProcInv, Running, Deciding, After, Done, Dry
<1>4. ASSUME NEW q \in Procs, q # p PROVE ProcInv(q)'
  <2>1. pc'[q] = pc[q] /\ pc[q] \in {"idle", "lock"}
    BY <1>4, ConstantTypes DEF IInv, TypeOK, ProcInv, Running, Lock, Goto
  <2> QED
    BY <2>1 DEF ProcInv, Running, Deciding, After, Done, Dry
<1> QED
  BY <1>1, <1>2, <1>3, <1>4 DEF IInv

LEMMA InstallBootLoaderPreserves ==
    ASSUME IInv, NEW p \in Procs, InstallBootLoader(p)
    PROVE  IInv'
<1>1. Running(p)
  BY DEF InstallBootLoader, At, Running
<1>2. CASE \E code \in {0, 1} : Exit(p, code)
  <2>1. Gone(p) /\ res' \in [Procs -> {0, 1, 2, 3, 4, 100}]
    BY <1>2 DEF Exit, Set, IInv, TypeOK
  <2>2. bootDef' \in Configs
    BY DEF InstallBootLoader, IInv, TypeOK
  <2>3. UNCHANGED <<run, failed, loaded, etc, current, lists, actReq, history,
                    runs, kills>>
    BY DEF InstallBootLoader, history, budget
  <2> QED
    BY <1>1, <2>1, <2>2, <2>3, GoneKeeps DEF IInv, TypeOK, StopsAreRecoverable,
       Asked, history
<1>3. CASE /\ Goto(p, "check") /\ UNCHANGED <<lock, locals, res>>
           /\ bootDef' \in Configs
  <2>1. TypeOK'
    BY <1>3 DEF IInv, TypeOK, InstallBootLoader, Goto, locals, history, budget, Pcs
  <2>2. StopsAreRecoverable'
    BY DEF IInv, StopsAreRecoverable, Listed, history, InstallBootLoader
  <2>3. ProcInv(p)'
    BY <1>1, <1>3 DEF IInv, TypeOK, Goto, ProcInv, Running, Deciding, After, Done, Dry
  <2> QED
    BY <1>1, <1>3, <2>1, <2>2, <2>3, AloneKeeps DEF Pcs
<1> QED
  BY <1>2, <1>3 DEF InstallBootLoader, IInv, TypeOK

LEMMA CheckInitInterfacePreserves ==
    ASSUME IInv, NEW p \in Procs, CheckInitInterface(p)
    PROVE  IInv'
<1>1. Running(p)
  BY DEF CheckInitInterface, At, Running
<1>2. CASE Exit(p, 100)
  <2>1. Gone(p) /\ res' \in [Procs -> {0, 1, 2, 3, 4, 100}]
    BY <1>2 DEF Exit, Set, IInv, TypeOK
  <2>2. UNCHANGED <<run, failed, loaded, etc, current, bootDef, lists, actReq,
                    history, runs, kills>>
    BY DEF CheckInitInterface, sys, history, budget
  <2> QED
    BY <1>1, <2>1, <2>2, GoneKeeps DEF IInv, TypeOK, StopsAreRecoverable,
       Asked, history
<1>3. CASE Goto(p, "read") /\ UNCHANGED <<lock, locals, res>>
  <2>1. TypeOK'
    BY <1>3 DEF IInv, TypeOK, CheckInitInterface, Goto, sys, locals, history, budget, Pcs
  <2>2. StopsAreRecoverable'
    BY DEF IInv, StopsAreRecoverable, Listed, history, CheckInitInterface
  <2>3. ProcInv(p)'
    BY <1>1, <1>3 DEF IInv, TypeOK, Goto, ProcInv, Running, Deciding, After, Done, Dry
  <2> QED
    BY <1>1, <1>3, <2>1, <2>2, <2>3, AloneKeeps DEF Pcs
<1> QED
  BY <1>2, <1>3 DEF CheckInitInterface

-----------------------------------------------------------------------------
(* The steps that decide.                                                  *)

LEMMA ReadListsPreserves ==
    ASSUME IInv, NEW p \in Procs, ReadLists(p)
    PROVE  IInv'
<1> DEFINE new == [set \in Sets |-> IF set \in Lists THEN Listed(set) ELSE {}]
<1>1. Running(p) /\ Goto(p, "examine") /\ "examine" \in Pcs
  BY DEF ReadLists, At, Running, Pcs
<1>2. /\ new \in Plans /\ plan'[p] = new /\ Up \subseteq Units
      /\ failed \subseteq Units
  BY DEF ReadLists, Set, IInv, TypeOK, Plans, Listed, Up
<1>3. TypeOK'
  <2>1. plan' \in [Procs -> [Sets -> SUBSET Units]]
    BY <1>2 DEF ReadLists, Set, IInv, TypeOK, Plans
  <2>2. active' \in [Procs -> SUBSET Units] /\ todo' \in [Procs -> SUBSET Units]
    BY <1>2 DEF ReadLists, Set, IInv, TypeOK
  <2>3. pc' \in [Procs -> Pcs]
    BY <1>1 DEF Goto, IInv, TypeOK
  <2> QED
    BY <2>1, <2>2, <2>3 DEF IInv, TypeOK, ReadLists, sys, history, budget
<1>4. StopsAreRecoverable'
  BY DEF IInv, StopsAreRecoverable, Listed, history, ReadLists
<1>5. Sound(Memory(p), action[p])' /\ StopsCovered(Memory(p), top[p])'
  <2>1. Memory(p)' = [plan |-> new, lists |-> lists]
    BY <1>2 DEF Memory, ReadLists
  <2>2. [plan |-> new, lists |-> lists] \in Decisions
    BY <1>2 DEF Decisions, ListFiles, IInv, TypeOK
  <2>3. new["stop"] = {}
    BY DEF Sets, Lists
  <2>4. \A f \in Lists : new[f] = Listed(f)
    BY DEF Sets
  <2> HIDE DEF new
  <2> QED
    BY <2>1, <2>2, <2>3, <2>4 DEF Sound, InMemory, OnDisk, StopsCovered, Listed,
       Lists
<1>6. ProcInv(p)'
  <2>1. pc'[p] = "examine" /\ lock' = p
    BY <1>1 DEF IInv, TypeOK, ReadLists, Goto, ProcInv
  <2> QED
    BY <1>5, <2>1 DEF ProcInv, Running, Deciding, After, Done, Dry
<1> QED
  BY <1>1, <1>3, <1>4, <1>6, AloneKeeps

\* A step of a loop that decides something about one unit: the decision is
\* sound, takes nothing back and covers whatever it stops.
DecidesSoundly(p) ==
    /\ pc[p] \in Deciding \cup Dry /\ pc[p] # "stop"
    /\ \E u \in Units, d \in Decisions :
          /\ Sound(d, action[p]) /\ Grows(Memory(p), d) /\ Decided(p, u, d)
          /\ pc[p] \in {"examine", "fstab"} => StopsCovered(d, top[p])
    /\ UNCHANGED <<sys, actReq, lock, pc, action, top, active, res, owed, late, budget>>

LEMMA DecidedKeeps ==
    ASSUME IInv, NEW p \in Procs, DecidesSoundly(p)
    PROVE  IInv'
<1>a. PICK u \in Units, d \in Decisions :
        /\ Sound(d, action[p]) /\ Grows(Memory(p), d) /\ Decided(p, u, d)
        /\ pc[p] \in {"examine", "fstab"} => StopsCovered(d, top[p])
  BY DEF DecidesSoundly
<1>b. /\ pc[p] \in Deciding \cup Dry /\ pc[p] # "stop"
      /\ UNCHANGED <<sys, actReq, lock, pc, action, top, active, res, owed,
                     late, budget>>
  BY DEF DecidesSoundly
<1>1. Running(p)
  BY <1>b DEF Running, Deciding, Dry
<1>2. d.plan \in [Sets -> SUBSET Units] /\ d.lists \in [Lists -> [Units -> Nat]]
  BY DEF Decisions, Plans, ListFiles
<1>3. TypeOK'
  <2>1. missed' \in SUBSET Units
    BY <1>a DEF Decided, IInv, TypeOK, Up
  <2> QED
    BY <1>a, <1>b, <1>2, <2>1 DEF Decided, Set, IInv, TypeOK, sys, history, budget
<1>4. StopsAreRecoverable'
  <2>1. \A v \in Units : v \in Listed("start") => v \in Listed("start")'
    BY <1>a, <1>2 DEF Decided, Grows, Memory, Listed, Decisions, ListFiles, Lists,
       IInv, TypeOK
  <2>2. Listed("start") \subseteq Units
    BY DEF Listed
  <2> QED
    BY <1>b, <2>1, <2>2 DEF IInv, StopsAreRecoverable
<1>5. Memory(p)' = d
  BY <1>a DEF Decided, Set, Memory, Decisions, IInv, TypeOK
<1>6. todo'[p] \subseteq todo[p]
  BY <1>a DEF Decided, Set, IInv, TypeOK
<1>7. ProcInv(p)'
  <2>1. ProcInv(p)
    BY DEF IInv
  <2> HIDE DEF Memory
  <2> QED
    BY <1>a, <1>b, <1>1, <1>5, <1>6, <2>1 DEF ProcInv, Running, Deciding, After, Done, Dry
<1>8. Goto(p, pc[p]) /\ pc[p] \in Pcs
  BY <1>b DEF Goto, IInv, TypeOK
<1> QED
  BY <1>1, <1>3, <1>4, <1>7, <1>8, AloneKeeps

\* What p knows while it decides.
LEMMA DecidingFacts ==
    ASSUME IInv, NEW p \in Procs, pc[p] \in Deciding \cup Dry
    PROVE  /\ Memory(p) \in Decisions /\ Sound(Memory(p), action[p])
           /\ action[p] \in Actions /\ top[p] \in Configs /\ etc \in Configs
           /\ active[p] \in SUBSET Units /\ todo[p] \in SUBSET Units
           /\ Running(p)
BY DEF IInv, ProcInv, Sound, TypeOK, Running, Deciding, Dry

LEMMA ExamineUnitDecides ==
    ASSUME IInv, NEW p \in Procs, ExamineUnit(p)
    PROVE  DecidesSoundly(p)
<1> DEFINE d(u) == Examined(Memory(p), action[p], u, active[p], etc, top[p])
<1>1. PICK u \in todo[p] : Decided(p, u, d(u))
  BY DEF ExamineUnit
<1>2. pc[p] = "examine" /\ pc[p] \in Deciding
  BY DEF ExamineUnit, At, Deciding
<1>3. u \in Units
  BY <1>2, DecidingFacts
<1>4. d(u) \in Decisions /\ Sound(d(u), action[p]) /\ Grows(Memory(p), d(u))
  BY <1>2, <1>3, DecidingFacts, ExaminedSound
<1>5. StopsCovered(Memory(p), top[p])
  BY <1>2 DEF IInv, ProcInv
<1>6. StopsCovered(d(u), top[p])
  BY <1>2, <1>3, <1>5, DecidingFacts, ExaminedCovers
<1>7. UNCHANGED <<sys, actReq, lock, pc, action, top, active, res, owed, late, budget>>
  BY DEF ExamineUnit
<1> HIDE DEF d
<1> QED
  BY <1>1, <1>2, <1>3, <1>4, <1>6, <1>7 DEF DecidesSoundly

LEMMA ExamineMountDecides ==
    ASSUME IInv, NEW p \in Procs, ExamineMount(p)
    PROVE  DecidesSoundly(p)
<1> DEFINE d(u) == ExaminedMount(Memory(p), action[p], u, etc, top[p])
<1>1. PICK u \in todo[p] : Decided(p, u, d(u))
  BY DEF ExamineMount
<1>2. pc[p] = "fstab" /\ pc[p] \in Deciding
  BY DEF ExamineMount, At, Deciding
<1>3. u \in Units
  BY <1>2, DecidingFacts
<1>4. d(u) \in Decisions /\ Sound(d(u), action[p]) /\ Grows(Memory(p), d(u))
  BY <1>2, <1>3, DecidingFacts, ExaminedMountSound
<1>5. StopsCovered(Memory(p), top[p]) /\ UnitDef[top[p]][u] = None
  BY <1>2, DecidingFacts DEF IInv, ProcInv
<1>6. StopsCovered(d(u), top[p])
  BY <1>2, <1>3, <1>5, DecidingFacts, ExaminedMountCovers
<1>7. UNCHANGED <<sys, actReq, lock, pc, action, top, active, res, owed, late, budget>>
  BY DEF ExamineMount
<1> HIDE DEF d
<1> QED
  BY <1>1, <1>2, <1>3, <1>4, <1>6, <1>7 DEF DecidesSoundly

LEMMA UnitsExaminedPreserves ==
    ASSUME IInv, NEW p \in Procs, UnitsExamined(p)
    PROVE  IInv'
<1>1. pc[p] = "examine" /\ Running(p) /\ Goto(p, "fstab") /\ "fstab" \in Pcs
  BY DEF UnitsExamined, At, Running, Pcs
<1>2. todo'[p] = {u \in Units : Fstab[etc][u] # None}
  BY DEF UnitsExamined, Set, IInv, TypeOK
<1>3. TypeOK'
  BY <1>1 DEF UnitsExamined, Goto, Set, IInv, TypeOK, sys, history, budget
<1>4. StopsAreRecoverable'
  BY DEF UnitsExamined, IInv, StopsAreRecoverable, Listed, history
<1>5. \A u \in todo'[p], c \in Configs : UnitDef[c][u] = None
  BY <1>2, FstabUnits DEF IInv, TypeOK
<1>6. Memory(p)' = Memory(p) /\ action' = action /\ top' = top /\ lock' = lock
  BY DEF UnitsExamined, Memory
<1>7. ProcInv(p)'
  <2>1. ProcInv(p) /\ pc'[p] = "fstab"
    BY <1>1 DEF IInv, TypeOK, Goto
  <2> HIDE DEF Memory
  <2> QED
    BY <1>1, <1>5, <1>6, <2>1 DEF ProcInv, Running, Deciding, After, Done, Dry
<1> QED
  BY <1>1, <1>3, <1>4, <1>7, AloneKeeps

LEMMA MountsExaminedPreserves ==
    ASSUME IInv, NEW p \in Procs, MountsExamined(p)
    PROVE  IInv'
<1> DEFINE where == IF action[p] = "dry-activate" THEN "dry" ELSE "stop"
<1>1. pc[p] = "fstab" /\ Running(p) /\ Goto(p, where) /\ where \in Pcs
  BY DEF MountsExamined, At, Running, Pcs
<1>2. UNCHANGED <<sys, lists, actReq, lock, locals, res, history, budget>>
  BY DEF MountsExamined
<1>3. TypeOK'
  BY <1>1, <1>2 DEF Goto, IInv, TypeOK, sys, locals, history, budget
<1>4. StopsAreRecoverable'
  BY <1>2 DEF IInv, StopsAreRecoverable, Listed, history
<1>5. ProcInv(p)'
  <2>1. ProcInv(p) /\ pc'[p] = where
    BY <1>1 DEF IInv, TypeOK, Goto
  <2>2. /\ Memory(p)' = Memory(p) /\ action' = action /\ top' = top
        /\ lock' = lock
    BY <1>2 DEF Memory, locals
  <2> HIDE DEF Memory
  <2> QED
    BY <1>1, <2>1, <2>2 DEF ProcInv, Running, Deciding, After, Done, Dry
<1> QED
  BY <1>1, <1>3, <1>4, <1>5, AloneKeeps

\* Exiting with the system and the lists untouched.
LEMMA ExitPreserves ==
    ASSUME IInv, NEW p \in Procs, NEW code \in {0, 1, 2, 3, 4, 100},
           Exit(p, code), Running(p),
           UNCHANGED <<sys, lists, actReq, history, budget>>
    PROVE  IInv'
<1>1. Gone(p) /\ res' \in [Procs -> {0, 1, 2, 3, 4, 100}]
  BY DEF Exit, Set, IInv, TypeOK
<1>2. UNCHANGED <<run, failed, loaded, etc, current, bootDef, lists, actReq,
                  history, runs, kills>>
  BY DEF sys, history, budget
<1> QED
  BY <1>1, <1>2, GoneKeeps DEF IInv, TypeOK, StopsAreRecoverable,
     Asked, history

\* A dry run goes on to its next loop.
LEMMA DryLoopKeeps ==
    ASSUME IInv, NEW p \in Procs, pc[p] \in Dry, NEW where \in Dry,
           Goto(p, where), actReq' \in Asked,
           todo' \in [Procs -> SUBSET Units],
           UNCHANGED <<sys, lists, lock, action, top, active, plan, res,
                       history, budget>>
    PROVE  IInv'
<1>1. Running(p) /\ where \in Pcs
  BY DEF Running, Dry, Pcs
<1>2. TypeOK'
  BY <1>1 DEF Goto, IInv, TypeOK, sys, history, budget, Asked
<1>3. StopsAreRecoverable'
  BY DEF IInv, StopsAreRecoverable, Listed, history
<1>4. ProcInv(p)'
  <2>1. ProcInv(p) /\ pc'[p] = where
    BY <1>1 DEF IInv, TypeOK, Goto
  <2>2. Memory(p)' = Memory(p)
    BY DEF Memory
  <2> HIDE DEF Memory
  <2> QED
    BY <1>1, <2>1, <2>2 DEF ProcInv, Running, Deciding, After, Done, Dry
<1> QED
  BY <1>1, <1>2, <1>3, <1>4, AloneKeeps

LEMMA DryActivatePreserves ==
    ASSUME IInv, NEW p \in Procs, DryActivate(p)
    PROVE  IInv'
<1>1. pc[p] = "dry" /\ Goto(p, "dryRestart")
  BY DEF DryActivate, At
<1>2. actReq' \in Asked /\ todo' \in [Procs -> SUBSET Units]
  <2>1. PICK r \in Requests :
          /\ actReq' = [actReq EXCEPT !.dryRestart = @ \cup r.restart,
                                     !.dryReload  = @ \cup r.reload]
          /\ todo' = Set(todo, p, actReq.dryRestart \cup r.restart)
    BY DEF DryActivate
  <2>2. r.restart \subseteq Units /\ r.reload \subseteq Units
    BY ConstantTypes
  <2> QED
    BY <2>1, <2>2 DEF Set, IInv, TypeOK, Asked
<1>3. UNCHANGED <<sys, lists, lock, action, top, active, plan, res, history,
                  budget>>
  BY DEF DryActivate
<1> QED
  BY <1>1, <1>2, <1>3, DryLoopKeeps DEF Dry

LEMMA DryRestartsSeenPreserves ==
    ASSUME IInv, NEW p \in Procs, DryRestartsSeen(p)
    PROVE  IInv'
<1>1. pc[p] = "dryRestart" /\ Goto(p, "dryReload")
  BY DEF DryRestartsSeen, At
<1>2. actReq' \in Asked /\ todo' \in [Procs -> SUBSET Units]
  BY DEF DryRestartsSeen, Set, IInv, TypeOK, Asked
<1>3. UNCHANGED <<sys, lists, lock, action, top, active, plan, res, history,
                  budget>>
  BY DEF DryRestartsSeen
<1> QED
  BY <1>1, <1>2, <1>3, DryLoopKeeps DEF Dry

LEMMA DryRestartDecides ==
    ASSUME IInv, NEW p \in Procs, DryRestart(p)
    PROVE  DecidesSoundly(p)
<1> DEFINE d(u) == IF u \notin active[p] THEN Mark(Memory(p), "start", {u})
                   ELSE HandleModified(Memory(p), action[p], u, active[p],
                                       top[p], "restart", "restart")
<1>1. PICK u \in todo[p] : Decided(p, u, d(u))
  BY DEF DryRestart
<1>2. pc[p] = "dryRestart" /\ pc[p] \in Deciding \cup Dry
  BY DEF DryRestart, At, Dry
<1>3. u \in Units /\ action[p] = "dry-activate"
  BY <1>2, DecidingFacts DEF IInv, ProcInv, Dry
<1>4. LET e == Mark(Memory(p), "start", {u})
      IN  e \in Decisions /\ Sound(e, action[p]) /\ Grows(Memory(p), e)
  BY <1>2, <1>3, DecidingFacts, DryMarkSound DEF Sets, Lists
<1>5. LET e == HandleModified(Memory(p), action[p], u, active[p], top[p],
                              "restart", "restart")
      IN  e \in Decisions /\ Sound(e, action[p]) /\ Grows(Memory(p), e)
  BY <1>2, <1>3, DecidingFacts, HandleModifiedSound DEF Lists
<1>6. d(u) \in Decisions /\ Sound(d(u), action[p]) /\ Grows(Memory(p), d(u))
  BY <1>4, <1>5
<1>7. UNCHANGED <<sys, actReq, lock, pc, action, top, active, res, owed, late, budget>>
  BY DEF DryRestart
<1> HIDE DEF d
<1> QED
  BY <1>1, <1>2, <1>3, <1>6, <1>7 DEF DecidesSoundly

LEMMA DryFinishPreserves ==
    ASSUME IInv, NEW p \in Procs, DryFinish(p)
    PROVE  IInv'
<1>1. Gone(p) /\ res' \in [Procs -> {0, 1, 2, 3, 4, 100}] /\ Running(p)
  BY DEF DryFinish, At, Running, Exit, Set, IInv, TypeOK
<1>2. actReq' \in Asked
  BY DEF DryFinish, IInv, TypeOK, Asked
<1>3. UNCHANGED <<run, failed, loaded, etc, current, bootDef, lists, history,
                  runs, kills>>
  BY DEF DryFinish, sys, history, budget
<1> QED
  BY <1>1, <1>2, <1>3, GoneKeeps DEF IInv, TypeOK, StopsAreRecoverable, history

LEMMA FinishPreserves ==
    ASSUME IInv, NEW p \in Procs, Finish(p)
    PROVE  IInv'
BY ExitPreserves DEF Finish, At, Running, IInv, TypeOK

-----------------------------------------------------------------------------
(* The steps that act.                                                     *)

\* Taking down some of the units that are going to be stopped leaves nothing
\* that the start-list does not cover.
LEMMA TakenDownCovered ==
    ASSUME IInv, NEW p \in Procs, pc[p] = "stop",
           NEW S \in SUBSET plan[p]["stop"], TakenDown(p, S)
    PROVE  /\ missed' \in SUBSET Units
           /\ run' \in [Units -> Configs \cup {None}]
           /\ owed' \in SUBSET SUBSET Units
           /\ \A d \in owed' : d \cap Listed("start") # {}
<1>1. /\ Memory(p).plan = plan[p] /\ Memory(p).lists = lists
  BY DEF Memory
<1>2. /\ pc[p] \in Deciding /\ action[p] # "dry-activate"
      /\ Sound(Memory(p), action[p]) /\ StopsCovered(Memory(p), top[p])
  BY DEF IInv, ProcInv, Deciding
<1>3. plan[p] \in [Sets -> SUBSET Units]
  BY DEF IInv, TypeOK
<1>4. S \subseteq Units
  BY <1>3 DEF Sets
<1>5. \A u \in S : Exists(top[p], u) =>
         Covers(top[p], u) \cap plan[p]["start"] # {}
  BY <1>1, <1>2 DEF StopsCovered
<1>6. plan[p]["start"] \subseteq Listed("start")
  BY <1>1, <1>2, <1>3 DEF Sound, OnDisk, Listed, Sets, Lists
<1>7. run' \in [Units -> Configs \cup {None}]
  BY DEF TakenDown, Stopped, IInv, TypeOK
<1>8. owed' \in SUBSET SUBSET Units
  <2>1. \A u \in S : Covers(top[p], u) \subseteq Units
    BY <1>4, ConstantTypes DEF Covers, IInv, TypeOK
  <2> QED
    BY <2>1 DEF TakenDown, IInv, TypeOK
<1>9. \A d \in owed' : d \cap Listed("start") # {}
  BY <1>5, <1>6 DEF TakenDown, IInv, StopsAreRecoverable
<1>10. missed' \in SUBSET Units
  BY DEF TakenDown, StillMissed, IInv, TypeOK
<1> QED
  BY <1>7, <1>8, <1>9, <1>10

LEMMA StopUnitsPreserves ==
    ASSUME IInv, NEW p \in Procs, StopUnits(p)
    PROVE  IInv'
<1>1. pc[p] = "stop" /\ Running(p) /\ Goto(p, "activate") /\ "activate" \in Pcs
  BY DEF StopUnits, At, Running, Pcs
<1>2. /\ \E broken \in Broken("stop", plan[p]["stop"]) :
            TakenDown(p, plan[p]["stop"] \ broken)
      /\ UNCHANGED <<lists, actReq, lock, locals, res, budget>>
  BY DEF StopUnits
<1>a. PICK S \in SUBSET plan[p]["stop"] : TakenDown(p, S)
  BY <1>2
<1>3. /\ missed' \in SUBSET Units
      /\ run' \in [Units -> Configs \cup {None}]
      /\ owed' \in SUBSET SUBSET Units
      /\ \A d \in owed' : d \cap Listed("start") # {}
  BY <1>1, <1>a, TakenDownCovered
<1>4. TypeOK'
  BY <1>1, <1>2, <1>a, <1>3 DEF Goto, IInv, TypeOK, locals, budget, TakenDown
<1>5. StopsAreRecoverable'
  BY <1>2, <1>3 DEF StopsAreRecoverable, Listed, history
<1>6. ProcInv(p)'
  <2>1. ProcInv(p) /\ pc'[p] = "activate"
    BY <1>1 DEF IInv, TypeOK, Goto
  <2>2. /\ Memory(p)' = Memory(p) /\ action' = action /\ top' = top
        /\ lock' = lock
    BY <1>2 DEF Memory, locals
  <2> HIDE DEF Memory
  <2> QED
    BY <1>1, <2>1, <2>2 DEF ProcInv, Running, Deciding, After, Done, Dry
<1> QED
  BY <1>1, <1>4, <1>5, <1>6, AloneKeeps

LEMMA ActivatePreserves ==
    ASSUME IInv, NEW p \in Procs, Activate(p)
    PROVE  IInv'
<1>1. /\ pc[p] = "activate" /\ Running(p)
      /\ Goto(p, "propRestart") /\ "propRestart" \in Pcs
  BY DEF Activate, At, Running, Pcs
<1>2. PICK r \in Requests :
        /\ actReq' = [actReq EXCEPT !.restart = @ \cup r.restart,
                                   !.reload  = @ \cup r.reload]
        /\ todo' = Set(todo, p, actReq.restart \cup r.restart)
  BY DEF Activate
<1>3. actReq' \in Asked
  BY <1>2, ConstantTypes DEF IInv, TypeOK, Asked
<1>4. todo' \in [Procs -> SUBSET Units]
  BY <1>2, ConstantTypes DEF IInv, TypeOK, Set
<1>5. /\ current' \in Configs /\ etc' \in Configs
      /\ res' \in [Procs -> {0, 1, 2, 3, 4, 100}]
  BY DEF Activate, IInv, TypeOK, Set
<1>6. UNCHANGED <<run, failed, loaded, bootDef, lists, lock, action, top, active,
                  plan, history, runs, kills>>
  BY DEF Activate, budget
<1>7. TypeOK'
  BY <1>1, <1>3, <1>4, <1>5, <1>6 DEF Goto, IInv, TypeOK, Asked, history
<1>8. StopsAreRecoverable'
  BY <1>6 DEF IInv, StopsAreRecoverable, Listed, history
<1>9. ProcInv(p)'
  <2>1. ProcInv(p) /\ pc'[p] = "propRestart"
    BY <1>1 DEF IInv, TypeOK, Goto
  <2>2. Memory(p)' = Memory(p)
    BY <1>6 DEF Memory
  <2> HIDE DEF Memory
  <2> QED
    BY <1>1, <1>6, <2>1, <2>2 DEF ProcInv, Running, Deciding, After, Done, Dry
<1> QED
  BY <1>1, <1>7, <1>8, <1>9, AloneKeeps

LEMMA PropagateRestartDecides ==
    ASSUME IInv, NEW p \in Procs, PropagateRestart(p)
    PROVE  DecidesSoundly(p)
<1> DEFINE d(u) == IF u \notin active[p]
                   THEN Decide(Memory(p), action[p], "start", {u})
                   ELSE HandleModified(Memory(p), action[p], u, active[p],
                                       top[p], "restart", "restart")
<1>1. PICK u \in todo[p] : Decided(p, u, d(u))
  BY DEF PropagateRestart
<1>2. pc[p] = "propRestart" /\ pc[p] \in Deciding
  BY DEF PropagateRestart, At, Deciding
<1>3. u \in Units
  BY <1>2, DecidingFacts
<1>4. LET e == Decide(Memory(p), action[p], "start", {u})
      IN  e \in Decisions /\ Sound(e, action[p]) /\ Grows(Memory(p), e)
  BY <1>2, <1>3, DecidingFacts, DecideSound DEF Lists
<1>5. LET e == HandleModified(Memory(p), action[p], u, active[p], top[p],
                              "restart", "restart")
      IN  e \in Decisions /\ Sound(e, action[p]) /\ Grows(Memory(p), e)
  BY <1>2, <1>3, DecidingFacts, HandleModifiedSound DEF Lists
<1>6. d(u) \in Decisions /\ Sound(d(u), action[p]) /\ Grows(Memory(p), d(u))
  BY <1>4, <1>5
<1>7. UNCHANGED <<sys, actReq, lock, pc, action, top, active, res, owed, late, budget>>
  BY DEF PropagateRestart
<1> HIDE DEF d
<1> QED
  BY <1>1, <1>2, <1>3, <1>6, <1>7 DEF DecidesSoundly

\* Going on to the next loop of the deciding steps.
LEMMA NextLoopKeeps ==
    ASSUME IInv, NEW p \in Procs,
           pc[p] \in Deciding \ {"examine", "fstab"},
           pc[p] # "stop",
           NEW where \in Deciding \ {"examine", "fstab", "stop"},
           Goto(p, where),
           failed' \in SUBSET Units, loaded' \in Configs, res' \in [Procs -> {0, 1, 2, 3, 4, 100}],
           actReq' \in Asked,
           todo' \in [Procs -> SUBSET Units],
           UNCHANGED <<run, etc, current, bootDef, lists, lock, action, top,
                       active, plan, history, budget>>
    PROVE  IInv'
<1>1. Running(p) /\ where \in Pcs
  BY DEF Running, Deciding, Pcs
<1>2. TypeOK'
  BY <1>1 DEF Goto, IInv, TypeOK, history, budget, Asked
<1>3. StopsAreRecoverable'
  BY DEF IInv, StopsAreRecoverable, Listed, history
<1>4. ProcInv(p)'
  <2>1. ProcInv(p) /\ pc'[p] = where
    BY <1>1 DEF IInv, TypeOK, Goto
  <2>2. Memory(p)' = Memory(p)
    BY DEF Memory
  <2> HIDE DEF Memory
  <2> QED
    BY <1>1, <2>1, <2>2 DEF ProcInv, Running, Deciding, After, Done, Dry
<1> QED
  BY <1>1, <1>2, <1>3, <1>4, AloneKeeps

LEMMA RestartsPropagatedPreserves ==
    ASSUME IInv, NEW p \in Procs, RestartsPropagated(p)
    PROVE  IInv'
<1>1. pc[p] = "propRestart" /\ Goto(p, "propReload")
  BY DEF RestartsPropagated, At
<1>2. /\ actReq' \in Asked
      /\ todo' \in [Procs -> SUBSET Units]
  BY DEF RestartsPropagated, Set, IInv, TypeOK, Asked
<1>3. /\ failed' \in SUBSET Units /\ loaded' \in Configs
      /\ res' \in [Procs -> {0, 1, 2, 3, 4, 100}]
      /\ UNCHANGED <<run, etc, current, bootDef, lists, lock, action, top,
                     active, plan, history, budget>>
  BY DEF RestartsPropagated, sys, IInv, TypeOK
<1> QED
  BY <1>1, <1>2, <1>3, NextLoopKeeps DEF Deciding

\* A request to reload u, if the run is not to stop or restart it anyway.
LEMMA ReloadAskedSound ==
    ASSUME NEW a \in Actions, NEW d \in Decisions, Sound(d, a), NEW u \in Units,
           NEW asked \in BOOLEAN
    PROVE  LET e == IF asked THEN Decide(d, a, "reload", {u}) ELSE d
           IN  e \in Decisions /\ Sound(e, a) /\ Grows(d, e)
<1>1. Grows(d, d)
  BY DEF Grows, Decisions, ListFiles, Lists
<1> QED
  BY <1>1, DecideSound DEF Lists

LEMMA PropagateReloadDecides ==
    ASSUME IInv, NEW p \in Procs, PropagateReload(p)
    PROVE  DecidesSoundly(p)
<1> DEFINE d(u) == IF u \in active[p] \ (plan[p].restart \cup plan[p].stop)
                   THEN Decide(Memory(p), action[p], "reload", {u})
                   ELSE Memory(p)
<1>1. PICK u \in todo[p] : Decided(p, u, d(u))
  BY DEF PropagateReload
<1>2. pc[p] = "propReload" /\ pc[p] \in Deciding
  BY DEF PropagateReload, At, Deciding
<1>3. u \in Units
  BY <1>2, DecidingFacts
<1>4. d(u) \in Decisions /\ Sound(d(u), action[p]) /\ Grows(Memory(p), d(u))
  BY <1>2, <1>3, DecidingFacts, ReloadAskedSound
<1>5. UNCHANGED <<sys, actReq, lock, pc, action, top, active, res, owed, late, budget>>
  BY DEF PropagateReload
<1> HIDE DEF d
<1> QED
  BY <1>1, <1>2, <1>3, <1>4, <1>5 DEF DecidesSoundly

LEMMA ReloadsPropagatedPreserves ==
    ASSUME IInv, NEW p \in Procs, ReloadsPropagated(p)
    PROVE  IInv'
<1>1. pc[p] = "propReload" /\ Goto(p, "daemon")
  BY DEF ReloadsPropagated, At
<1>2. actReq' \in Asked
  BY DEF ReloadsPropagated, IInv, TypeOK, Asked
<1>3. /\ failed' \in SUBSET Units /\ loaded' \in Configs
      /\ res' \in [Procs -> {0, 1, 2, 3, 4, 100}]
      /\ todo' \in [Procs -> SUBSET Units]
      /\ UNCHANGED <<run, etc, current, bootDef, lists, lock, action, top,
                     active, plan, history, budget>>
  BY DEF ReloadsPropagated, sys, locals, IInv, TypeOK
<1> QED
  BY <1>1, <1>2, <1>3, NextLoopKeeps DEF Deciding

LEMMA ReloadDaemonPreserves ==
    ASSUME IInv, NEW p \in Procs, ReloadDaemon(p)
    PROVE  IInv'
<1>1. pc[p] = "daemon" /\ Goto(p, "checkReload")
  BY DEF ReloadDaemon, At
<1>2. /\ failed' \in SUBSET Units /\ loaded' \in Configs
      /\ res' \in [Procs -> {0, 1, 2, 3, 4, 100}]
  BY DEF ReloadDaemon, Set, IInv, TypeOK
<1>3. todo' \in [Procs -> SUBSET Units]
  BY DEF ReloadDaemon, Set, IInv, TypeOK, Sets, Lists
<1>4. /\ actReq' \in Asked
      /\ UNCHANGED <<run, etc, current, bootDef, lists, lock, action, top,
                     active, plan, history, budget>>
  BY DEF ReloadDaemon, IInv, TypeOK, Asked
<1> QED
  BY <1>1, <1>2, <1>3, <1>4, NextLoopKeeps DEF Deciding

LEMMA CheckReloadDecides ==
    ASSUME IInv, NEW p \in Procs, CheckReload(p)
    PROVE  DecidesSoundly(p)
<1> DEFINE m    == Memory(p)
           a    == action[p]
           x(u) == Decide(m, a, "start", {u})
           y(u) == IF MayStart(Settings(top[p], u)) THEN x(u) ELSE m
           d(u) == IF run[u] # None THEN m ELSE DropReload(y(u), a, u)
<1>1. PICK u \in todo[p] : Decided(p, u, d(u))
  BY DEF CheckReload
<1>2. pc[p] = "checkReload" /\ pc[p] \in Deciding
  BY DEF CheckReload, At, Deciding
<1>3. u \in Units /\ a \in Actions
  BY <1>2, DecidingFacts
<1>4. m \in Decisions /\ Sound(m, a) /\ Grows(m, m)
  BY <1>2, DecidingFacts DEF Grows, Decisions, ListFiles, Lists
<1>5. x(u) \in Decisions /\ Sound(x(u), a) /\ Grows(m, x(u))
  BY <1>3, <1>4, DecideSound DEF Lists
<1>6. y(u) \in Decisions /\ Sound(y(u), a) /\ Grows(m, y(u))
  BY <1>4, <1>5
<1>7. LET e == DropReload(y(u), a, u)
      IN  e \in Decisions /\ Sound(e, a) /\ Grows(y(u), e)
  <2> HIDE DEF y, m, a
  <2> QED
    BY <1>3, <1>6, DropReloadSound
<1>8. Grows(m, DropReload(y(u), a, u))
  <2> HIDE DEF y, m, a
  <2> QED
    BY <1>4, <1>6, <1>7, GrowsTransitive
<1>9. d(u) \in Decisions /\ Sound(d(u), a) /\ Grows(m, d(u))
  BY <1>4, <1>7, <1>8
<1>10. UNCHANGED <<sys, actReq, lock, pc, action, top, active, res, owed, late, budget>>
  BY DEF CheckReload
<1> HIDE DEF d
<1> QED
  BY <1>1, <1>2, <1>3, <1>9, <1>10 DEF DecidesSoundly

LEMMA DryReloadDecides ==
    ASSUME IInv, NEW p \in Procs, DryReload(p)
    PROVE  DecidesSoundly(p)
<1> DEFINE d(u) == IF u \in active[p] \ (plan[p].restart \cup plan[p].stop)
                   THEN Decide(Memory(p), action[p], "reload", {u})
                   ELSE Memory(p)
<1>1. PICK u \in todo[p] : Decided(p, u, d(u))
  BY DEF DryReload
<1>2. pc[p] = "dryReload" /\ pc[p] \in Deciding \cup Dry
  BY DEF DryReload, At, Dry
<1>3. u \in Units
  BY <1>2, DecidingFacts
<1>4. d(u) \in Decisions /\ Sound(d(u), action[p]) /\ Grows(Memory(p), d(u))
  BY <1>2, <1>3, DecidingFacts, ReloadAskedSound
<1>5. UNCHANGED <<sys, actReq, lock, pc, action, top, active, res, owed, late, budget>>
  BY DEF DryReload
<1> HIDE DEF d
<1> QED
  BY <1>1, <1>2, <1>3, <1>4, <1>5 DEF DecidesSoundly

\* What p knows once it has decided: the files and its memory agree.
LEMMA ReloadsCheckedPreserves ==
    ASSUME IInv, NEW p \in Procs, ReloadsChecked(p)
    PROVE  IInv'
<1> DEFINE where == IF plan[p]["reload"] # {} THEN "reload"
                    ELSE IF plan[p]["restart"] # {} THEN "restart" ELSE "start"
<1>1. pc[p] = "checkReload" /\ Running(p) /\ Goto(p, where) /\ where \in Pcs
  BY DEF ReloadsChecked, At, Running, Pcs
<1>2. UNCHANGED <<sys, lists, actReq, lock, locals, res, history, budget>>
  BY DEF ReloadsChecked
<1>3. TypeOK'
  BY <1>1, <1>2 DEF Goto, IInv, TypeOK, sys, locals, history, budget
<1>4. StopsAreRecoverable'
  BY <1>2 DEF IInv, StopsAreRecoverable, Listed, history
<1>5. /\ Listed("start") = plan[p]["start"]
      /\ plan[p]["reload"] \subseteq Listed("reload")
      /\ Listed("restart") \subseteq plan[p]["restart"]
  <2>1. Sound(Memory(p), action[p]) /\ action[p] # "dry-activate"
    BY <1>1 DEF IInv, ProcInv, Deciding
  <2>2. plan[p] \in [Sets -> SUBSET Units]
    BY DEF IInv, TypeOK
  <2> QED
    BY <2>1, <2>2 DEF Sound, InMemory, OnDisk, Memory, Listed, Sets, Lists
<1>6. ProcInv(p)'
  <2>1. ProcInv(p) /\ pc'[p] = where
    BY <1>1 DEF IInv, TypeOK, Goto
  <2>2. /\ plan' = plan /\ action' = action /\ lock' = lock
        /\ \A f \in Lists : Listed(f)' = Listed(f)
    BY <1>2 DEF locals, Listed
  <2> QED
    BY <1>1, <1>5, <2>1, <2>2 DEF ProcInv, Running, Deciding, After, Done, Dry, Lists
<1> QED
  BY <1>1, <1>3, <1>4, <1>6, AloneKeeps

\* systemctl reload, restart and start, whatever part of their work is done.
LEMMA SystemctlTypes ==
    ASSUME IInv, NEW S, NEW broken
    PROVE  /\ Reloaded(S) \in [Units -> Configs \cup {None}]
           /\ Restarted(S, broken) \in [Units -> Configs \cup {None}]
           /\ Started(S, broken) \in [Units -> Configs \cup {None}]
<1>1. loaded \in Configs /\ run \in [Units -> Configs \cup {None}]
  BY DEF IInv, TypeOK
<1> QED
  BY <1>1 DEF Reloaded, Restarted, Started

\* The units they are about.
LEMMA SystemctlUnits ==
    ASSUME NEW S \in SUBSET Units
    PROVE  Known(S) \subseteq Units /\ ToStart(S) \subseteq Units
<1>1. UNION {Wants[v] : v \in S} \subseteq Units
  BY ConstantTypes
<1> QED
  BY <1>1 DEF Known, ToStart

LEMMA ReloadUnitsPreserves ==
    ASSUME IInv, NEW p \in Procs, ReloadUnits(p)
    PROVE  IInv'
<1>1. /\ pc[p] = "reload" /\ Running(p)
      /\ Goto(p, "unlinkReload") /\ "unlinkReload" \in Pcs
  BY DEF ReloadUnits, At, Running, Pcs
<1>a. PICK broken \in SUBSET plan[p]["reload"] :
        /\ Refreshed(plan[p]["reload"], broken)
        /\ res' = CallStatus(p, plan[p]["reload"], broken)
  BY DEF ReloadUnits, Broken
<1>2. /\ run' \in [Units -> Configs \cup {None}]
      /\ missed' \in SUBSET Units
  <2>1. plan[p]["reload"] \subseteq Units
    BY DEF IInv, TypeOK, Sets, Lists
  <2>2. run' \in [Units -> Configs \cup {None}]
    BY <1>a, SystemctlTypes DEF Refreshed
  <2> QED
    BY <1>a, <2>1, <2>2 DEF Refreshed, StillMissed, IInv, TypeOK
<1>3. res' \in [Procs -> {0, 1, 2, 3, 4, 100}]
  BY <1>a DEF CallStatus, Set, IInv, TypeOK
<1>4. UNCHANGED <<failed, loaded, etc, current, bootDef, lists, actReq, lock,
                  locals, owed, late, budget>>
  BY <1>a DEF ReloadUnits, Refreshed
<1>5. TypeOK'
  BY <1>1, <1>2, <1>3, <1>4 DEF Goto, IInv, TypeOK, locals, history, budget
<1>6. StopsAreRecoverable'
  BY <1>4 DEF IInv, StopsAreRecoverable, Listed, history
<1>7. ProcInv(p)'
  BY <1>1, <1>4 DEF IInv, TypeOK, Goto, ProcInv, Running, Deciding, After, Done, Dry,
     Listed, locals
<1> QED
  BY <1>1, <1>5, <1>6, <1>7, AloneKeeps

LEMMA RestartUnitsPreserves ==
    ASSUME IInv, NEW p \in Procs, RestartUnits(p)
    PROVE  IInv'
<1>1. /\ pc[p] = "restart" /\ Running(p)
      /\ Goto(p, "unlinkRestart") /\ "unlinkRestart" \in Pcs
  BY DEF RestartUnits, At, Running, Pcs
<1>a. PICK broken \in SUBSET Known(plan[p]["restart"]) :
        /\ Replaced(plan[p]["restart"], broken)
        /\ res' = CallStatus(p, plan[p]["restart"], broken)
  BY DEF RestartUnits, Broken
<1>2. /\ run' \in [Units -> Configs \cup {None}]
      /\ failed' \in SUBSET Units /\ missed' \in SUBSET Units
  <2>1. plan[p]["restart"] \in SUBSET Units
    BY DEF IInv, TypeOK, Sets, Lists
  <2>2. Known(plan[p]["restart"]) \subseteq Units
    BY <2>1, SystemctlUnits
  <2>3. run' \in [Units -> Configs \cup {None}]
    BY <1>a, SystemctlTypes DEF Replaced
  <2> QED
    BY <1>a, <2>2, <2>3 DEF Replaced, StillMissed, IInv, TypeOK
<1>3. res' \in [Procs -> {0, 1, 2, 3, 4, 100}]
  BY <1>a DEF CallStatus, Set, IInv, TypeOK
<1>4. UNCHANGED <<loaded, etc, current, bootDef, lists, actReq, lock, locals,
                  owed, late, budget>>
  BY <1>a DEF RestartUnits, Replaced
<1>5. TypeOK'
  BY <1>1, <1>2, <1>3, <1>4 DEF Goto, IInv, TypeOK, locals, history, budget
<1>6. StopsAreRecoverable'
  BY <1>4 DEF IInv, StopsAreRecoverable, Listed, history
<1>7. ProcInv(p)'
  BY <1>1, <1>4 DEF IInv, TypeOK, Goto, ProcInv, Running, Deciding, After, Done, Dry,
     Listed, locals
<1> QED
  BY <1>1, <1>5, <1>6, <1>7, AloneKeeps

\* What unlinking a list file does to the lists.
LEMMA UnlinkedTypes ==
    ASSUME IInv, NEW f \in Lists, lists' = Unlinked(f)
    PROVE  /\ lists' \in [Lists -> [Units -> Nat]]
           /\ Listed(f)' = {}
           /\ \A g \in Lists : g # f => Listed(g)' = Listed(g)
BY DEF Unlinked, Listed, IInv, TypeOK

LEMMA UnlinkReloadPreserves ==
    ASSUME IInv, NEW p \in Procs, UnlinkReload(p)
    PROVE  IInv'
<1> DEFINE where == IF plan[p]["restart"] # {} THEN "restart" ELSE "start"
<1>1. /\ pc[p] = "unlinkReload" /\ Running(p)
      /\ Goto(p, where) /\ where \in Pcs
  BY DEF UnlinkReload, At, Running, Pcs
<1>2. /\ lists' \in [Lists -> [Units -> Nat]]
      /\ \A g \in Lists : g # "reload" => Listed(g)' = Listed(g)
  BY UnlinkedTypes DEF UnlinkReload, Lists
<1>3. UNCHANGED <<sys, actReq, lock, locals, res, owed, late, budget>>
  BY DEF UnlinkReload
<1>7. missed' \in SUBSET Units
  BY DEF UnlinkReload, Listed, IInv, TypeOK
<1>4. TypeOK'
  BY <1>1, <1>2, <1>3, <1>7 DEF Goto, IInv, TypeOK, sys, locals, budget
<1>5. StopsAreRecoverable'
  BY <1>2, <1>3 DEF IInv, StopsAreRecoverable, Lists
<1>6. ProcInv(p)'
  <2>1. ProcInv(p) /\ pc'[p] = where
    BY <1>1 DEF IInv, TypeOK, Goto
  <2> QED
    BY <1>1, <1>2, <1>3, <2>1 DEF ProcInv, Running, Deciding, After, Done, Dry, Lists,
       locals
<1> QED
  BY <1>1, <1>4, <1>5, <1>6, AloneKeeps

LEMMA UnlinkRestartPreserves ==
    ASSUME IInv, NEW p \in Procs, UnlinkRestart(p)
    PROVE  IInv'
<1>1. /\ pc[p] = "unlinkRestart" /\ Running(p)
      /\ Goto(p, "start") /\ "start" \in Pcs
  BY DEF UnlinkRestart, At, Running, Pcs
<1>2. /\ lists' \in [Lists -> [Units -> Nat]]
      /\ Listed("restart")' = {}
      /\ Listed("start")' = Listed("start")
  BY UnlinkedTypes DEF UnlinkRestart, Lists
<1>3. UNCHANGED <<sys, actReq, lock, locals, res, history, budget>>
  BY DEF UnlinkRestart
<1>4. TypeOK'
  BY <1>1, <1>2, <1>3 DEF Goto, IInv, TypeOK, sys, locals, history, budget
<1>5. StopsAreRecoverable'
  BY <1>2, <1>3 DEF IInv, StopsAreRecoverable, history
<1>6. ProcInv(p)'
  <2>1. ProcInv(p) /\ pc'[p] = "start"
    BY <1>1 DEF IInv, TypeOK, Goto
  <2> QED
    BY <1>1, <1>2, <1>3, <2>1 DEF ProcInv, Running, Deciding, After, Done, Dry, locals
<1> QED
  BY <1>1, <1>4, <1>5, <1>6, AloneKeeps

\* Whatever is owed is covered by what is started: nothing is owed after it.
LEMMA StartUnitsPreserves ==
    ASSUME IInv, NEW p \in Procs, StartUnits(p)
    PROVE  IInv'
<1>1. /\ pc[p] = "start" /\ Running(p)
      /\ Goto(p, "unlinkStart") /\ "unlinkStart" \in Pcs
  BY DEF StartUnits, At, Running, Pcs
<1>2. PICK broken \in SUBSET ToStart(plan[p]["start"]) :
        /\ BroughtUp(plan[p]["start"], broken)
        /\ res' = CallStatus(p, plan[p]["start"], broken)
  BY DEF StartUnits, Broken
<1>3. /\ run' \in [Units -> Configs \cup {None}]
      /\ failed' \in SUBSET Units /\ missed' \in SUBSET Units
  <2>1. plan[p]["start"] \in SUBSET Units
    BY DEF IInv, TypeOK, Sets, Lists
  <2>2. ToStart(plan[p]["start"]) \subseteq Units
    BY <2>1, SystemctlUnits
  <2>3. run' \in [Units -> Configs \cup {None}]
    BY <1>2, SystemctlTypes DEF BroughtUp
  <2> QED
    BY <1>2, <2>2, <2>3 DEF BroughtUp, StillMissed, IInv, TypeOK
<1>4. res' \in [Procs -> {0, 1, 2, 3, 4, 100}]
  BY <1>2 DEF CallStatus, Set, IInv, TypeOK
<1>5. UNCHANGED <<loaded, etc, current, bootDef, lists, actReq, lock, locals,
                  late, budget>>
  BY <1>2 DEF StartUnits, BroughtUp
<1>6. owed' = {}
  <2>1. ProcInv(p)
    BY DEF IInv
  <2>2. Listed("start") = plan[p]["start"]
    BY <1>1, <2>1 DEF ProcInv, After
  <2> QED
    BY <1>2, <2>2 DEF BroughtUp, IInv, StopsAreRecoverable
<1>b. res'[p] = 0 => plan[p]["start"] \subseteq Up'
  <2>1. ASSUME res'[p] = 0, NEW u \in plan[p]["start"] PROVE run'[u] # None
    <3>1. /\ plan[p]["start"] \cap broken = {}
          /\ plan[p]["start"] = Known(plan[p]["start"])
      BY <1>2, <2>1 DEF CallStatus, Set, IInv, TypeOK
    <3>2. u \in Units /\ loaded # None /\ u \notin broken
      BY <3>1, ConstantTypes DEF IInv, TypeOK, Sets, Lists
    <3>3. run[u] # None \/ u \in ToStart(plan[p]["start"])
      BY <3>1, <3>2 DEF ToStart, Known
    <3>4. run' = Started(plan[p]["start"], broken)
      BY <1>2 DEF BroughtUp
    <3> QED
      BY <3>2, <3>3, <3>4 DEF Started
  <2>2. plan[p]["start"] \subseteq Units
    BY DEF IInv, TypeOK, Sets, Lists
  <2> QED
    BY <2>1, <2>2 DEF Up
<1>7. TypeOK'
  BY <1>1, <1>3, <1>4, <1>5, <1>6 DEF Goto, IInv, TypeOK, locals, history, budget
<1>8. StopsAreRecoverable'
  BY <1>6 DEF StopsAreRecoverable
<1>9. ProcInv(p)'
  <2>1. ProcInv(p) /\ pc'[p] = "unlinkStart"
    BY <1>1 DEF IInv, TypeOK, Goto
  <2> QED
    BY <1>1, <1>5, <1>6, <1>b, <2>1 DEF ProcInv, Running, Deciding, After, Done, Dry, Listed,
       locals
<1> QED
  BY <1>1, <1>7, <1>8, <1>9, AloneKeeps

LEMMA UnlinkStartPreserves ==
    ASSUME IInv, NEW p \in Procs, UnlinkStart(p)
    PROVE  IInv'
<1>1. /\ pc[p] = "unlinkStart" /\ Running(p)
      /\ Goto(p, "listFailed") /\ "listFailed" \in Pcs
  BY DEF UnlinkStart, At, Running, Pcs
<1>2. /\ lists' \in [Lists -> [Units -> Nat]]
      /\ Listed("start")' = {}
      /\ Listed("restart")' = Listed("restart")
  BY UnlinkedTypes DEF UnlinkStart, Lists
<1>3. UNCHANGED <<sys, actReq, lock, locals, res, history, budget>>
  BY DEF UnlinkStart
<1>4. TypeOK'
  BY <1>1, <1>2, <1>3 DEF Goto, IInv, TypeOK, sys, locals, history, budget
<1>5. ProcInv(p) /\ pc'[p] = "listFailed" /\ Up' = Up
  BY <1>1, <1>3 DEF IInv, TypeOK, Goto, Up, sys
<1>6. StopsAreRecoverable'
  BY <1>1, <1>3, <1>5 DEF ProcInv, StopsAreRecoverable, history, Done
<1>7. ProcInv(p)'
  BY <1>1, <1>2, <1>3, <1>5 DEF ProcInv, Running, Deciding, After, Done, Dry, locals,
     history
<1> QED
  BY <1>1, <1>4, <1>6, <1>7, AloneKeeps

LEMMA ListFailedPreserves ==
    ASSUME IInv, NEW p \in Procs, ListFailed(p)
    PROVE  IInv'
<1>1. /\ pc[p] = "listFailed" /\ Running(p)
      /\ Goto(p, "done") /\ "done" \in Pcs
  BY DEF ListFailed, At, Running, Pcs
<1>2. /\ res' \in [Procs -> {0, 1, 2, 3, 4, 100}]
      /\ res'[p] = 0 => res[p] = 0
  BY DEF ListFailed, Set, IInv, TypeOK
<1>3. UNCHANGED <<sys, lists, actReq, lock, locals, history, budget>>
  BY DEF ListFailed
<1>4. TypeOK'
  BY <1>1, <1>2, <1>3 DEF Goto, IInv, TypeOK, sys, locals, history, budget
<1>5. ProcInv(p) /\ pc'[p] = "done" /\ Up' = Up
  BY <1>1, <1>3 DEF IInv, TypeOK, Goto, Up, sys
<1>6. StopsAreRecoverable'
  BY <1>3 DEF IInv, StopsAreRecoverable, Listed, history
<1>7. ProcInv(p)'
  BY <1>1, <1>2, <1>3, <1>5 DEF ProcInv, Running, Deciding, After, Done, Dry,
     Listed, locals, history
<1> QED
  BY <1>1, <1>4, <1>6, <1>7, AloneKeeps

-----------------------------------------------------------------------------
(* Interruptions and the environment.                                      *)

\* Whatever part of a call's effect a killed run leaves behind, the start-list
\* covers what it stopped.
LEMMA PartialEffectCovered ==
    ASSUME IInv, NEW p \in Procs, PartialEffect(p), UNCHANGED lists
    PROVE  /\ failed' \in SUBSET Units
           /\ late' \in SUBSET Units /\ missed' \in SUBSET Units
           /\ run' \in [Units -> Configs \cup {None}]
           /\ loaded' \in Configs /\ etc' \in Configs
           /\ current' \in Configs /\ bootDef' \in Configs
           /\ actReq' \in Asked
           /\ owed' \in SUBSET SUBSET Units
           /\ \A d \in owed' : d \cap Listed("start") # {}
<1>1. CASE At(p, "stop")
  <2>1. \E S \in SUBSET plan[p].stop : TakenDown(p, S) /\ UNCHANGED actReq
    BY <1>1 DEF PartialEffect, At
  <2>2. PICK S \in SUBSET plan[p].stop : TakenDown(p, S) /\ UNCHANGED actReq
    BY <2>1
  <2>3. S \in SUBSET plan[p]["stop"] /\ pc[p] = "stop"
    BY <1>1 DEF At
  <2>4. /\ missed' \in SUBSET Units
        /\ run' \in [Units -> Configs \cup {None}]
        /\ owed' \in SUBSET SUBSET Units
        /\ \A d \in owed' : d \cap Listed("start") # {}
    BY <2>2, <2>3, TakenDownCovered
  <2>5. UNCHANGED <<failed, loaded, etc, current, bootDef, actReq, late>>
    BY <2>2 DEF TakenDown
  <2> QED
    BY <2>4, <2>5 DEF IInv, TypeOK, Asked
<1>2. CASE At(p, "activate")
  <2>1. PICK r \in Requests :
          actReq' = [actReq EXCEPT !.restart = @ \cup r.restart,
                                   !.reload  = @ \cup r.reload]
    BY <1>2 DEF PartialEffect, At
  <2>2. /\ etc' \in {etc, top[p]}
        /\ UNCHANGED <<run, failed, loaded, current, bootDef, history>>
    BY <1>2 DEF PartialEffect, At
  <2>3. actReq' \in Asked
    BY <2>1, ConstantTypes DEF IInv, TypeOK, Asked
  <2> QED
    BY <2>2, <2>3 DEF IInv, TypeOK, StopsAreRecoverable, history
<1>3. CASE At(p, "restart")
  <2>1. PICK S \in SUBSET plan[p].restart :
          /\ \E broken \in SUBSET Known(S) : Replaced(S, broken)
          /\ UNCHANGED actReq
    BY <1>3 DEF PartialEffect, At, Broken
  <2>2. PICK broken \in SUBSET Known(S) : Replaced(S, broken)
    BY <2>1
  <2>3. S \in SUBSET Units
    BY DEF IInv, TypeOK, Sets, Lists
  <2>4. /\ run' = Restarted(S, broken)
        /\ failed' = (failed \ Known(S)) \cup broken /\ missed' \subseteq missed
        /\ UNCHANGED <<loaded, etc, current, bootDef, owed, late>>
    BY <2>2 DEF Replaced, StillMissed
  <2>5. run' \in [Units -> Configs \cup {None}]
    BY <2>4, SystemctlTypes
  <2>6. failed' \in SUBSET Units
    BY <2>2, <2>3, <2>4, SystemctlUnits DEF IInv, TypeOK
  <2> QED
    BY <2>1, <2>4, <2>5, <2>6 DEF IInv, TypeOK, StopsAreRecoverable, Asked
<1>4. CASE At(p, "start")
  <2>1. PICK S \in SUBSET plan[p].start :
          /\ \E broken \in SUBSET ToStart(S) : BroughtUp(S, broken)
          /\ UNCHANGED actReq
    BY <1>4 DEF PartialEffect, At, Broken
  <2>2. PICK broken \in SUBSET ToStart(S) : BroughtUp(S, broken)
    BY <2>1
  <2>3. S \in SUBSET Units
    BY DEF IInv, TypeOK, Sets, Lists
  <2>4. /\ run' = Started(S, broken) /\ owed' \subseteq owed
        /\ failed' = (failed \ ToStart(S)) \cup broken
        /\ missed' \subseteq missed
        /\ UNCHANGED <<loaded, etc, current, bootDef, late>>
    BY <2>2 DEF BroughtUp, StillMissed
  <2>5. run' \in [Units -> Configs \cup {None}]
    BY <2>4, SystemctlTypes
  <2>6. failed' \in SUBSET Units
    BY <2>2, <2>3, <2>4, SystemctlUnits DEF IInv, TypeOK
  <2> QED
    BY <2>1, <2>4, <2>5, <2>6 DEF IInv, TypeOK, StopsAreRecoverable, Asked
<1>5. CASE At(p, "reload")
  <2>1. PICK S \in SUBSET plan[p].reload : Refreshed(S, {}) /\ UNCHANGED actReq
    BY <1>5 DEF PartialEffect, At
  <2>2. S \in SUBSET Units /\ S \ {} = S
    BY DEF IInv, TypeOK, Sets, Lists
  <2>3. /\ run' = Reloaded(S) /\ missed' \subseteq missed
        /\ UNCHANGED <<failed, loaded, etc, current, bootDef, owed, late>>
    BY <2>1, <2>2 DEF Refreshed, StillMissed
  <2>4. run' \in [Units -> Configs \cup {None}]
    BY <2>2, <2>3, SystemctlTypes
  <2> QED
    BY <2>1, <2>3, <2>4 DEF IInv, TypeOK, StopsAreRecoverable, Asked
<1>6. CASE pc[p] \notin {"stop", "activate", "reload", "restart", "start"}
  <2>1. UNCHANGED <<sys, actReq, history>>
    BY <1>6 DEF PartialEffect, At
  <2> QED
    BY <2>1 DEF sys, history, IInv, TypeOK, StopsAreRecoverable, Asked
<1> QED
  BY <1>1, <1>2, <1>3, <1>4, <1>5, <1>6 DEF At

LEMMA KillPreserves ==
    ASSUME IInv, NEW p \in Procs, Kill(p)
    PROVE  IInv'
<1>1. Gone(p) /\ Running(p) /\ PartialEffect(p)
  BY DEF Kill, Running
<1>2. UNCHANGED <<lists, runs, res>>
  BY DEF Kill
<1>3. kills' \in 0..MaxKills
  BY ConstantTypes DEF Kill, IInv, TypeOK
<1>4. /\ failed' \in SUBSET Units
      /\ late' \in SUBSET Units /\ missed' \in SUBSET Units
      /\ run' \in [Units -> Configs \cup {None}]
      /\ loaded' \in Configs /\ etc' \in Configs
      /\ current' \in Configs /\ bootDef' \in Configs
      /\ actReq' \in Asked
      /\ owed' \in SUBSET SUBSET Units
      /\ \A d \in owed' : d \cap Listed("start") # {}
  BY <1>1, <1>2, PartialEffectCovered
<1> QED
  BY <1>1, <1>2, <1>3, <1>4, GoneKeeps DEF IInv, TypeOK

LEMMA RebootPreserves ==
    ASSUME IInv, Reboot
    PROVE  IInv'
<1>1. TypeOK'
  <2>1. /\ lists' \in [Lists -> [Units -> Nat]]
        /\ plan' \in [Procs -> [Sets -> SUBSET Units]]
        /\ run' \in [Units -> Configs \cup {None}]
    BY DEF Reboot, IInv, TypeOK, Empty, NoPlan, BootedUnits
  <2>2. /\ pc' \in [Procs -> Pcs] /\ action' \in [Procs -> Actions]
        /\ top' \in [Procs -> Configs] /\ active' \in [Procs -> SUBSET Units]
        /\ todo' \in [Procs -> SUBSET Units]
    BY ConstantTypes DEF Reboot, Pcs, Actions
  <2>3. kills' \in 0..MaxKills
    BY ConstantTypes DEF Reboot, IInv, TypeOK
  <2> QED
    BY <2>1, <2>2, <2>3 DEF Reboot, IInv, TypeOK, NoneListed
<1>2. StopsAreRecoverable'
  BY DEF Reboot, StopsAreRecoverable
<1>3. \A p \in Procs : ProcInv(p)'
  BY DEF Reboot, ProcInv, Running, Deciding, After, Done, Dry
<1> QED
  BY <1>1, <1>2, <1>3 DEF IInv

LEMMA SocketActivationPreserves ==
    ASSUME IInv, SocketActivation
    PROVE  IInv'
<1>1. TypeOK'
  <2>1. /\ run' \in [Units -> Configs \cup {None}]
        /\ failed' \in SUBSET Units /\ late' \in SUBSET Units
    BY DEF SocketActivation, IInv, TypeOK
  <2>2. UNCHANGED <<loaded, etc, current, bootDef, lists, actReq, lock, pc,
                    locals, res, owed, missed, budget>>
    BY DEF SocketActivation
  <2> QED
    BY <2>1, <2>2 DEF IInv, TypeOK, locals, budget
<1>2. UNCHANGED <<lists, lock, pc, locals, res, owed>> /\ Up \subseteq Up'
  BY ConstantTypes DEF SocketActivation, Up, IInv, TypeOK
<1>3. StopsAreRecoverable'
  BY <1>2 DEF IInv, StopsAreRecoverable, Listed, history
<1>4. ASSUME NEW p \in Procs PROVE ProcInv(p)'
  <2>1. ProcInv(p)
    BY DEF IInv
  <2> QED
    BY <1>2, <2>1 DEF ProcInv, Running, Memory, StopsCovered, Sound, InMemory,
       OnDisk, Listed, locals
<1> QED
  BY <1>1, <1>3, <1>4 DEF IInv

\* Every step of the script keeps the inductive invariant.
LEMMA StepPreserves ==
    ASSUME IInv, NEW p \in Procs, Step(p)
    PROVE  IInv'
BY DecidedKeeps, LockPreserves, InstallBootLoaderPreserves, CheckInitInterfacePreserves,
   ReadListsPreserves, ExamineUnitDecides, UnitsExaminedPreserves,
   ExamineMountDecides, MountsExaminedPreserves, DryActivatePreserves,
   DryRestartDecides, DryRestartsSeenPreserves, DryReloadDecides,
   DryFinishPreserves,
   StopUnitsPreserves, ActivatePreserves, PropagateRestartDecides,
   RestartsPropagatedPreserves, PropagateReloadDecides,
   ReloadsPropagatedPreserves, ReloadDaemonPreserves, CheckReloadDecides,
   ReloadsCheckedPreserves, ReloadUnitsPreserves, UnlinkReloadPreserves,
   RestartUnitsPreserves, UnlinkRestartPreserves, StartUnitsPreserves,
   UnlinkStartPreserves, ListFailedPreserves, FinishPreserves DEF Step

LEMMA StutterPreserves ==
    ASSUME IInv, UNCHANGED vars
    PROVE  IInv'
BY DEF IInv, TypeOK, StopsAreRecoverable, ProcInv, Running, Memory, Listed,
   StopsCovered, Sound, InMemory, OnDisk, vars, sys, history, Up

LEMMA NextPreserves == IInv /\ [Next]_vars => IInv'
<1> SUFFICES ASSUME IInv, [Next]_vars PROVE IInv'
  OBVIOUS
<1>1. CASE \E p \in Procs : Invoke(p) \/ Step(p) \/ Kill(p)
  BY <1>1, InvokePreserves, StepPreserves, KillPreserves
<1>2. CASE Reboot
  BY <1>2, RebootPreserves
<1>3. CASE SocketActivation
  BY <1>3, SocketActivationPreserves
<1>4. CASE UNCHANGED vars
  BY <1>4, StutterPreserves
<1> QED
  BY <1>1, <1>2, <1>3, <1>4 DEF Next

-----------------------------------------------------------------------------
(* The theorems.                                                           *)

\* The inductive invariant holds of every behaviour, whatever the number of
\* invocations, kills and reboots and whichever commands fail.
THEOREM Invariance == Spec => []IInv
<1>1. Init => IInv
  BY InitEstablishes
<1>2. IInv /\ [Next]_vars => IInv'
  BY NextPreserves
<1> QED
  BY <1>1, <1>2, PTL DEF Spec

\* Every variable of the script and of the system keeps its type (the list
\* files count lines, the plan names units, the exit status is one the script
\* uses).
THEOREM TypeCorrect == Spec => []TypeOK
<1>1. IInv => TypeOK
  BY DEF IInv
<1> QED
  BY <1>1, Invariance, PTL

\* flock serialises the runs: two of them are never past the lock at once.
THEOREM RunsAreSerialised == Spec => []MutualExclusion
<1>1. IInv => MutualExclusion
  BY DEF IInv, ProcInv, MutualExclusion
<1> QED
  BY <1>1, Invariance, PTL

\* "To be robust against interruption": in every reachable state, whatever was
\* stopped to be started again is in start-list, itself or through a socket.
THEOREM InterruptionIsRecoverable == Spec => []StopsAreRecoverable
<1>1. IInv => StopsAreRecoverable
  BY DEF IInv
<1> QED
  BY <1>1, Invariance, PTL

\* No decision to start or reload is only in the memory of a run that acts.
THEOREM DecisionsAreRecorded == Spec => []DecisionsRecorded
<1>1. ASSUME IInv, NEW p \in Procs, action[p] # "dry-activate"
      PROVE  /\ pc[p] \in Deciding \cup {"reload", "unlinkReload", "restart",
                                         "unlinkRestart", "start"}
                   => plan[p].start \subseteq Listed("start")
             /\ pc[p] \in Deciding \cup {"reload"}
                   => plan[p].reload \subseteq Listed("reload")
  <2>1. ProcInv(p) /\ plan[p] \in [Sets -> SUBSET Units]
    BY <1>1 DEF IInv, TypeOK
  <2>2. CASE pc[p] \in Deciding
    <3>1. Sound(Memory(p), action[p])
      BY <2>1, <2>2 DEF ProcInv
    <3> QED
      BY <1>1, <2>1, <2>2, <3>1 DEF Sound, OnDisk, Memory, Listed, Sets, Lists,
         Deciding
  <2>3. CASE pc[p] \in After
    BY <2>1, <2>3 DEF ProcInv, After, Deciding
  <2> QED
    BY <2>2, <2>3 DEF After
<1>2. IInv => DecisionsRecorded
  BY <1>1 DEF DecisionsRecorded
<1> QED
  BY <1>2, Invariance, PTL

\* A run that gets to its end owes nothing and leaves nothing to start or
\* restart for the next one.
THEOREM CompletedRunsOweNothing == Spec => []NothingLeftBehind
<1>1. IInv => NothingLeftBehind
  BY DEF IInv, ProcInv, NothingLeftBehind, At, Done
<1> QED
  BY <1>1, Invariance, PTL

-----------------------------------------------------------------------------
(* The script implements the write-ahead journal.                          *)

JournalStep == [Journal!Next]_(Journal!vars)

\* A step that leaves the lists and the debts alone stutters.
LEMMA QuietStutters ==
    ASSUME UNCHANGED <<lists, owed>>
    PROVE  JournalStep
BY DEF JournalStep, Journal!vars, Listed

\* A step that unlinks another list file stutters.
LEMMA OtherUnlinkStutters ==
    ASSUME IInv, NEW f \in Lists \ {"start"}, lists' = Unlinked(f),
           UNCHANGED owed
    PROVE  JournalStep
BY UnlinkedTypes DEF JournalStep, Journal!vars, Lists

\* A sound decision promises something or stutters.
LEMMA DecisionPromises ==
    ASSUME IInv, NEW p \in Procs, DecidesSoundly(p)
    PROVE  JournalStep
<1>1. PICK u \in Units, d \in Decisions : Grows(Memory(p), d) /\ Decided(p, u, d)
  BY DEF DecidesSoundly
<1>2. \A v \in Units : v \in Listed("start") => v \in Listed("start")'
  BY <1>1 DEF Decided, Grows, Memory, Listed, Decisions, ListFiles, Lists, IInv,
     TypeOK
<1>3. Listed("start") \subseteq Units /\ Listed("start")' \in SUBSET Units
  BY DEF Listed
<1>4. Journal!Promise(Listed("start")')
  BY <1>2, <1>3 DEF Journal!Promise, DecidesSoundly
<1> QED
  BY <1>3, <1>4 DEF JournalStep, Journal!Next

\* Stopping some of the units to be stopped takes down covered units only.
LEMMA TakenDownIsCovered ==
    ASSUME IInv, NEW p \in Procs, pc[p] = "stop",
           NEW S \in SUBSET plan[p]["stop"], TakenDown(p, S), UNCHANGED lists
    PROVE  JournalStep
<1> DEFINE T == {u \in S : run[u] # None /\ Exists(top[p], u)}
           D == {Covers(top[p], u) : u \in T}
<1>1. plan[p] \in [Sets -> SUBSET Units]
  BY DEF IInv, TypeOK
<1>2. D \in SUBSET SUBSET Units
  <2>1. T \in SUBSET Units
    BY <1>1 DEF Sets
  <2>2. \A u \in T : Covers(top[p], u) \subseteq Units
    BY <2>1, ConstantTypes DEF Covers, IInv, TypeOK
  <2> QED
    BY <2>2
<1>3. /\ Memory(p).plan = plan[p] /\ Memory(p).lists = lists
  BY DEF Memory
<1>4. /\ pc[p] \in Deciding /\ action[p] # "dry-activate"
      /\ Sound(Memory(p), action[p]) /\ StopsCovered(Memory(p), top[p])
  BY DEF IInv, ProcInv, Deciding
<1>5. plan[p]["start"] \subseteq Listed("start")
  BY <1>1, <1>3, <1>4 DEF Sound, OnDisk, Listed, Sets, Lists
<1>6. \A d \in D : d \cap Listed("start") # {}
  BY <1>3, <1>4, <1>5 DEF StopsCovered
<1>7. owed' = owed \cup D /\ UNCHANGED Listed("start")
  BY DEF TakenDown, Listed
<1>8. Journal!TakeDown(D)
  <2> HIDE DEF D
  <2> QED
    BY <1>6, <1>7 DEF Journal!TakeDown
<1> QED
  BY <1>2, <1>8 DEF JournalStep, Journal!Next

\* Starting some of the units that are listed keeps a promise.
LEMMA BroughtUpIsPromised ==
    ASSUME IInv, NEW p \in Procs, pc[p] = "start",
           NEW S \in SUBSET plan[p]["start"], NEW broken, BroughtUp(S, broken),
           UNCHANGED lists
    PROVE  JournalStep
<1>1. ProcInv(p)
  BY DEF IInv
<1>2. S \subseteq Listed("start") /\ S \in SUBSET Units
  BY <1>1 DEF ProcInv, After, Listed
<1>3. Journal!BringUp(S)
  BY <1>2 DEF Journal!BringUp, BroughtUp, Listed
<1> QED
  BY <1>2, <1>3 DEF JournalStep, Journal!Next

LEMMA ScriptImplementsJournal ==
    ASSUME IInv, NEW p \in Procs, Step(p)
    PROVE  JournalStep
<1>1. CASE \/ Lock(p) \/ InstallBootLoader(p) \/ CheckInitInterface(p)
           \/ ReadLists(p) \/ UnitsExamined(p) \/ MountsExamined(p)
           \/ DryActivate(p) \/ DryRestartsSeen(p) \/ DryFinish(p)
           \/ ListFailed(p) \/ Activate(p) \/ RestartsPropagated(p)
           \/ ReloadsPropagated(p) \/ ReloadDaemon(p) \/ ReloadsChecked(p)
           \/ ReloadUnits(p) \/ RestartUnits(p) \/ Finish(p)
  <2>1. UNCHANGED <<lists, owed>>
    BY <1>1 DEF Lock, InstallBootLoader, CheckInitInterface, ReadLists,
       UnitsExamined, MountsExamined, DryActivate, DryRestartsSeen, DryFinish,
       ListFailed, history, Activate, RestartsPropagated,
       ReloadsPropagated, ReloadDaemon, ReloadsChecked, ReloadUnits, Refreshed,
       RestartUnits, Replaced, Finish
  <2> QED
    BY <2>1, QuietStutters
<1>2. CASE \/ ExamineUnit(p) \/ ExamineMount(p) \/ PropagateRestart(p)
           \/ PropagateReload(p) \/ CheckReload(p)
           \/ DryRestart(p) \/ DryReload(p)
  BY <1>2, ExamineUnitDecides, ExamineMountDecides, PropagateRestartDecides,
     PropagateReloadDecides, CheckReloadDecides, DryRestartDecides,
     DryReloadDecides, DecisionPromises
<1>3. CASE StopUnits(p)
  <2>1. pc[p] = "stop" /\ UNCHANGED lists
    BY <1>3 DEF StopUnits, At
  <2>2. PICK S \in SUBSET plan[p]["stop"] : TakenDown(p, S)
    BY <1>3 DEF StopUnits
  <2> QED
    BY <2>1, <2>2, TakenDownIsCovered
<1>4. CASE UnlinkReload(p) \/ UnlinkRestart(p)
  BY <1>4, OtherUnlinkStutters DEF UnlinkReload, UnlinkRestart, Lists,
     history
<1>5. CASE StartUnits(p)
  <2>1. pc[p] = "start" /\ UNCHANGED lists
    BY <1>5 DEF StartUnits, At
  <2>2. PICK broken \in Broken("start", ToStart(plan[p].start)) :
          BroughtUp(plan[p].start, broken)
    BY <1>5 DEF StartUnits
  <2> QED
    BY <2>1, <2>2, BroughtUpIsPromised
<1>6. CASE UnlinkStart(p)
  <2>1. ProcInv(p) /\ pc[p] = "unlinkStart"
    BY <1>6 DEF IInv, UnlinkStart, At
  <2>2. owed = {} /\ owed' = owed /\ Listed("start")' = {}
    BY <1>6, <2>1, UnlinkedTypes DEF ProcInv, UnlinkStart, Lists,
       Done, history
  <2> QED
    BY <2>2 DEF JournalStep, Journal!Next, Journal!Forget
<1> QED
  BY <1>1, <1>2, <1>3, <1>4, <1>5, <1>6 DEF Step

LEMMA KillImplementsJournal ==
    ASSUME IInv, NEW p \in Procs, Kill(p)
    PROVE  JournalStep
<1>1. PartialEffect(p) /\ UNCHANGED lists
  BY DEF Kill
<1>2. CASE At(p, "stop")
  <2>1. PICK S \in SUBSET plan[p].stop : TakenDown(p, S)
    BY <1>1, <1>2 DEF PartialEffect, At
  <2> QED
    BY <1>1, <1>2, <2>1, TakenDownIsCovered DEF At
<1>3. CASE At(p, "start")
  <2>1. PICK S \in SUBSET plan[p].start :
          \E broken \in Broken("start", ToStart(S)) : BroughtUp(S, broken)
    BY <1>1, <1>3 DEF PartialEffect, At
  <2>2. PICK broken \in Broken("start", ToStart(S)) : BroughtUp(S, broken)
    BY <2>1
  <2> QED
    BY <1>1, <1>3, <2>2, BroughtUpIsPromised DEF At
<1>4. CASE ~At(p, "stop") /\ ~At(p, "start")
  <2>1. owed' = owed
    BY <1>1, <1>4 DEF PartialEffect, At, Refreshed, Replaced, history
  <2> QED
    BY <1>1, <2>1, QuietStutters
<1> QED
  BY <1>2, <1>3, <1>4

\* start-list is a write-ahead journal: every behaviour of the script, with
\* its kills and reboots, is one of UnitJournal.
THEOREM StartListIsAJournal == Spec => ImplementsJournal
<1>1. Init => Journal!Init
  BY DEF Init, Journal!Init, Listed, Empty, Lists
<1>2. ASSUME IInv, [Next]_vars PROVE JournalStep
  <2>1. CASE \E p \in Procs : Invoke(p)
    BY <2>1, QuietStutters DEF Invoke, history
  <2>2. CASE \E p \in Procs : Step(p)
    BY <1>2, <2>2, ScriptImplementsJournal
  <2>3. CASE \E p \in Procs : Kill(p)
    BY <1>2, <2>3, KillImplementsJournal
  <2>4. CASE Reboot
    <3>1. Listed("start")' = {} /\ owed' = {}
      BY <2>4 DEF Reboot, Listed, Empty, Lists
    <3> QED
      BY <3>1 DEF JournalStep, Journal!Next, Journal!Reboot
  <2>5. CASE SocketActivation
    BY <2>5, QuietStutters DEF SocketActivation
  <2>6. CASE UNCHANGED vars
    BY <2>6, QuietStutters DEF vars, history
  <2> QED
    BY <1>2, <2>1, <2>2, <2>3, <2>4, <2>5, <2>6 DEF Next
<1>3. IInv /\ [Next]_vars => [Journal!Next]_(Journal!vars)
  BY <1>2 DEF JournalStep
<1> QED
  BY <1>1, <1>3, Invariance, PTL DEF Spec, ImplementsJournal, Journal!Spec

=============================================================================
