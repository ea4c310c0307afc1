------------------------ MODULE SwitchToConfiguration ------------------------
(***************************************************************************)
(* switch-to-configuration.pl: moving a running NixOS system to another    *)
(* configuration.  A run of the script works out which units to stop,      *)
(* start, restart and reload, appends every decision to a list file under  *)
(* /run/nixos, and only then acts.  A run may be killed between any two    *)
(* steps; the next one reads the lists again.  Several runs may be asked   *)
(* for at once; flock serialises them.                                     *)
(*                                                                         *)
(* systemd is external: a unit is either down (None) or runs the           *)
(* definition of the configuration it was last started or reloaded from.   *)
(***************************************************************************)
EXTENDS Integers, FiniteSets

CONSTANTS
    Procs,        \* invocations of the script that may be alive at once
    Units,        \* unit names
    Configs,      \* toplevel system closures
    None,         \* "no configuration", "no definition", "no process"
    Kind,         \* Kind[u]: service, dbus, socket, mount, rootMount,
                  \* target, coreTarget, slice
    UnitDef,      \* UnitDef[c][u]: the unit file of u in c, or None
    Fstab,        \* Fstab[c][u]: the fstab entry whose mount unit is u, or None
    SocketsOf,    \* SocketsOf[c][u]: Sockets= of u in c, or else its own .socket
    StoppedWith,  \* StoppedWith[u]: units systemd stops along with u
    Wants,        \* Wants[u]: units the start of u pulls in
    InitVersion,  \* InitVersion[c]: content of c/init-interface-version
    BootDefault,  \* the configuration the machine was booted into
    Requests,     \* [restart, reload]: what an activation script may ask for
    Failing,      \* the external commands that may fail
    MaxRuns,      \* bound on invocations
    MaxKills      \* bound on kills and reboots

Kinds   == {"service", "dbus", "socket", "mount", "rootMount", "target",
            "coreTarget", "slice"}
Actions == {"switch", "boot", "test", "dry-activate"}
Lists   == {"start", "restart", "reload"}
Sets    == Lists \cup {"stop", "skip"}
Pcs     == {"idle", "lock", "bootloader", "check", "read", "examine", "fstab",
            "dry", "dryRestart", "dryReload", "stop", "activate",
            "propRestart", "propReload", "daemon", "checkReload", "reload",
            "unlinkReload", "restart", "unlinkRestart", "start", "unlinkStart",
            "listFailed", "done"}

ASSUME ConstantTypes ==
    /\ BootDefault \in Configs /\ None \notin Configs \cup Procs
    /\ Kind \in [Units -> Kinds]
    /\ SocketsOf \in [Configs -> [Units -> SUBSET Units]]
    /\ \A c \in Configs : \A u \in Units : \A s \in SocketsOf[c][u] :
          Kind[s] = "socket"
    /\ Wants \in [Units -> SUBSET Units]
    /\ \A r \in Requests : r.restart \subseteq Units /\ r.reload \subseteq Units
    /\ MaxRuns \in Nat /\ MaxKills \in Nat

\* Mount units of fstab entries are generated by systemd; they have no unit
\* file of their own in any configuration.
ASSUME FstabUnits ==
    \A c \in Configs, u \in Units : Fstab[c][u] # None =>
        /\ Kind[u] \in {"mount", "rootMount"}
        /\ \A d \in Configs : UnitDef[d][u] = None

\* Targets stopped by every reconfiguration may be started by hand.
ASSUME ReconfigurationTargets ==
    \A c \in Configs, u \in Units :
        /\ UnitDef[c][u] # None /\ Kind[u] \in {"target", "coreTarget"}
        /\ UnitDef[c][u].stopOnReconfiguration
        => ~UnitDef[c][u].refuseManualStart /\ ~UnitDef[c][u].onlyManualStart

VARIABLES
    run,        \* run[u]: configuration whose definition u runs, or None
    failed,     \* units that did not come up
    loaded,     \* configuration whose unit files systemd has loaded
    etc,        \* configuration /etc points to
    current,    \* /run/current-system
    bootDef,    \* configuration the boot loader starts by default
    lists,      \* lists[f][u]: number of lines naming u in list file f
    actReq,     \* the lists of the activation script and of its dry run
    lock,       \* holder of /run/nixos/switch-to-configuration.lock
    pc, action, top, active, todo, plan, res,   \* locals of each invocation
    owed,       \* history: for each unit that was stopped and not asked for
                \* since, the units that may stand for it
    late,       \* history: services a connection started behind a run's back
    missed,     \* history: services that keep their definition although they
                \* were to be reloaded, with nothing recorded any more
    runs, kills \* used up so far

sys     == <<run, failed, loaded, etc, current, bootDef>>
history == <<owed, late, missed>>
vars    == <<sys, lists, actReq, lock, pc, action, top, active, todo, plan, res,
             history, runs, kills>>

-----------------------------------------------------------------------------
(* Unit files and their comparison.                                        *)

Exists(c, u) == UnitDef[c][u] # None \/ Fstab[c][u] # None

\* Everything of a unit file that calls for a restart when it changes; of
\* Options= in [Mount], whether it is there.
Essential(d) == [d EXCEPT !.triggers = None, !.refuseManualStart = FALSE,
                          !.refuseManualStop = FALSE, !.options = (@ = None)]

\* 0: equal, 1: restart, 2: reload, because at most X-Reload-Triggers appeared
\* or changed and the Options of a mount changed.
CompareUnits(cur, new) ==
    CASE Essential(cur) # Essential(new)  -> 1
      [] /\ Essential(cur) = Essential(new)
         /\ \/ new.triggers \notin {None, cur.triggers}
            \/ new.options # cur.options -> 2
      [] OTHER -> 0

\* parse_unit of a missing file yields no settings at all: every default.
Settings(c, u) ==
    IF UnitDef[c][u] # None THEN UnitDef[c][u]
    ELSE [main |-> None, triggers |-> None, options |-> None,
          reloadIfChanged |-> FALSE, restartIfChanged |-> TRUE,
          stopIfChanged |-> TRUE, refuseManualStart |-> FALSE,
          refuseManualStop |-> FALSE, onlyManualStart |-> FALSE,
          stopOnRemoval |-> TRUE, stopOnReconfiguration |-> FALSE]

IsTarget(u)   == Kind[u] \in {"target", "coreTarget"}
MayStart(d)   == ~d.refuseManualStart /\ ~d.onlyManualStart

\* A unit of c, or a socket that will bring it up on the next connection.
Covers(c, u) == {u} \cup SocketsOf[c][u]

-----------------------------------------------------------------------------
(* The list files and the decisions held in memory.                        *)

Listed(f) == {u \in Units : lists[f][u] > 0}

\* record_unit for every unit of a set: one appended line each.
Recorded(l, a, f, us) ==
    IF a = "dry-activate" THEN l
    ELSE [l EXCEPT ![f] = [u \in Units |-> IF u \in us THEN l[f][u] + 1
                                                       ELSE l[f][u]]]

\* unrecord_unit: s/^$unit\n// without /g takes one line away.
Unrecorded(l, a, f, u) ==
    IF a = "dry-activate" \/ l[f][u] = 0 THEN l
    ELSE [l EXCEPT ![f] = [l[f] EXCEPT ![u] = l[f][u] - 1]]

Unlinked(f) == [lists EXCEPT ![f] = [u \in Units |-> 0]]

NoPlan == [set \in Sets |-> {}]

\* A decision is a pair of the in-memory sets and the list files.
Mark(d, set, us) ==
    [plan |-> [d.plan EXCEPT ![set] = @ \cup us], lists |-> d.lists]
Decide(d, a, set, us) ==
    [plan  |-> [d.plan EXCEPT ![set] = @ \cup us],
     lists |-> Recorded(d.lists, a, set, us)]
DropReload(d, a, u) ==
    IF u \notin d.plan.reload THEN d
    ELSE [plan  |-> [d.plan EXCEPT !["reload"] = @ \ {u}],
          lists |-> Unrecorded(d.lists, a, "reload", u)]

\* Mutant of SocketsUp: the sockets of a changed service stay up.
NoSocketsUp(u, up, c) == {}

\* The sockets of the new u that are up, and those the new system has.
SocketsUp(u, up, c)   == SocketsOf[c][u] \cap up
SocketsBack(u, up, c) == {s \in SocketsUp(u, up, c) : UnitDef[c][s] # None}

\* Mutant of StopAndStart: the start is remembered but not written down.
StopAndStartUnrecorded(d, a, u, up, c, stopSet, startSet) ==
    LET back  == SocketsBack(u, up, c)
        begin == IF back # {} THEN back ELSE {u}
    IN  DropReload(Mark(Mark(d, startSet, begin), stopSet,
                        SocketsUp(u, up, c) \cup {u}), a, u)

\* Stop now and start later: the sockets instead of the service if it has
\* any.  stopSet and startSet name the sets passed to handle_modified_unit.
StopAndStart(d, a, u, up, c, stopSet, startSet) ==
    LET back  == SocketsBack(u, up, c)
        begin == IF back # {} THEN back ELSE {u}
    IN  DropReload(Mark(Decide(d, a, startSet, begin), stopSet,
                        SocketsUp(u, up, c) \cup {u}), a, u)

HandleModified(d, a, u, up, c, stopSet, startSet) ==
    LET new == Settings(c, u)
    IN CASE Kind[u] \in {"coreTarget", "slice", "socket"} -> d
         [] Kind[u] = "rootMount" -> Decide(d, a, "reload", {u})
         [] Kind[u] = "mount"     -> Decide(d, a, "restart", {u})
         [] Kind[u] \in {"service", "dbus", "target"} ->
              CASE /\ new.reloadIfChanged
                   /\ u \notin d.plan.restart \cup d.plan[stopSet]
                     -> Decide(d, a, "reload", {u})
                [] /\ \/ ~new.reloadIfChanged
                      \/ u \in d.plan.restart \cup d.plan[stopSet]
                   /\ Kind[u] = "dbus" -> d
                [] /\ \/ ~new.reloadIfChanged
                      \/ u \in d.plan.restart \cup d.plan[stopSet]
                   /\ Kind[u] # "dbus"
                     -> IF \/ ~new.restartIfChanged
                           \/ new.refuseManualStop \/ new.onlyManualStart
                        THEN Mark(d, "skip", {u})
                        ELSE IF new.stopIfChanged /\ Kind[u] = "service"
                        THEN StopAndStart(d, a, u, up, c, stopSet, startSet)
                        ELSE DropReload(Decide(d, a, "restart", {u}), a, u)

\* Mutant of ExaminedRemoved: units the new system lacks are left running.
KeptRemoved(d, u, old) == d

\* A unit the new system does not have is stopped for good.
ExaminedRemoved(d, u, old) ==
    IF UnitDef[old][u].stopOnRemoval THEN Mark(d, "stop", {u}) ELSE d

\* What the loop over the active units decides about u.
Examined(d, a, u, up, old, c) ==
    IF UnitDef[old][u] = None THEN d
    ELSE IF UnitDef[c][u] = None THEN ExaminedRemoved(d, u, old)
    ELSE IF IsTarget(u)
    THEN LET e == IF MayStart(UnitDef[c][u]) THEN Decide(d, a, "start", {u})
                                             ELSE d
         IN  IF UnitDef[c][u].stopOnReconfiguration THEN Mark(e, "stop", {u})
                                                    ELSE e
    ELSE LET diff == CompareUnits(UnitDef[old][u], UnitDef[c][u])
         IN  IF diff = 1 THEN HandleModified(d, a, u, up, c, "stop", "start")
             ELSE IF diff = 2 /\ u \notin d.plan.restart
             THEN Decide(d, a, "reload", {u})
             ELSE d

\* Mutant of ExaminedMount: a restart is remembered but not written down.
ExaminedMountUnrecorded(d, a, u, old, c) ==
    IF Fstab[c][u] = None THEN Mark(d, "stop", {u})
    ELSE IF Fstab[old][u].device # Fstab[c][u].device THEN Mark(d, "restart", {u})
    ELSE d

\* What the loop over the old fstab decides about the mount unit u.
ExaminedMount(d, a, u, old, c) ==
    LET cur == Fstab[old][u]
        new == Fstab[c][u]
    IN  IF new = None THEN Mark(d, "stop", {u})
        ELSE IF cur.device # new.device
        THEN IF Kind[u] # "rootMount" THEN Decide(d, a, "restart", {u})
             ELSE IF cur.options # new.options THEN Decide(d, a, "reload", {u})
             ELSE Mark(d, "skip", {u})
        ELSE IF cur.options # new.options THEN Decide(d, a, "reload", {u})
        ELSE d

-----------------------------------------------------------------------------
(* systemd.                                                                *)

Up == {u \in Units : run[u] # None}

Down(S) == S \cup UNION {StoppedWith[u] : u \in S}

Stopped(S) == [u \in Units |-> IF u \in Down(S) THEN None ELSE run[u]]

\* The units of S that systemd knows.
Known(S) == {u \in S : Exists(loaded, u)}

\* The units systemctl start tries to start, those they pull in among them:
\* it leaves alone what is up and cannot start what systemd does not know.
ToStart(S) == {u \in Known(S \cup UNION {Wants[v] : v \in S}) : run[u] = None}

\* The broken units of a systemctl call do not come up, or are not reloaded.
Started(S, broken) ==
    [u \in Units |-> IF u \in ToStart(S) \ broken THEN loaded ELSE run[u]]
Restarted(S, broken) ==
    [u \in Units |-> IF u \notin Known(S) THEN run[u]
                     ELSE IF u \in broken THEN None ELSE loaded]
Reloaded(S) ==
    [u \in Units |-> IF u \in Known(S) /\ run[u] # None THEN loaded ELSE run[u]]

\* Which units of S a command may fail for.
Broken(cmd, S) == IF cmd \in Failing THEN SUBSET S ELSE {{}}

-----------------------------------------------------------------------------
TypeOK ==
    /\ run \in [Units -> Configs \cup {None}]
    /\ failed \in SUBSET Units
    /\ loaded \in Configs /\ etc \in Configs
    /\ current \in Configs /\ bootDef \in Configs
    /\ lists \in [Lists -> [Units -> Nat]]
    /\ actReq \in [restart : SUBSET Units, reload : SUBSET Units,
                   dryRestart : SUBSET Units, dryReload : SUBSET Units]
    /\ lock \in Procs \cup {None}
    /\ pc \in [Procs -> Pcs]
    /\ action \in [Procs -> Actions]
    /\ top \in [Procs -> Configs]
    /\ active \in [Procs -> SUBSET Units]
    /\ todo \in [Procs -> SUBSET Units]
    /\ plan \in [Procs -> [Sets -> SUBSET Units]]
    /\ res \in [Procs -> {0, 1, 2, 3, 4, 100}]
    /\ owed \in SUBSET SUBSET Units
    /\ late \in SUBSET Units /\ missed \in SUBSET Units
    /\ runs \in 0..MaxRuns /\ kills \in 0..MaxKills

\* The machine has just booted: every unit that starts by itself is up.
BootedUnits(c) ==
    [u \in Units |-> IF \/ Fstab[c][u] # None
                        \/ UnitDef[c][u] # None /\ ~UnitDef[c][u].onlyManualStart
                     THEN c ELSE None]

Empty      == [f \in Lists |-> [u \in Units |-> 0]]
NoneListed == [restart |-> {}, reload |-> {}, dryRestart |-> {}, dryReload |-> {}]

Init ==
    /\ run = BootedUnits(BootDefault) /\ failed = {}
    /\ loaded = BootDefault /\ etc = BootDefault
    /\ current = BootDefault /\ bootDef = BootDefault
    /\ lists = Empty
    /\ actReq = NoneListed
    /\ lock = None
    /\ pc = [p \in Procs |-> "idle"]
    /\ action = [p \in Procs |-> "boot"]
    /\ top = [p \in Procs |-> BootDefault]
    /\ active = [p \in Procs |-> {}]
    /\ todo = [p \in Procs |-> {}]
    /\ plan = [p \in Procs |-> NoPlan]
    /\ res = [p \in Procs |-> 0]
    /\ owed = {} /\ late = {} /\ missed = {}
    /\ runs = 0 /\ kills = 0

locals == <<action, top, active, todo, plan>>
budget == <<runs, kills>>

-----------------------------------------------------------------------------
(* The script, one action per step between which it can be killed.         *)

At(p, where)   == pc[p] = where
Goto(p, where) == pc' = [pc EXCEPT ![p] = where]
Set(f, p, v)   == [f EXCEPT ![p] = v]

\* Process p is gone: its memory is lost and the kernel drops its lock.
Gone(p) ==
    /\ Goto(p, "idle")
    /\ lock' = IF lock = p THEN None ELSE lock
    /\ action' = Set(action, p, "boot") /\ top' = Set(top, p, BootDefault)
    /\ active' = Set(active, p, {}) /\ todo' = Set(todo, p, {})
    /\ plan' = Set(plan, p, NoPlan)

\* Mutant of Exit: something the run started still holds the lock.
ExitKeepingLock(p, code) ==
    /\ Goto(p, "idle")
    /\ UNCHANGED <<lock, action, top, active, todo, plan>>
    /\ res' = Set(res, p, code)

Exit(p, code) == Gone(p) /\ res' = Set(res, p, code)

Invoke(p) ==
    /\ At(p, "idle") /\ runs < MaxRuns
    /\ runs' = runs + 1
    /\ \E a \in Actions, c \in Configs :
          action' = Set(action, p, a) /\ top' = Set(top, p, c)
    /\ res' = Set(res, p, 0)
    /\ Goto(p, "lock")
    /\ UNCHANGED <<sys, lists, actReq, lock, active, todo, plan, history, kills>>

\* Mutant of Lock: the run does not wait for the lock.
LockAnyway(p) ==
    /\ At(p, "lock")
    /\ lock' = p
    /\ Goto(p, "bootloader")
    /\ UNCHANGED <<sys, lists, actReq, locals, res, history, budget>>

Lock(p) ==
    /\ At(p, "lock") /\ lock = None
    /\ lock' = p
    /\ Goto(p, "bootloader")
    /\ UNCHANGED <<sys, lists, actReq, locals, res, history, budget>>

\* Mutant of InstallBootLoader: a failed installation leaves no default.
InstallBootLoaderTorn(p) ==
    /\ At(p, "bootloader") /\ action[p] \in {"switch", "boot"}
    /\ bootDef' = None
    /\ Exit(p, 1)
    /\ UNCHANGED <<run, failed, loaded, etc, current, lists, actReq, history, budget>>

\* switch and boot install the boot loader; boot is then done.
InstallBootLoader(p) ==
    /\ At(p, "bootloader")
    /\ IF action[p] \in {"switch", "boot"}
       THEN \/ /\ bootDef' = top[p]
               /\ IF action[p] = "boot"
                  THEN Exit(p, 0)
                  ELSE Goto(p, "check") /\ UNCHANGED <<lock, locals, res>>
            \/ /\ "bootloader" \in Failing
               /\ UNCHANGED bootDef
               /\ Exit(p, 1)
       ELSE Goto(p, "check") /\ UNCHANGED <<bootDef, lock, locals, res>>
    /\ UNCHANGED <<run, failed, loaded, etc, current, lists, actReq, history, budget>>

CheckInitInterface(p) ==
    /\ At(p, "check")
    /\ IF InitVersion[top[p]] # InitVersion[current]
       THEN Exit(p, 100)
       ELSE Goto(p, "read") /\ UNCHANGED <<lock, locals, res>>
    /\ UNCHANGED <<sys, lists, actReq, history, budget>>

\* Mutant of ReadLists: the lists of a killed run are not read.
ReadNoLists(p) ==
    /\ At(p, "read")
    /\ plan' = Set(plan, p, NoPlan)
    /\ active' = Set(active, p, Up \cup failed)
    /\ todo' = Set(todo, p, Up)
    /\ Goto(p, "examine")
    /\ UNCHANGED <<sys, lists, actReq, lock, action, top, res, history, budget>>

\* Continue where an interrupted run left off, and see what is not inactive;
\* the loop passes over what failed.
ReadLists(p) ==
    /\ At(p, "read")
    /\ plan' = Set(plan, p, [set \in Sets |-> IF set \in Lists THEN Listed(set)
                                                               ELSE {}])
    /\ active' = Set(active, p, Up \cup failed)
    /\ todo' = Set(todo, p, Up)
    /\ Goto(p, "examine")
    /\ UNCHANGED <<sys, lists, actReq, lock, action, top, res, history, budget>>

\* Carry out the decision d about u of a loop at one step.
Decided(p, u, d) ==
    /\ plan' = Set(plan, p, d.plan)
    /\ lists' = d.lists
    /\ todo' = Set(todo, p, todo[p] \ {u})
    /\ missed' = missed \cup {w \in Up \cap Listed("reload") :
                                w \notin (Listed("reload") \cup Listed("restart"))'}

Memory(p) == [plan |-> plan[p], lists |-> lists]

ExamineUnit(p) ==
    /\ At(p, "examine")
    /\ \E u \in todo[p] :
          Decided(p, u, Examined(Memory(p), action[p], u, active[p], etc, top[p]))
    /\ UNCHANGED <<sys, actReq, lock, pc, action, top, active, res, owed, late, budget>>

UnitsExamined(p) ==
    /\ At(p, "examine") /\ todo[p] = {}
    /\ todo' = Set(todo, p, {u \in Units : Fstab[etc][u] # None})
    /\ Goto(p, "fstab")
    /\ UNCHANGED <<sys, lists, actReq, lock, action, top, active, plan, res,
                   history, budget>>

ExamineMount(p) ==
    /\ At(p, "fstab")
    /\ \E u \in todo[p] :
          Decided(p, u, ExaminedMount(Memory(p), action[p], u, etc, top[p]))
    /\ UNCHANGED <<sys, actReq, lock, pc, action, top, active, res, owed, late, budget>>

MountsExamined(p) ==
    /\ At(p, "fstab") /\ todo[p] = {}
    /\ Goto(p, IF action[p] = "dry-activate" THEN "dry" ELSE "stop")
    /\ UNCHANGED <<sys, lists, actReq, lock, locals, res, history, budget>>

\* A dry run has the activation script say what it would ask for, ...
DryActivate(p) ==
    /\ At(p, "dry")
    /\ \E r \in Requests :
          /\ actReq' = [actReq EXCEPT !.dryRestart = @ \cup r.restart,
                                     !.dryReload  = @ \cup r.reload]
          /\ todo' = Set(todo, p, actReq.dryRestart \cup r.restart)
    /\ Goto(p, "dryRestart")
    /\ UNCHANGED <<sys, lists, lock, action, top, active, plan, res, history, budget>>

\* Mutant of DryRestart: it writes down what it would restart.
DryRestartRecorded(p) ==
    /\ At(p, "dryRestart")
    /\ \E u \in todo[p] :
          Decided(p, u,
             IF u \notin active[p] THEN Mark(Memory(p), "start", {u})
             ELSE HandleModified(Memory(p), "test", u, active[p], top[p],
                                 "restart", "restart"))
    /\ UNCHANGED <<sys, actReq, lock, pc, action, top, active, res, owed, late, budget>>

\* ... decides about it as a run that acts does, ...
DryRestart(p) ==
    /\ At(p, "dryRestart")
    /\ \E u \in todo[p] :
          Decided(p, u,
             IF u \notin active[p] THEN Mark(Memory(p), "start", {u})
             ELSE HandleModified(Memory(p), action[p], u, active[p], top[p],
                                 "restart", "restart"))
    /\ UNCHANGED <<sys, actReq, lock, pc, action, top, active, res, owed, late, budget>>

DryRestartsSeen(p) ==
    /\ At(p, "dryRestart") /\ todo[p] = {}
    /\ actReq' = [actReq EXCEPT !.dryRestart = {}]
    /\ todo' = Set(todo, p, actReq.dryReload)
    /\ Goto(p, "dryReload")
    /\ UNCHANGED <<sys, lists, lock, action, top, active, plan, res, history, budget>>

DryReload(p) ==
    /\ At(p, "dryReload")
    /\ \E u \in todo[p] :
          Decided(p, u,
             IF u \in active[p] \ (plan[p].restart \cup plan[p].stop)
             THEN Decide(Memory(p), action[p], "reload", {u})
             ELSE Memory(p))
    /\ UNCHANGED <<sys, actReq, lock, pc, action, top, active, res, owed, late, budget>>

\* ... prints its decisions and is done.
DryFinish(p) ==
    /\ At(p, "dryReload") /\ todo[p] = {}
    /\ actReq' = [actReq EXCEPT !.dryReload = {}]
    /\ Exit(p, 0)
    /\ UNCHANGED <<sys, lists, history, budget>>

\* Of the services that missed something, those that still run as they did.
StillMissed == {u \in missed : run'[u] = run[u]}

\* systemctl stop took down the units S of p's plan.
TakenDown(p, S) ==
    /\ run' = Stopped(S)
    /\ owed' = owed \cup {Covers(top[p], u) : u \in {v \in S : /\ run[v] # None
                                                             /\ Exists(top[p], v)}}
    /\ missed' = StillMissed
    /\ UNCHANGED <<failed, loaded, etc, current, bootDef, late>>

\* Its status is ignored: a unit that does not stop stays up.
StopUnits(p) ==
    /\ At(p, "stop")
    /\ \E broken \in Broken("stop", plan[p].stop) :
          TakenDown(p, plan[p].stop \ broken)
    /\ Goto(p, "activate")
    /\ UNCHANGED <<lists, actReq, lock, locals, res, budget>>

\* The activation script switches /etc and, as its last step,
\* /run/current-system, and may ask for restarts and reloads meanwhile.  A
\* failing snippet does not end it: it goes on and exits non-zero.
Activate(p) ==
    /\ At(p, "activate")
    /\ \E r \in Requests :
          /\ actReq' = [actReq EXCEPT !.restart = @ \cup r.restart,
                                     !.reload  = @ \cup r.reload]
          /\ todo' = Set(todo, p, actReq.restart \cup r.restart)
    /\ current' = top[p]
    /\ \/ etc' = top[p] /\ UNCHANGED res
       \/ /\ "activate" \in Failing
          /\ etc' \in {etc, top[p]}
          /\ res' = Set(res, p, 2)
    /\ Goto(p, "propRestart")
    /\ UNCHANGED <<run, failed, loaded, bootDef, lists, lock, action, top, active,
                   plan, history, budget>>

\* One line of activation-restart-list: units_to_stop and units_to_start
\* both alias units_to_restart here.
PropagateRestart(p) ==
    /\ At(p, "propRestart")
    /\ \E u \in todo[p] :
          Decided(p, u,
             IF u \notin active[p]
             THEN Decide(Memory(p), action[p], "start", {u})
             ELSE HandleModified(Memory(p), action[p], u, active[p], top[p],
                                 "restart", "restart"))
    /\ UNCHANGED <<sys, actReq, lock, pc, action, top, active, res, owed, late, budget>>

RestartsPropagated(p) ==
    /\ At(p, "propRestart") /\ todo[p] = {}
    /\ actReq' = [actReq EXCEPT !.restart = {}]
    /\ todo' = Set(todo, p, actReq.reload)
    /\ Goto(p, "propReload")
    /\ UNCHANGED <<sys, lists, lock, action, top, active, plan, res, history, budget>>

PropagateReload(p) ==
    /\ At(p, "propReload")
    /\ \E u \in todo[p] :
          Decided(p, u,
             IF u \in active[p] \ (plan[p].restart \cup plan[p].stop)
             THEN Decide(Memory(p), action[p], "reload", {u})
             ELSE Memory(p))
    /\ UNCHANGED <<sys, actReq, lock, pc, action, top, active, res, owed, late, budget>>

ReloadsPropagated(p) ==
    /\ At(p, "propReload") /\ todo[p] = {}
    /\ actReq' = [actReq EXCEPT !.reload = {}]
    /\ Goto(p, "daemon")
    /\ UNCHANGED <<sys, lists, lock, locals, res, history, budget>>

\* systemctl daemon-reexec, reset-failed, daemon-reload, the user managers,
\* and sysinit-reactivation.target: the later status replaces the earlier.
ReloadDaemon(p) ==
    /\ At(p, "daemon")
    /\ failed' = {}
    /\ \E bad \in SUBSET (Failing \cap {"reexec", "daemon-reload", "sysinit"}) :
          /\ loaded' = IF "daemon-reload" \in bad THEN loaded ELSE etc
          /\ res' = Set(res, p, CASE "sysinit" \in bad -> 4
                                  [] bad \cap {"sysinit", "daemon-reload"}
                                       = {"daemon-reload"} -> 3
                                  [] bad = {"reexec"} -> 2
                                  [] OTHER -> res[p])
    /\ todo' = Set(todo, p, plan[p].reload)
    /\ Goto(p, "checkReload")
    /\ UNCHANGED <<run, etc, current, bootDef, lists, actReq, lock, action, top,
                   active, plan, history, budget>>

\* Mutant of CheckReload: the start is remembered but not written down.
CheckReloadUnrecorded(p) ==
    /\ At(p, "checkReload")
    /\ \E u \in todo[p] :
          Decided(p, u, IF run[u] # None THEN Memory(p)
                        ELSE DropReload(Mark(Memory(p), "start", {u}),
                                        action[p], u))
    /\ UNCHANGED <<sys, actReq, lock, pc, action, top, active, res, owed, late, budget>>

\* A unit to be reloaded that went down meanwhile is to be started instead.
CheckReload(p) ==
    /\ At(p, "checkReload")
    /\ \E u \in todo[p] :
          Decided(p, u,
             IF run[u] # None THEN Memory(p)
             ELSE DropReload(IF MayStart(Settings(top[p], u))
                             THEN Decide(Memory(p), action[p], "start", {u})
                             ELSE Memory(p), action[p], u))
    /\ UNCHANGED <<sys, actReq, lock, pc, action, top, active, res, owed, late, budget>>

ReloadsChecked(p) ==
    /\ At(p, "checkReload") /\ todo[p] = {}
    /\ Goto(p, IF plan[p].reload # {} THEN "reload"
               ELSE IF plan[p].restart # {} THEN "restart" ELSE "start")
    /\ UNCHANGED <<sys, lists, actReq, lock, locals, res, history, budget>>

\* A systemctl call over the units S: it fails if one of them is unknown to
\* systemd or does not do as told.
CallStatus(p, S, broken) ==
    IF S \cap broken # {} \/ S # Known(S) THEN Set(res, p, 4) ELSE res

\* systemctl reload was carried out for the units S, in vain for broken.
Refreshed(S, broken) ==
    /\ run' = Reloaded(S \ broken)
    /\ missed' = StillMissed \cup broken
    /\ UNCHANGED <<failed, loaded, etc, current, bootDef, owed, late>>

ReloadUnits(p) ==
    /\ At(p, "reload")
    /\ \E broken \in Broken("reload", plan[p].reload) :
          /\ Refreshed(plan[p].reload, broken)
          /\ res' = CallStatus(p, plan[p].reload, broken)
    /\ Goto(p, "unlinkReload")
    /\ UNCHANGED <<lists, actReq, lock, locals, budget>>

\* A reload that was taken back may have had a second line in the list.
UnlinkReload(p) ==
    /\ At(p, "unlinkReload")
    /\ lists' = Unlinked("reload")
    /\ missed' = missed \cup {w \in (Up \cap Listed("reload")) \ plan[p].reload :
                                w \notin Listed("restart")}
    /\ Goto(p, IF plan[p].restart # {} THEN "restart" ELSE "start")
    /\ UNCHANGED <<sys, actReq, lock, locals, res, owed, late, budget>>

\* systemctl restart was carried out for the units S.
Replaced(S, broken) ==
    /\ run' = Restarted(S, broken)
    /\ failed' = (failed \ Known(S)) \cup broken
    /\ missed' = StillMissed
    /\ UNCHANGED <<loaded, etc, current, bootDef, owed, late>>

RestartUnits(p) ==
    /\ At(p, "restart")
    /\ \E broken \in Broken("restart", Known(plan[p].restart)) :
          /\ Replaced(plan[p].restart, broken)
          /\ res' = CallStatus(p, plan[p].restart, broken)
    /\ Goto(p, "unlinkRestart")
    /\ UNCHANGED <<lists, actReq, lock, locals, budget>>

\* Mutant of UnlinkRestart: it removes start-list too early.
UnlinkStartEarly(p) ==
    /\ At(p, "unlinkRestart")
    /\ lists' = Unlinked("start")
    /\ Goto(p, "start")
    /\ UNCHANGED <<sys, actReq, lock, locals, res, history, budget>>

UnlinkRestart(p) ==
    /\ At(p, "unlinkRestart")
    /\ lists' = Unlinked("restart")
    /\ Goto(p, "start")
    /\ UNCHANGED <<sys, actReq, lock, locals, res, history, budget>>

\* systemctl start was carried out for the units S.
BroughtUp(S, broken) ==
    /\ run' = Started(S, broken)
    /\ failed' = (failed \ ToStart(S)) \cup broken
    /\ owed' = {d \in owed : d \cap S = {}}
    /\ missed' = StillMissed
    /\ UNCHANGED <<loaded, etc, current, bootDef, late>>

StartUnits(p) ==
    /\ At(p, "start")
    /\ \E broken \in Broken("start", ToStart(plan[p].start)) :
          /\ BroughtUp(plan[p].start, broken)
          /\ res' = CallStatus(p, plan[p].start, broken)
    /\ Goto(p, "unlinkStart")
    /\ UNCHANGED <<lists, actReq, lock, locals, budget>>

UnlinkStart(p) ==
    /\ At(p, "unlinkStart")
    /\ lists' = Unlinked("start")
    /\ Goto(p, "listFailed")
    /\ UNCHANGED <<sys, actReq, lock, locals, res, history, budget>>

\* Units that failed, those that others pulled in among them, are an error.
ListFailed(p) ==
    /\ At(p, "listFailed")
    /\ res' = IF failed = {} THEN res ELSE Set(res, p, 4)
    /\ Goto(p, "done")
    /\ UNCHANGED <<sys, lists, actReq, lock, locals, history, budget>>

Finish(p) ==
    /\ At(p, "done")
    /\ Exit(p, res[p])
    /\ UNCHANGED <<sys, lists, actReq, history, budget>>

-----------------------------------------------------------------------------
(* Interruption, and what happens around the script.                       *)

\* The call in progress when p is killed may have had part of its effect.
PartialEffect(p) ==
    CASE At(p, "stop") ->
           \E S \in SUBSET plan[p].stop : TakenDown(p, S) /\ UNCHANGED actReq
      [] At(p, "activate") ->
           /\ etc' \in {etc, top[p]}
           /\ \E r \in Requests :
                 actReq' = [actReq EXCEPT !.restart = @ \cup r.restart,
                                          !.reload  = @ \cup r.reload]
           /\ UNCHANGED <<run, failed, loaded, current, bootDef, history>>
      [] At(p, "reload") ->
           \E S \in SUBSET plan[p].reload : Refreshed(S, {}) /\ UNCHANGED actReq
      [] At(p, "restart") ->
           /\ \E S \in SUBSET plan[p].restart :
                 \E broken \in Broken("restart", Known(S)) : Replaced(S, broken)
           /\ UNCHANGED actReq
      [] At(p, "start") ->
           /\ \E S \in SUBSET plan[p].start :
                 \E broken \in Broken("start", ToStart(S)) : BroughtUp(S, broken)
           /\ UNCHANGED actReq
      [] OTHER -> UNCHANGED <<sys, actReq, history>>

Kill(p) ==
    /\ pc[p] \notin {"idle", "lock"} /\ kills < MaxKills
    /\ kills' = kills + 1
    /\ PartialEffect(p)
    /\ Gone(p)
    /\ UNCHANGED <<lists, res, runs>>

\* /run is a tmpfs: a reboot forgets the lists with the units they name.
Reboot ==
    /\ kills < MaxKills /\ kills' = kills + 1
    /\ run' = BootedUnits(bootDef) /\ failed' = {}
    /\ loaded' = bootDef /\ etc' = bootDef /\ current' = bootDef
    /\ UNCHANGED bootDef
    /\ lists' = Empty /\ actReq' = NoneListed
    /\ lock' = None /\ owed' = {} /\ late' = {} /\ missed' = {}
    /\ pc' = [p \in Procs |-> "idle"]
    /\ action' = [p \in Procs |-> "boot"]
    /\ top' = [p \in Procs |-> BootDefault]
    /\ active' = [p \in Procs |-> {}]
    /\ todo' = [p \in Procs |-> {}]
    /\ plan' = [p \in Procs |-> NoPlan]
    /\ UNCHANGED <<res, runs>>

\* Steps after the list of active units was read and before systemd has the
\* new unit files.
Snapshot == {"examine", "fstab", "stop", "activate", "propRestart",
             "propReload", "daemon"}

\* The run p knows that u is up, or that a connection to s may start it.
Foreseen(p, u, s) == u \in active[p] \ failed /\ s \in SocketsOf[top[p]][u]

\* A connection to a socket that is up starts its service.
SocketActivation ==
    /\ \E u \in Units :
          /\ run[u] = None /\ Exists(loaded, u)
          /\ run' = [run EXCEPT ![u] = loaded]
          /\ failed' = failed \ {u}
          /\ \E s \in SocketsOf[loaded][u] :
                /\ run[s] # None
                /\ late' = IF \/ loaded # etc
                             \/ \E p \in Procs : /\ pc[p] \in Snapshot
                                                /\ ~Foreseen(p, u, s)
                          THEN late \cup {u} ELSE late
    /\ UNCHANGED <<loaded, etc, current, bootDef, lists, actReq, lock, pc,
                   locals, res, owed, missed, budget>>

Step(p) ==
    \/ Lock(p) \/ InstallBootLoader(p) \/ CheckInitInterface(p)
    \/ ReadLists(p) \/ ExamineUnit(p) \/ UnitsExamined(p)
    \/ ExamineMount(p) \/ MountsExamined(p)
    \/ DryActivate(p) \/ DryRestart(p) \/ DryRestartsSeen(p)
    \/ DryReload(p) \/ DryFinish(p)
    \/ StopUnits(p) \/ Activate(p)
    \/ PropagateRestart(p) \/ RestartsPropagated(p)
    \/ PropagateReload(p) \/ ReloadsPropagated(p)
    \/ ReloadDaemon(p) \/ CheckReload(p) \/ ReloadsChecked(p)
    \/ ReloadUnits(p) \/ UnlinkReload(p)
    \/ RestartUnits(p) \/ UnlinkRestart(p)
    \/ StartUnits(p) \/ UnlinkStart(p) \/ ListFailed(p) \/ Finish(p)

Next ==
    \/ \E p \in Procs : Invoke(p) \/ Step(p) \/ Kill(p)
    \/ Reboot
    \/ SocketActivation

Spec == Init /\ [][Next]_vars /\ \A p \in Procs : WF_vars(Step(p))
-----------------------------------------------------------------------------
(* Properties.                                                             *)

Running(p) == pc[p] \notin {"idle", "lock"}

\* flock serialises the runs (l.99-101): no two of them are past the lock.
MutualExclusion == \A p, q \in Procs : Running(p) /\ Running(q) => p = q

\* "To be robust against interruption, record what units need to be started"
\* (l.49-51): whenever a unit that the new system still has was stopped and
\* not yet started again, start-list names it or one of its sockets, so that
\* the next run starts it even if this one is killed now.
StopsAreRecoverable == \A d \in owed : d \cap Listed("start") # {}

Deciding == {"examine", "fstab", "stop", "activate", "propRestart",
             "propReload", "daemon", "checkReload"}

\* The list files never lag behind the memory of the run: what it still
\* intends to start or reload, the next run would read.
DecisionsRecorded ==
    \A p \in Procs : action[p] # "dry-activate" =>
        /\ pc[p] \in Deciding \cup {"reload", "unlinkReload", "restart",
                                    "unlinkRestart", "start"}
              => plan[p].start \subseteq Listed("start")
        /\ pc[p] \in Deciding \cup {"reload"}
              => plan[p].reload \subseteq Listed("reload")

\* The same for restarts, but for a unit whose sockets are restarted instead.
RestartsCovered ==
    \A p \in Procs :
        /\ action[p] # "dry-activate"
        /\ pc[p] \in Deciding \cup {"reload", "unlinkReload", "restart"}
        => \A u \in plan[p].restart :
              Exists(top[p], u) => Covers(top[p], u) \cap Listed("restart") # {}

\* A run that got to its end has carried out everything that it or a killed
\* run before it recorded: nothing is owed, nothing is left for the next run
\* to start or restart; and if it exits 0, all that was to be started is up.
NothingLeftBehind ==
    \A p \in Procs : At(p, "done") =>
        /\ owed = {}
        /\ Listed("start") = {} /\ Listed("restart") = {}
        /\ res[p] = 0 => plan[p].start \subseteq Up

\* A service or a mount unit with a unit file that every configuration lets the
\* script restart or reload.
Eligible(u) ==
    /\ Kind[u] \in {"service", "mount"}
    /\ \A c \in Configs : Fstab[c][u] = None
    /\ \A c \in Configs : UnitDef[c][u] # None =>
          /\ UnitDef[c][u].stopOnRemoval
          /\ \/ UnitDef[c][u].reloadIfChanged \/ Kind[u] = "mount"
             \/ /\ UnitDef[c][u].restartIfChanged
                /\ ~UnitDef[c][u].refuseManualStop
                /\ ~UnitDef[c][u].onlyManualStart

\* A run that exits 0 leaves none of the services it found up running an old
\* definition, whatever runs to whatever configuration were killed before it.
\* Out of its sight are only services that were down when some run looked
\* (l.572), or had a socket that it does not know, and that a connection
\* started before daemon-reload (l.881); and those that missed a reload: it
\* failed, or it was taken back (l.550) by a run killed before the stop that
\* was to replace it.
UpToDate ==
    \A p \in Procs : At(p, "done") /\ res[p] = 0 =>
        \A u \in active[p] \ (late \cup missed) :
            /\ Eligible(u) /\ run[u] # None
            /\ UnitDef[run[u]][u] # None /\ UnitDef[top[p]][u] # None
            => CompareUnits(UnitDef[run[u]][u], UnitDef[top[p]][u]) = 0

\* Nor does it leave one running that the configuration no longer has.
NoOrphans ==
    \A p \in Procs : At(p, "done") /\ res[p] = 0 =>
        \A u \in active[p] \ late :
            Eligible(u) /\ run[u] # None => UnitDef[top[p]][u] # None

\* dry-activate only shows what would be done (l.81): no step of such a run
\* changes the system, the lists or the requests, even if it read lists that
\* a killed run left.
DryRunChangesNothing ==
    [][\A p \in Procs :
          /\ action[p] = "dry-activate" /\ Running(p) /\ kills' = kills
          /\ <<pc[p], todo[p], plan[p]>>' # <<pc[p], todo[p], plan[p]>>
          => UNCHANGED <<sys, lists, actReq.restart, actReq.reload, owed>>]_vars

\* A run that is not killed ends, and those waiting for the lock get it.
EveryRunEnds == \A p \in Procs : pc[p] # "idle" ~> pc[p] = "idle"

\* start-list is a write-ahead journal.
Journal == INSTANCE UnitJournal WITH journal <- Listed("start")
ImplementsJournal == Journal!Spec

\* "We can remove the file now because it has been propagated to the other
\* restart/reload files" (l.855): once activation-restart-list is gone, every
\* unit this run will restart on its behalf is in restart-list.
RestartsPropagatedToFile ==
    \A p \in Procs : At(p, "propReload") =>
        plan[p].restart \subseteq Listed("restart")

\* "The opposite of record_unit, removes a unit name from a file" (l.311): a
\* unit that is not to be reloaded any more is not in reload-list, so that a
\* run that got to its end leaves none to be reloaded by the next.
UnrecordRemoves ==
    \A p \in Procs : At(p, "done") => Listed("reload") = {}
=============================================================================
