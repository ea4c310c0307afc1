----------------------------- MODULE UnitJournal -----------------------------
(***************************************************************************)
(* What /run/nixos/start-list is for, apart from how the script goes about *)
(* it: a write-ahead journal of units to be started.  A unit may be taken  *)
(* down only while the journal promises to bring it, or something that     *)
(* stands for it, up again; the journal may be dropped only when nothing   *)
(* is owed any more.  Losing the process is a stuttering step.             *)
(***************************************************************************)
CONSTANT Units

VARIABLES journal, \* units promised to be started
          owed     \* for each unit taken down and not started since, the set
                   \* of the units that may stand for it

vars == <<journal, owed>>

Init == journal = {} /\ owed = {}

Promise(S) == journal' = journal \cup S /\ UNCHANGED owed

TakeDown(D) ==
    /\ \A d \in D : d \cap journal # {}
    /\ owed' = owed \cup D
    /\ UNCHANGED journal

BringUp(S) ==
    /\ S \subseteq journal
    /\ owed' = {d \in owed : d \cap S = {}}
    /\ UNCHANGED journal

Forget == owed = {} /\ journal' = {} /\ UNCHANGED owed

\* The machine restarts: every unit starts afresh.
Reboot == journal' = {} /\ owed' = {}

Next ==
    \/ \E S \in SUBSET Units : Promise(S) \/ BringUp(S)
    \/ \E D \in SUBSET SUBSET Units : TakeDown(D)
    \/ Forget
    \/ Reboot

Spec == Init /\ [][Next]_vars
=============================================================================
