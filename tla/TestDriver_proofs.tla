--------------------------- MODULE TestDriver_proofs ---------------------------
(***************************************************************************)
(* Theorems about TestDriver, for any number of machines, of either kind,  *)
(* and of starts.                                                          *)
(***************************************************************************)
EXTENDS TestDriver, TLAPS

Stopped(m) == vm[m] \in {"none", "exited"}

(* Start has set what it sets before its present step, and no more. *)
Starting ==
    LET m == main.m IN
    /\ m \in Machines /\ main.step \in 1 .. 8
    /\ "booted" \notin has[m]
    /\ main.step >= 2 => "process" \in has[m] /\ starts[m] >= 1 /\ m \notin up
    /\ main.step >= 3 => "monitor" \in has[m]
    /\ main.step >= 4 => "shell" \in has[m]
    /\ main.step >= 6 => "serial_thread" \in has[m] /\ serial[m] = starts[m]
    /\ "pid" \in has[m] <=> main.step = 8
    /\ main.step = 1 => starts[m] < MaxStarts[m]

(* The time is not up. *)
Unhurried == timer.at \in {"new", "armed", "cancelled"}

Releasing(self) ==
    self.at = "release" =>
        /\ self.m \in Driven /\ self.step \in 1 .. 3
        /\ self.step = 2 => Needed \subseteq has[self.m]

(* The main thread has released the machines before the one it is at. *)
MainInv ==
    /\ main.at = "start" => Starting
    /\ main.at = "wait" => main.m \in Machines
    /\ main.at = "join_all" => main.m \in Driven
    /\ main.at = "exit" => main.m = 0
    /\ Releasing(main)
    /\ main.at = "release" =>
          /\ timer.at \notin {"new", "armed"}
          /\ main.step >= 2 => "pid" \in has[main.m]
          /\ main.step = 3 => main.thread = serial[main.m]
          /\ timer.at = "cancelled" => \A j \in Driven : j < main.m => Stopped(j)
    /\ main.at = "ending" => timer.at \notin {"new", "armed"}
    /\ main.at \in {"ending", "gone"} /\ timer.at = "cancelled" => \A j \in Driven : Stopped(j)

(* So has the timer those that were up and have not been started again. *)
TimerInv ==
    /\ timer.at = "new" <=> main.at = "run_tests"
    /\ timer.at = "armed" => timer.m = 0
    /\ timer.at = "ended" => Gone
    /\ Gone => timer.at \in {"cancelled", "ended"}
    /\ Releasing(timer)
    /\ timer.at = "release" =>
          /\ timer.step = 3 /\ timer.m \in up => timer.thread = serial[timer.m]
          /\ \A j \in up : j < timer.m => Stopped(j)
    /\ timer.at \in {"kill", "ended"} => \A j \in up : Stopped(j)

(* A machine with a pid is started completely, one without has stopped; the
   latest console is read until the machine has exited. *)
MachineInv(m) ==
    /\ "pid" \in has[m] => /\ Needed \subseteq has[m]
                           /\ serial[m] = starts[m] /\ starts[m] >= 1
    /\ "booted" \in has[m] => "pid" \in has[m]
    /\ "pid" \in has[m] /\ "booted" \notin has[m] =>
          \/ main.at = "start" /\ main.m = m /\ main.step = 8
          \/ Gone
    /\ serial[m] = starts[m] /\ starts[m] >= 1 /\ serial[m] \notin reading[m] =>
          vm[m] = "exited"
    /\ m \in up => /\ "pid" \in has[m] \/ vm[m] = "exited"
                   /\ serial[m] = starts[m] /\ starts[m] >= 1
    /\ Unhurried /\ "pid" \notin has[m] => Stopped(m) \/ (main.at = "start" /\ main.m = m)
    /\ Unhurried /\ main.at \notin {"release", "ending", "gone"} => vm[m] # "dying"

IInv == TypeOK /\ MainInv /\ TimerInv /\ \A m \in Machines : MachineInv(m)

-----------------------------------------------------------------------------

LEMMA Names ==
    /\ Len(StartSteps) = 8 /\ DOMAIN StartSteps = 1 .. 8
    /\ StartSteps[1] = "process" /\ StartSteps[2] = "monitor"
    /\ StartSteps[3] = "shell" /\ StartSteps[4] = "qmp"
    /\ StartSteps[5] = "serial_thread" /\ StartSteps[6] = "prompt"
    /\ StartSteps[7] = "pid" /\ StartSteps[8] = "booted"
BY DEF StartSteps

LEMMA AttributesAre ==
    Attributes = {"process", "monitor", "shell", "serial_thread", "pid", "booted"}
<1>1. \A x : x \in {StartSteps[k] : k \in DOMAIN StartSteps} <=>
        \E k \in 1 .. 8 : x = StartSteps[k]
  BY Names
<1>2. \A k \in 1 .. 8 : k = 1 \/ k = 2 \/ k = 3 \/ k = 4 \/ k = 5 \/ k = 6 \/ k = 7 \/ k = 8
  OBVIOUS
<1> QED
  BY <1>1, <1>2, Names DEF Attributes

LEMMA MachinesAre ==
    /\ NMachines \in Nat /\ NMachines >= 1 /\ Machines \subseteq Nat
    /\ Driven \subseteq Machines /\ 0 \notin Machines
    /\ \A m : m \in Driven <=> m \in Nat /\ 1 <= m /\ m <= NMachines
BY Parameters DEF Machines, Driven

LEMMA NextIs ==
    ASSUME NEW places, NEW self \in Thread(places), NEW done, self.m < NMachines
    PROVE  NextMachine(self, done) =
               [at |-> "release", m |-> self.m + 1, step |-> 1, thread |-> 0]
BY DEF NextMachine, Thread

LEMMA StepIs ==
    ASSUME NEW places, NEW self \in Thread(places), NEW n
    PROVE  [self EXCEPT !.step = n] =
               [at |-> self.at, m |-> self.m, step |-> n, thread |-> self.thread]
BY DEF Thread

LEMMA InitInv == Init => IInv
<1> SUFFICES ASSUME Init PROVE IInv
  OBVIOUS
<1>1. TypeOK
  BY Parameters, MachinesAre, Names DEF Init, TypeOK, Thread, At, Machines
<1> QED
  BY <1>1, MachinesAre
     DEF Init, IInv, MainInv, TimerInv, MachineInv, Releasing, Starting, At, Gone, Stopped,
         Unhurried

-----------------------------------------------------------------------------
(* One lemma per action: it preserves IInv.                                *)

LEMMA RunTestsKeeps == ASSUME IInv, RunTests PROVE IInv'
<1>1. TypeOK'
  BY MachinesAre, Names DEF IInv, MainInv, Starting, TypeOK, Thread, RunTests, At
<1>2. MainInv'
  BY MachinesAre, Names DEF IInv, MainInv, TimerInv, MachineInv, TypeOK, Thread, Releasing, Starting, Stopped, Unhurried, Gone, RunTests, At
<1>3. TimerInv'
  BY MachinesAre, Names DEF IInv, MainInv, TimerInv, MachineInv, TypeOK, Thread, Releasing, Starting, Stopped, Unhurried, Gone, RunTests, At
<1>4. ASSUME NEW m \in Machines PROVE MachineInv(m)'
  BY MachinesAre, Names DEF IInv, MainInv, TimerInv, MachineInv, TypeOK, Thread, Starting, Stopped, Unhurried, Gone, RunTests, At
<1> QED
  BY <1>1, <1>2, <1>3, <1>4 DEF IInv

LEMMA StartKeeps == ASSUME NEW m \in Machines, IInv, Start(m) PROVE IInv'
<1>1. TypeOK'
  <2>1. main' = [at |-> "start", m |-> m, step |-> 1, thread |-> 0]
    BY DEF Start, At
  <2>2. main' \in Thread({"start"})
    BY <2>1, Names DEF Thread
  <2> QED
    BY <2>2 DEF IInv, TypeOK, Thread, Start
<1>2. MainInv'
  BY MachinesAre, Names DEF IInv, MainInv, TimerInv, MachineInv, TypeOK, Thread, Releasing, Starting, Stopped, Unhurried, Gone, Start, At
<1>3. TimerInv'
  BY MachinesAre, Names DEF IInv, MainInv, TimerInv, MachineInv, TypeOK, Thread, Releasing, Starting, Stopped, Unhurried, Gone, Start, At
<1>4. ASSUME NEW j \in Machines PROVE MachineInv(j)'
  BY MachinesAre, Names DEF IInv, MainInv, TimerInv, MachineInv, TypeOK, Thread, Starting, Stopped, Unhurried, Gone, Start, At
<1> QED
  BY <1>1, <1>2, <1>3, <1>4 DEF IInv

LEMMA WaitKeeps == ASSUME NEW m \in Machines, IInv, Wait(m) PROVE IInv'
<1>1. TypeOK'
  BY MachinesAre, Names DEF IInv, MainInv, Starting, TypeOK, Thread, Wait, At
<1>2. MainInv'
  BY MachinesAre, Names DEF IInv, MainInv, TimerInv, MachineInv, TypeOK, Thread, Releasing, Starting, Stopped, Unhurried, Gone, Wait, At
<1>3. TimerInv'
  BY MachinesAre, Names DEF IInv, MainInv, TimerInv, MachineInv, TypeOK, Thread, Releasing, Starting, Stopped, Unhurried, Gone, Wait, At
<1>4. ASSUME NEW j \in Machines PROVE MachineInv(j)'
  BY MachinesAre, Names DEF IInv, MainInv, TimerInv, MachineInv, TypeOK, Thread, Starting, Stopped, Unhurried, Gone, Wait, At
<1> QED
  BY <1>1, <1>2, <1>3, <1>4 DEF IInv

LEMMA JoinAllKeeps == ASSUME IInv, JoinAll PROVE IInv'
<1>1. TypeOK'
  BY MachinesAre, Names DEF IInv, MainInv, Starting, TypeOK, Thread, JoinAll, At
<1>2. MainInv'
  BY MachinesAre, Names DEF IInv, MainInv, TimerInv, MachineInv, TypeOK, Thread, Releasing, Starting, Stopped, Unhurried, Gone, JoinAll, At
<1>3. TimerInv'
  BY MachinesAre, Names DEF IInv, MainInv, TimerInv, MachineInv, TypeOK, Thread, Releasing, Starting, Stopped, Unhurried, Gone, JoinAll, At
<1>4. ASSUME NEW m \in Machines PROVE MachineInv(m)'
  BY MachinesAre, Names DEF IInv, MainInv, TimerInv, MachineInv, TypeOK, Thread, Starting, Stopped, Unhurried, Gone, JoinAll, At
<1> QED
  BY <1>1, <1>2, <1>3, <1>4 DEF IInv

LEMMA EndScriptKeeps == ASSUME IInv, EndScript PROVE IInv'
<1>1. TypeOK'
  BY MachinesAre, Names DEF IInv, MainInv, Starting, TypeOK, Thread, EndScript, At
<1>2. MainInv'
  BY MachinesAre, Names DEF IInv, MainInv, TimerInv, MachineInv, TypeOK, Thread, Releasing, Starting, Stopped, Unhurried, Gone, EndScript, At
<1>3. TimerInv'
  BY MachinesAre, Names DEF IInv, MainInv, TimerInv, MachineInv, TypeOK, Thread, Releasing, Starting, Stopped, Unhurried, Gone, EndScript, At
<1>4. ASSUME NEW m \in Machines PROVE MachineInv(m)'
  BY MachinesAre, Names DEF IInv, MainInv, TimerInv, MachineInv, TypeOK, Thread, Starting, Stopped, Unhurried, Gone, EndScript, At
<1> QED
  BY <1>1, <1>2, <1>3, <1>4 DEF IInv

LEMMA StartRaisesKeeps == ASSUME IInv, StartRaises PROVE IInv'
<1>1. TypeOK'
  BY MachinesAre, Names DEF IInv, MainInv, Starting, TypeOK, Thread, StartRaises, At
<1>2. MainInv'
  BY MachinesAre, Names DEF IInv, MainInv, TimerInv, MachineInv, TypeOK, Thread, Releasing, Starting, Stopped, Unhurried, Gone, StartRaises, At
<1>3. TimerInv'
  BY MachinesAre, Names DEF IInv, MainInv, TimerInv, MachineInv, TypeOK, Thread, Releasing, Starting, Stopped, Unhurried, Gone, StartRaises, At
<1>4. ASSUME NEW m \in Machines PROVE MachineInv(m)'
  BY MachinesAre, Names DEF IInv, MainInv, TimerInv, MachineInv, TypeOK, Thread, Starting, Stopped, Unhurried, Gone, StartRaises, At
<1> QED
  BY <1>1, <1>2, <1>3, <1>4 DEF IInv

LEMMA ExitKeeps == ASSUME IInv, Exit PROVE IInv'
<1>1. TypeOK'
  <2>1. main' = [at |-> "release", m |-> 1, step |-> 1, thread |-> 0]
    BY MachinesAre, NextIs DEF IInv, MainInv, TypeOK, Exit
  <2>2. main' \in Thread({"release"})
    BY <2>1, Names, MachinesAre DEF Thread
  <2>3. timer' \in {timer, At("cancelled")}
    BY DEF Exit, Cancel
  <2> QED
    BY <2>2, <2>3 DEF IInv, TypeOK, Thread, Exit, At
<1>2. MainInv'
  BY MachinesAre, Names DEF IInv, MainInv, TimerInv, MachineInv, TypeOK, Thread, Releasing, Starting, Stopped, Unhurried, Gone, Exit, Cancel, NextMachine, At
<1>3. TimerInv'
  BY MachinesAre, Names DEF IInv, MainInv, TimerInv, MachineInv, TypeOK, Thread, Releasing, Starting, Stopped, Unhurried, Gone, Exit, Cancel, NextMachine, At
<1>4. ASSUME NEW m \in Machines PROVE MachineInv(m)'
  BY MachinesAre, Names DEF IInv, MainInv, TimerInv, MachineInv, TypeOK, Thread, Starting, Stopped, Unhurried, Gone, Exit, Cancel, NextMachine, At
<1> QED
  BY <1>1, <1>2, <1>3, <1>4 DEF IInv

LEMMA EndKeeps == ASSUME IInv, End PROVE IInv'
<1>1. TypeOK'
  BY MachinesAre, Names DEF IInv, MainInv, Starting, TypeOK, Thread, End, Threads, At
<1>2. MainInv'
  BY MachinesAre, Names DEF IInv, MainInv, TimerInv, MachineInv, TypeOK, Thread, Releasing, Starting, Stopped, Unhurried, Gone, End, Threads, At
<1>3. TimerInv'
  BY MachinesAre, Names DEF IInv, MainInv, TimerInv, MachineInv, TypeOK, Thread, Releasing, Starting, Stopped, Unhurried, Gone, End, Threads, At
<1>4. ASSUME NEW m \in Machines PROVE MachineInv(m)'
  BY MachinesAre, Names DEF IInv, MainInv, TimerInv, MachineInv, TypeOK, Thread, Starting, Stopped, Unhurried, Gone, End, Threads, At
<1> QED
  BY <1>1, <1>2, <1>3, <1>4 DEF IInv

LEMMA TimeUpKeeps == ASSUME IInv, TimeUp PROVE IInv'
<1>1. TypeOK'
  <2>1. timer' = [at |-> "release", m |-> 1, step |-> 1, thread |-> 0]
    BY MachinesAre, NextIs DEF IInv, TimerInv, TypeOK, TimeUp
  <2>2. timer' \in Thread({"release"})
    BY <2>1, Names, MachinesAre DEF Thread
  <2> QED
    BY <2>2 DEF IInv, TypeOK, Thread, TimeUp
<1>2. MainInv'
  BY MachinesAre, Names DEF IInv, MainInv, TimerInv, MachineInv, TypeOK, Thread, Releasing, Starting, Stopped, Unhurried, Gone, TimeUp, NextMachine, At
<1>3. TimerInv'
  BY MachinesAre, Names DEF IInv, MainInv, TimerInv, MachineInv, TypeOK, Thread, Releasing, Starting, Stopped, Unhurried, Gone, TimeUp, NextMachine, At
<1>4. ASSUME NEW m \in Machines PROVE MachineInv(m)'
  BY MachinesAre, Names DEF IInv, MainInv, TimerInv, MachineInv, TypeOK, Thread, Starting, Stopped, Unhurried, Gone, TimeUp, NextMachine, At
<1> QED
  BY <1>1, <1>2, <1>3, <1>4 DEF IInv

LEMMA KillKeeps == ASSUME IInv, Kill PROVE IInv'
<1>1. TypeOK'
  BY MachinesAre, Names DEF IInv, MainInv, Starting, TypeOK, Thread, Kill, At
<1>2. MainInv'
  BY MachinesAre, Names DEF IInv, MainInv, TimerInv, MachineInv, TypeOK, Thread, Releasing, Starting, Stopped, Unhurried, Gone, Kill, At
<1>3. TimerInv'
  BY MachinesAre, Names DEF IInv, MainInv, TimerInv, MachineInv, TypeOK, Thread, Releasing, Starting, Stopped, Unhurried, Gone, Kill, At
<1>4. ASSUME NEW m \in Machines PROVE MachineInv(m)'
  BY MachinesAre, Names DEF IInv, MainInv, TimerInv, MachineInv, TypeOK, Thread, Starting, Stopped, Unhurried, Gone, Kill, At
<1> QED
  BY <1>1, <1>2, <1>3, <1>4 DEF IInv

LEMMA SerialEndsKeeps == ASSUME NEW m \in Machines, NEW t \in 1 .. MaxStarts[m], IInv, SerialEnds(m, t) PROVE IInv'
<1>1. TypeOK'
  BY MachinesAre, Names DEF IInv, MainInv, Starting, TypeOK, Thread, SerialEnds
<1>2. MainInv'
  BY MachinesAre, Names DEF IInv, MainInv, TimerInv, MachineInv, TypeOK, Thread, Releasing, Starting, Stopped, Unhurried, Gone, SerialEnds
<1>3. TimerInv'
  BY MachinesAre, Names DEF IInv, MainInv, TimerInv, MachineInv, TypeOK, Thread, Releasing, Starting, Stopped, Unhurried, Gone, SerialEnds
<1>4. ASSUME NEW j \in Machines PROVE MachineInv(j)'
  BY MachinesAre, Names DEF IInv, MainInv, TimerInv, MachineInv, TypeOK, Thread, Starting, Stopped, Unhurried, Gone, SerialEnds
<1> QED
  BY <1>1, <1>2, <1>3, <1>4 DEF IInv

LEMMA TerminatedKeeps == ASSUME NEW m \in Machines, IInv, Terminated(m) PROVE IInv'
<1>1. TypeOK'
  BY MachinesAre, Names DEF IInv, MainInv, Starting, TypeOK, Thread, Terminated
<1>2. MainInv'
  BY MachinesAre, Names DEF IInv, MainInv, TimerInv, MachineInv, TypeOK, Thread, Releasing, Starting, Stopped, Unhurried, Gone, Terminated
<1>3. TimerInv'
  BY MachinesAre, Names DEF IInv, MainInv, TimerInv, MachineInv, TypeOK, Thread, Releasing, Starting, Stopped, Unhurried, Gone, Terminated
<1>4. ASSUME NEW j \in Machines PROVE MachineInv(j)'
  BY MachinesAre, Names DEF IInv, MainInv, TimerInv, MachineInv, TypeOK, Thread, Starting, Stopped, Unhurried, Gone, Terminated
<1> QED
  BY <1>1, <1>2, <1>3, <1>4 DEF IInv

LEMMA PowersOffKeeps == ASSUME NEW m \in Machines, IInv, PowersOff(m) PROVE IInv'
<1>1. TypeOK'
  BY MachinesAre, Names DEF IInv, MainInv, Starting, TypeOK, Thread, PowersOff
<1>2. MainInv'
  BY MachinesAre, Names DEF IInv, MainInv, TimerInv, MachineInv, TypeOK, Thread, Releasing, Starting, Stopped, Unhurried, Gone, PowersOff
<1>3. TimerInv'
  BY MachinesAre, Names DEF IInv, MainInv, TimerInv, MachineInv, TypeOK, Thread, Releasing, Starting, Stopped, Unhurried, Gone, PowersOff
<1>4. ASSUME NEW j \in Machines PROVE MachineInv(j)'
  BY MachinesAre, Names DEF IInv, MainInv, TimerInv, MachineInv, TypeOK, Thread, Starting, Stopped, Unhurried, Gone, PowersOff
<1> QED
  BY <1>1, <1>2, <1>3, <1>4 DEF IInv

LEMMA WaitForShutdownKeeps == ASSUME IInv, WaitForShutdown PROVE IInv'
<1>1. TypeOK'
  <2>1. main' = At("script") /\ has' \in [Machines -> SUBSET Attributes]
    BY DEF IInv, MainInv, TypeOK, WaitForShutdown, ShutDown
  <2> QED
    BY <2>1 DEF IInv, TypeOK, Thread, WaitForShutdown, At
<1>2. MainInv'
  BY MachinesAre, Names DEF IInv, MainInv, TimerInv, MachineInv, TypeOK, Thread, Releasing, Starting, Stopped, Unhurried, Gone, Needed, WaitForShutdown, ShutDown, At
<1>3. TimerInv'
  BY MachinesAre, Names DEF IInv, MainInv, TimerInv, MachineInv, TypeOK, Thread, Releasing, Starting, Stopped, Unhurried, Gone, Needed, WaitForShutdown, ShutDown, At
<1>4. ASSUME NEW m \in Machines PROVE MachineInv(m)'
  BY MachinesAre, Names DEF IInv, MainInv, TimerInv, MachineInv, TypeOK, Thread, Starting, Stopped, Unhurried, Gone, Needed, WaitForShutdown, ShutDown, At
<1> QED
  BY <1>1, <1>2, <1>3, <1>4 DEF IInv

LEMMA JoinStepKeeps == ASSUME IInv, JoinStep PROVE IInv'
<1>1. TypeOK'
  BY MachinesAre, Names DEF IInv, MainInv, Starting, TypeOK, Thread, JoinStep, ShutDown, Cancel, At
<1>2. MainInv'
  BY MachinesAre, Names DEF IInv, MainInv, TimerInv, MachineInv, TypeOK, Thread, Releasing, Starting, Stopped, Unhurried, Gone, Needed, JoinStep, ShutDown, Cancel, At
<1>3. TimerInv'
  BY MachinesAre, Names DEF IInv, MainInv, TimerInv, MachineInv, TypeOK, Thread, Releasing, Starting, Stopped, Unhurried, Gone, Needed, JoinStep, ShutDown, Cancel, At
<1>4. ASSUME NEW m \in Machines PROVE MachineInv(m)'
  BY MachinesAre, Names DEF IInv, MainInv, TimerInv, MachineInv, TypeOK, Thread, Starting, Stopped, Unhurried, Gone, Needed, JoinStep, ShutDown, Cancel, At
<1> QED
  BY <1>1, <1>2, <1>3, <1>4 DEF IInv

(* Release, by either thread: what it does at each of its steps. *)
LEMMA ReleaseIs ==
    ASSUME NEW places, NEW self \in Thread(places), NEW self_, NEW done, NEW failed,
           IInv, self.at = "release", Releasing(self), Release(self, self_, done, failed)
    PROVE  /\ self.m \in Machines /\ self.m \in Driven
           /\ \/ /\ self.step = 1 /\ "pid" \notin has[self.m]
                 /\ self_ = NextMachine(self, done) /\ vm' = vm
              \/ /\ self.step = 1 /\ "pid" \in has[self.m]
                 /\ self_ = [at |-> "release", m |-> self.m, step |-> 2, thread |-> self.thread]
                 /\ vm' = vm
              \/ /\ self.step = 2
                 /\ self_ = [at |-> "release", m |-> self.m, step |-> 3, thread |-> serial[self.m]]
                 /\ vm' = [vm EXCEPT ![self.m] = IF @ = "running" THEN "dying" ELSE @]
              \/ /\ self.step = 3 /\ self.thread \notin reading[self.m]
                 /\ self_ = NextMachine(self, done) /\ vm' = vm
<1>1. self.m \in Machines /\ self.m \in Driven
  BY MachinesAre DEF Releasing
<1>2. [self EXCEPT !.step = 2] =
        [at |-> "release", m |-> self.m, step |-> 2, thread |-> self.thread]
  BY DEF Thread
<1>3. self.step \in 1 .. 3 /\ (self.step = 2 => Needed \subseteq has[self.m])
  BY DEF Releasing
<1> QED
  BY <1>1, <1>2, <1>3 DEF Release

(* Where a thread goes from a machine it is done with. *)
LEMMA NextOrDone ==
    ASSUME NEW places, NEW self \in Thread(places), NEW done, self.m \in Driven
    PROVE  \/ /\ self.m + 1 \in Driven /\ self.m < NMachines
              /\ NextMachine(self, done) =
                    [at |-> "release", m |-> self.m + 1, step |-> 1, thread |-> 0]
           \/ self.m = NMachines /\ NextMachine(self, done) = At(done)
<1>1. CASE self.m < NMachines
  BY <1>1, NextIs, MachinesAre
<1>2. CASE ~(self.m < NMachines)
  BY <1>2, MachinesAre DEF NextMachine
<1> QED
  BY <1>1, <1>2

LEMMA ExitReleaseKeeps == ASSUME IInv, ExitRelease PROVE IInv'
<1> DEFINE m == main.m
<1>1. /\ main.at = "release" /\ m \in Driven /\ m \in Machines
      /\ UNCHANGED <<timer, has, starts, serial, reading, up>>
      /\ \A j \in Driven : j \in Machines /\ j \in Nat
  BY MachinesAre DEF ExitRelease, IInv, MainInv, Releasing
<1>2. \E places : main \in Thread(places)
  BY DEF IInv, TypeOK
<1>3. \/ /\ main.step = 1 /\ "pid" \notin has[m] /\ vm' = vm
         /\ main' = NextMachine(main, "ending")
      \/ /\ main.step = 1 /\ "pid" \in has[m] /\ vm' = vm
         /\ main' = [at |-> "release", m |-> m, step |-> 2, thread |-> main.thread]
      \/ /\ main.step = 2
         /\ main' = [at |-> "release", m |-> m, step |-> 3, thread |-> serial[m]]
         /\ vm' = [vm EXCEPT ![m] = IF @ = "running" THEN "dying" ELSE @]
      \/ /\ main.step = 3 /\ main.thread \notin reading[m] /\ vm' = vm
         /\ main' = NextMachine(main, "ending")
  BY <1>1, <1>2, ReleaseIs DEF ExitRelease, IInv, MainInv
<1>4. main' = NextMachine(main, "ending") =>
         \/ /\ m + 1 \in Driven /\ m < NMachines
            /\ main' = [at |-> "release", m |-> m + 1, step |-> 1, thread |-> 0]
         \/ /\ m = NMachines
            /\ main' = [at |-> "ending", m |-> 0, step |-> 0, thread |-> 0]
  BY <1>1, <1>2, NextOrDone DEF At
<1> HIDE DEF m
<1>5. \A j \in Machines : vm'[j] = vm[j] \/ (vm[j] = "running" /\ vm'[j] = "dying" /\ j = m /\ main.step = 2)
  BY <1>1, <1>3 DEF IInv, TypeOK
<1>6. TypeOK'
  <2>1. main' \in Thread({"release", "ending"})
    BY <1>1, <1>3, <1>4, Names, MachinesAre DEF IInv, TypeOK, Thread
  <2>2. vm' \in [Machines -> {"none", "running", "dying", "exited"}]
    BY <1>1, <1>3 DEF IInv, TypeOK
  <2> QED
    BY <1>1, <2>1, <2>2 DEF IInv, TypeOK, Thread
<1>7. timer.at = "cancelled" /\ main' = NextMachine(main, "ending") => Stopped(m)
  <2>1. CASE main.step = 1 /\ "pid" \notin has[m]
    BY <1>1, <2>1 DEF IInv, MachineInv, Unhurried, Stopped
  <2>2. CASE main.step = 3 /\ main.thread \notin reading[m]
    BY <1>1, <2>2 DEF IInv, MainInv, MachineInv, Stopped, m
  <2> QED
    BY <1>1, <1>3, <1>4, <2>1, <2>2
<1>8. MainInv'
  BY <1>1, <1>3, <1>4, <1>5, <1>7, MachinesAre DEF m, IInv, MainInv, TimerInv, MachineInv, TypeOK, Releasing, Starting, Stopped, Unhurried, Gone, Needed
<1>9. TimerInv'
  BY <1>1, <1>3, <1>4, <1>5, MachinesAre DEF IInv, MainInv, TimerInv, MachineInv, TypeOK, Releasing, Starting, Stopped, Unhurried, Gone, Needed
<1>10. ASSUME NEW j \in Machines PROVE MachineInv(j)'
  BY <1>1, <1>3, <1>4, <1>5 DEF m, IInv, MainInv, TimerInv, MachineInv, TypeOK, Releasing, Starting, Stopped, Unhurried, Gone, Needed
<1> QED
  BY <1>6, <1>8, <1>9, <1>10 DEF IInv

LEMMA TimerReleaseKeeps == ASSUME IInv, TimerRelease PROVE IInv'
<1> DEFINE m == timer.m
<1>1. /\ timer.at = "release" /\ m \in Driven /\ m \in Machines /\ ~Gone
      /\ UNCHANGED <<main, has, starts, serial, reading, up>>
      /\ \A j \in up : j \in Machines /\ j \in Driven /\ j \in Nat
  BY MachinesAre DEF TimerRelease, IInv, TimerInv, Releasing, TypeOK
<1>2. \E places : timer \in Thread(places)
  BY DEF IInv, TypeOK
<1>3. \/ /\ timer.step = 1 /\ "pid" \notin has[m] /\ vm' = vm
         /\ timer' = NextMachine(timer, "kill")
      \/ /\ timer.step = 1 /\ "pid" \in has[m] /\ vm' = vm
         /\ timer' = [at |-> "release", m |-> m, step |-> 2, thread |-> timer.thread]
      \/ /\ timer.step = 2
         /\ timer' = [at |-> "release", m |-> m, step |-> 3, thread |-> serial[m]]
         /\ vm' = [vm EXCEPT ![m] = IF @ = "running" THEN "dying" ELSE @]
      \/ /\ timer.step = 3 /\ timer.thread \notin reading[m] /\ vm' = vm
         /\ timer' = NextMachine(timer, "kill")
  BY <1>1, <1>2, ReleaseIs DEF TimerRelease, IInv, TimerInv
<1>4. timer' = NextMachine(timer, "kill") =>
         \/ /\ m + 1 \in Driven /\ m < NMachines
            /\ timer' = [at |-> "release", m |-> m + 1, step |-> 1, thread |-> 0]
         \/ /\ m = NMachines
            /\ timer' = [at |-> "kill", m |-> 0, step |-> 0, thread |-> 0]
  BY <1>1, <1>2, NextOrDone DEF At
<1> HIDE DEF m
<1>5. \A j \in Machines : vm'[j] = vm[j] \/ (vm[j] = "running" /\ vm'[j] = "dying" /\ j = m /\ timer.step = 2)
  BY <1>1, <1>3 DEF IInv, TypeOK
<1>6. TypeOK'
  <2>1. timer' \in Thread({"release", "kill"})
    BY <1>1, <1>3, <1>4, Names, MachinesAre DEF IInv, TypeOK, Thread
  <2>2. vm' \in [Machines -> {"none", "running", "dying", "exited"}]
    BY <1>1, <1>3 DEF IInv, TypeOK
  <2> QED
    BY <1>1, <2>1, <2>2 DEF IInv, TypeOK, Thread
<1>7. m \in up /\ timer' = NextMachine(timer, "kill") => Stopped(m)
  <2>1. CASE timer.step = 1 /\ "pid" \notin has[m]
    BY <1>1, <2>1 DEF IInv, MachineInv, Stopped
  <2>2. CASE timer.step = 3 /\ timer.thread \notin reading[m]
    BY <1>1, <2>2 DEF IInv, TimerInv, MachineInv, Stopped, m
  <2> QED
    BY <1>1, <1>3, <1>4, <2>1, <2>2
<1>8. MainInv'
  BY <1>1, <1>3, <1>4, <1>5, MachinesAre DEF m, IInv, MainInv, TimerInv, MachineInv, TypeOK, Releasing, Starting, Stopped, Unhurried, Gone, Needed
<1>9. TimerInv'
  BY <1>1, <1>3, <1>4, <1>5, <1>7, MachinesAre DEF m, IInv, MainInv, TimerInv, MachineInv, TypeOK, Releasing, Starting, Stopped, Unhurried, Gone, Needed
<1>10. ASSUME NEW j \in Machines PROVE MachineInv(j)'
  BY <1>1, <1>3, <1>4, <1>5 DEF m, IInv, MainInv, TimerInv, MachineInv, TypeOK, Releasing, Starting, Stopped, Unhurried, Gone, Needed
<1> QED
  BY <1>6, <1>8, <1>9, <1>10 DEF IInv

LEMMA StartStepKeeps == ASSUME IInv, StartStep PROVE IInv'
<1> DEFINE m == main.m
<1>1. /\ main.at = "start" /\ Starting /\ m \in Machines /\ UNCHANGED timer
      /\ main.step \in 1 .. 8
  BY DEF StartStep, IInv, MainInv, Starting
<1>2. /\ has' = [has EXCEPT ![m] = @ \cup ({StartSteps[main.step]} \cap Attributes)]
      /\ vm' = IF main.step = 1 THEN [vm EXCEPT ![m] = "running"] ELSE vm
      /\ starts' = IF main.step = 1 THEN [starts EXCEPT ![m] = @ + 1] ELSE starts
      /\ up' = IF main.step = 1 THEN up \ {m} ELSE up
      /\ IF main.step = 5
         THEN /\ serial' = [serial EXCEPT ![m] = starts[m]]
              /\ reading' = [reading EXCEPT ![m] = @ \cup {starts[m]}]
         ELSE UNCHANGED <<serial, reading>>
      /\ main' = IF main.step = 8 THEN At("script") ELSE [main EXCEPT !.step = @ + 1]
  <2>1. /\ StartSteps[main.step] = "process" <=> main.step = 1
        /\ StartSteps[main.step] = "serial_thread" <=> main.step = 5
    BY <1>1, Names
  <2> QED
    BY <1>1, <2>1, Names DEF StartStep
<1>3. main' = IF main.step = 8
              THEN [at |-> "script", m |-> 0, step |-> 0, thread |-> 0]
              ELSE [at |-> "start", m |-> m, step |-> main.step + 1, thread |-> main.thread]
  <2>1. [main EXCEPT !.step = @ + 1] =
          [at |-> "start", m |-> m, step |-> main.step + 1, thread |-> main.thread]
    <3>1. PICK places : main \in Thread(places)
      BY DEF IInv, TypeOK
    <3> QED
      BY <1>1, <3>1, StepIs
  <2> QED
    BY <1>2, <2>1 DEF At
<1>4. /\ \A j \in Machines : j # m => has'[j] = has[j]
      /\ has'[m] = has[m] \cup
            CASE main.step = 1 -> {"process"} [] main.step = 2 -> {"monitor"}
              [] main.step = 3 -> {"shell"} [] main.step = 5 -> {"serial_thread"}
              [] main.step = 7 -> {"pid"} [] main.step = 8 -> {"booted"}
              [] OTHER -> {}
      /\ has' \in [Machines -> SUBSET Attributes]
  <2>1. has \in [Machines -> SUBSET Attributes]
    BY DEF IInv, TypeOK
  <2>2. {StartSteps[main.step]} \cap Attributes =
            CASE main.step = 1 -> {"process"} [] main.step = 2 -> {"monitor"}
              [] main.step = 3 -> {"shell"} [] main.step = 5 -> {"serial_thread"}
              [] main.step = 7 -> {"pid"} [] main.step = 8 -> {"booted"}
              [] OTHER -> {}
    <3>1. \/ main.step = 1 \/ main.step = 2 \/ main.step = 3 \/ main.step = 4
          \/ main.step = 5 \/ main.step = 6 \/ main.step = 7 \/ main.step = 8
      BY <1>1
    <3>2. {"qmp"} \cap Attributes = {} /\ {"prompt"} \cap Attributes = {}
      BY AttributesAre
    <3>3. \A what \in Attributes : {what} \cap Attributes = {what}
      OBVIOUS
    <3> QED
      BY <3>1, <3>2, <3>3, Names, AttributesAre
  <2>3. has' \in [Machines -> SUBSET Attributes]
    BY <1>1, <1>2, <2>1
  <2> QED
    BY <1>1, <1>2, <2>1, <2>2, <2>3
<1>5. /\ starts \in [Machines -> Nat] /\ serial \in [Machines -> Nat]
      /\ \A j \in Machines : starts[j] <= MaxStarts[j] /\ serial[j] <= starts[j]
      /\ \A j \in Machines : reading[j] \subseteq 1 .. serial[j]
      /\ reading \in [Machines -> SUBSET Nat] /\ MaxStarts \in [Machines -> Nat]
  BY Parameters DEF IInv, TypeOK, Machines, Driven
<1> HIDE DEF m
<1>6. TypeOK'
  <2>1. main' \in Thread({"start", "script"})
    BY <1>1, <1>3, Names DEF IInv, TypeOK, Thread
  <2>2. /\ vm' \in [Machines -> {"none", "running", "dying", "exited"}]
        /\ up' \subseteq Driven
    BY <1>1, <1>2 DEF IInv, TypeOK
  <2>3. /\ starts' \in [Machines -> Nat] /\ serial' \in [Machines -> Nat]
    BY <1>1, <1>2, <1>5
  <2>4. reading' \in [Machines -> SUBSET Nat]
    BY <1>1, <1>2, <1>5
  <2>5. ASSUME NEW j \in Machines
        PROVE  starts'[j] <= MaxStarts[j] /\ serial'[j] <= starts'[j]
               /\ reading'[j] \subseteq 1 .. serial'[j]
    BY <1>1, <1>2, <1>5 DEF Starting, m
  <2> QED
    BY <1>1, <1>4, <2>1, <2>2, <2>3, <2>4, <2>5 DEF IInv, TypeOK, Thread
<1>7. MainInv'
  BY <1>1, <1>2, <1>3, <1>4, <1>5, MachinesAre DEF m, IInv, MainInv, TimerInv, MachineInv, TypeOK, Releasing, Starting, Stopped, Unhurried, Gone, Needed
<1>8. TimerInv'
  BY <1>1, <1>2, <1>3, <1>4, <1>5, MachinesAre DEF m, IInv, MainInv, TimerInv, MachineInv, TypeOK, Releasing, Starting, Stopped, Unhurried, Gone, Needed
<1>9. ASSUME NEW j \in Machines PROVE MachineInv(j)'
  BY <1>1, <1>2, <1>3, <1>4, <1>5 DEF m, IInv, MainInv, TimerInv, MachineInv, TypeOK, Releasing, Starting, Stopped, Unhurried, Gone, Needed
<1> QED
  BY <1>6, <1>7, <1>8, <1>9 DEF IInv

LEMMA NextKeeps == ASSUME IInv, [Next]_vars PROVE IInv'
<1>1. CASE UNCHANGED vars
  BY <1>1 DEF vars, IInv, TypeOK, MainInv, TimerInv, MachineInv, Releasing, Starting,
              Stopped, Unhurried, Gone
<1>2. CASE MainStep
  BY <1>2, RunTestsKeeps, StartStepKeeps, WaitForShutdownKeeps, JoinStepKeeps,
     StartRaisesKeeps, ExitKeeps, ExitReleaseKeeps, EndKeeps DEF MainStep
<1>3. CASE Script
  BY <1>3, EndScriptKeeps, JoinAllKeeps, StartKeeps, WaitKeeps DEF Script
<1>4. CASE TimerStep
  BY <1>4, TimeUpKeeps, TimerReleaseKeeps, KillKeeps DEF TimerStep
<1>5. ASSUME NEW m \in Machines, Terminated(m) \/ PowersOff(m) PROVE IInv'
  BY <1>5, TerminatedKeeps, PowersOffKeeps
<1>6. ASSUME NEW m \in Machines, NEW t \in 1 .. MaxStarts[m], SerialEnds(m, t) PROVE IInv'
  BY <1>6, SerialEndsKeeps
<1> QED
  BY <1>1, <1>2, <1>3, <1>4, <1>5, <1>6 DEF Next

LEMMA Invariance == Spec => []IInv
BY InitInv, NextKeeps, PTL DEF Spec

-----------------------------------------------------------------------------

\* Every variable of the threads and machines stays in its set.
THEOREM TypeCorrect == Spec => []TypeOK
<1>1. IInv => TypeOK
  BY DEF IInv
<1> QED
  BY <1>1, Invariance, PTL

\* No assertion of release ever fails, in whichever thread and whatever the other
\* is doing to the machine.
THEOREM ReleaseIsSafe == Spec => []ReleaseFindsAll
<1>1. IInv => ReleaseFindsAll
  BY DEF IInv, MainInv, TimerInv, Releasing, ReleaseFindsAll
<1> QED
  BY <1>1, Invariance, PTL

\* However the driver ends, what it was to stop has stopped.
THEOREM NothingOutlivesTheDriver == Spec => []NothingLeftRunning
<1>1. IInv => NothingLeftRunning
  BY DEF IInv, MainInv, TimerInv, NothingLeftRunning, Stopped, Gone
<1> QED
  BY <1>1, Invariance, PTL

=============================================================================
