------------------------------ MODULE TestDriver ------------------------------
(***************************************************************************)
(* The life of the virtual machines under the NixOS test driver.  The main *)
(* thread runs the test script inside `with Driver(...)`: it starts        *)
(* machines, waits for them to shut down, and releases them on the way out.*)
(* The race timer runs in a thread of its own: when the time is up it      *)
(* releases every machine under the main thread's feet and sends the       *)
(* driver SIGTERM.  Each running machine has a thread that reads its       *)
(* console.  Nothing is locked; release goes by the machine's pid.         *)
(*                                                                         *)
(* External: QEMU, and what the script does between its calls.             *)
(***************************************************************************)
EXTENDS Naturals, Sequences, FiniteSets

CONSTANTS
    NMachines,    \* machines 1 .. NMachines are the driver's
    Created,      \* machines the script made with create_machine
    MaxStarts     \* how often each machine is started at most

ASSUME Parameters ==
    /\ NMachines \in Nat \ {0}
    /\ Created \subseteq Nat \ (0 .. NMachines) /\ IsFiniteSet(Created)
    /\ MaxStarts \in [(1 .. NMachines) \cup Created -> Nat]

Driven   == 1 .. NMachines            \* Driver.machines
Machines == Driven \cup Created

\* Mutant: the pid is set as soon as there is a process.
StartStepsPidFirst == <<"process", "pid", "monitor", "shell", "qmp",
                        "serial_thread", "prompt", "booted">>

\* What start sets, one after the other; the socket of QMP and the prompt of the
\* monitor are steps that set nothing here.
StartSteps == <<"process", "monitor", "shell", "qmp", "serial_thread", "prompt",
                "pid", "booted">>
Attributes == {StartSteps[k] : k \in DOMAIN StartSteps} \ {"qmp", "prompt"}

VARIABLES
    main,      \* the main thread: where it is, the machine it is at, its step,
               \* the thread it joins
    timer,     \* the race timer: likewise
    has,       \* the attributes of each Machine that are set
    vm,        \* QEMU: none, running, dying (terminated), exited
    starts,    \* how often QEMU was started: also the name of its console
    serial,    \* the serial_thread of each Machine, named for what it reads
    reading,   \* the serial threads of each that are at work
    up         \* history: the machines that were up when the time was up, and
               \* have not been started again

vars == <<main, timer, has, vm, starts, serial, reading, up>>

At(place) == [at |-> place, m |-> 0, step |-> 0, thread |-> 0]

Init ==
    /\ main = At("run_tests") /\ timer = At("new")
    /\ has = [m \in Machines |-> {}]
    /\ vm = [m \in Machines |-> "none"]
    /\ starts = [m \in Machines |-> 0]
    /\ serial = [m \in Machines |-> 0] /\ reading = [m \in Machines |-> {}]
    /\ up = {}

Gone == main.at = "gone"

-----------------------------------------------------------------------------
(* release, in either thread: self is main or the timer.                   *)

\* Mutant: one machine too many.
NextMachineTooFar(self, done) ==
    IF self.m <= NMachines
    THEN [self EXCEPT !.at = "release", !.m = @ + 1, !.step = 1, !.thread = 0]
    ELSE At(done)

\* The thread goes on to the next machine, or is done with all of them.
NextMachine(self, done) ==
    IF self.m < NMachines
    THEN [self EXCEPT !.at = "release", !.m = @ + 1, !.step = 1, !.thread = 0]
    ELSE At(done)

Needed == {"process", "shell", "monitor", "serial_thread"}

\* An assertion that fails ends the timer's thread, and __exit__ in the main one.
Release(self, self_, done, failed) ==
    LET m == self.m IN
    \/ /\ self.step = 1 /\ "pid" \notin has[m]
       /\ self_ = NextMachine(self, done)
       /\ UNCHANGED vm
    \/ /\ self.step = 1 /\ "pid" \in has[m]
       /\ self_ = [self EXCEPT !.step = 2]
       /\ UNCHANGED vm
    \/ /\ self.step = 2 /\ ~(Needed \subseteq has[m])
       /\ self_ = At(failed)
       /\ UNCHANGED vm
    \/ /\ self.step = 2 /\ Needed \subseteq has[m]
       /\ self_ = [at |-> "release", m |-> m, step |-> 3, thread |-> serial[m]]
       /\ vm' = [vm EXCEPT ![m] = IF @ = "running" THEN "dying" ELSE @]
    \/ /\ self.step = 3 /\ self.thread \notin reading[m]      \* join
       /\ self_ = NextMachine(self, done)
       /\ UNCHANGED vm

-----------------------------------------------------------------------------
(* The main thread.                                                        *)

RunTests ==
    /\ main.at = "run_tests"
    /\ main' = At("script") /\ timer' = At("armed")
    /\ UNCHANGED <<has, vm, starts, serial, reading, up>>

\* The script calls start.
Start(m) ==
    /\ main.at = "script" /\ "booted" \notin has[m] /\ starts[m] < MaxStarts[m]
    /\ main' = [At("start") EXCEPT !.m = m, !.step = 1]
    /\ UNCHANGED <<timer, has, vm, starts, serial, reading, up>>

\* Accepting a connection waits for QEMU to make it.
StartStep ==
    LET m == main.m  what == StartSteps[main.step] IN
    /\ main.at = "start"
    /\ what \in {"monitor", "shell", "qmp"} => vm[m] = "running"
    /\ has' = [has EXCEPT ![m] = @ \cup ({what} \cap Attributes)]
    /\ vm' = IF what = "process" THEN [vm EXCEPT ![m] = "running"] ELSE vm
    /\ starts' = IF what = "process" THEN [starts EXCEPT ![m] = @ + 1] ELSE starts
    /\ up' = IF what = "process" THEN up \ {m} ELSE up
    /\ IF what = "serial_thread"
       THEN /\ serial' = [serial EXCEPT ![m] = starts[m]]
            /\ reading' = [reading EXCEPT ![m] = @ \cup {starts[m]}]
       ELSE UNCHANGED <<serial, reading>>
    /\ main' = IF main.step = Len(StartSteps) THEN At("script")
                                              ELSE [main EXCEPT !.step = @ + 1]
    /\ UNCHANGED timer

\* The script waits for a machine to shut down, or for all of them.
Wait(m) ==
    /\ main.at = "script" /\ "booted" \in has[m]
    /\ main' = [At("wait") EXCEPT !.m = m]
    /\ UNCHANGED <<timer, has, vm, starts, serial, reading, up>>

JoinAll ==
    /\ main.at = "script"
    /\ main' = [At("join_all") EXCEPT !.m = 1]
    /\ UNCHANGED <<timer, has, vm, starts, serial, reading, up>>

\* Timer.cancel does nothing to a timer that has gone off.
Cancel == timer' = IF timer.at = "armed" THEN At("cancelled") ELSE timer

\* Mutant: the pid is dropped before the process has ended.
ShutDownAtOnce(m) == has' = [has EXCEPT ![m] = @ \ {"pid", "booted"}]

ShutDown(m) == /\ "booted" \in has[m] => vm[m] = "exited"
               /\ has' = IF "booted" \in has[m] THEN [has EXCEPT ![m] = @ \ {"pid", "booted"}]
                                                ELSE has

WaitForShutdown ==
    /\ main.at = "wait" /\ ShutDown(main.m)
    /\ main' = At("script")
    /\ UNCHANGED <<timer, vm, starts, serial, reading, up>>

JoinStep ==
    /\ main.at = "join_all" /\ ShutDown(main.m)
    /\ IF main.m < NMachines
       THEN main' = [main EXCEPT !.m = @ + 1] /\ UNCHANGED timer
       ELSE main' = At("script") /\ Cancel
    /\ UNCHANGED <<vm, starts, serial, reading, up>>

\* The script comes to its end, or lets an exception through: one of its own, or
\* of start when QEMU is gone.
EndScript ==
    /\ main.at = "script"
    /\ main' = At("exit")
    /\ UNCHANGED <<timer, has, vm, starts, serial, reading, up>>

StartRaises ==
    /\ main.at = "start" /\ StartSteps[main.step] = "qmp" /\ vm[main.m] # "running"
    /\ main' \in {At("script"), At("exit")}
    /\ UNCHANGED <<timer, has, vm, starts, serial, reading, up>>

\* Driver.__exit__.
Exit ==
    /\ main.at = "exit" /\ Cancel
    /\ main' = NextMachine(main, "ending")
    /\ UNCHANGED <<has, vm, starts, serial, reading, up>>

ExitRelease ==
    /\ main.at = "release"
    /\ Release(main, main', "ending", "ending")
    /\ UNCHANGED <<timer, has, starts, serial, reading, up>>

\* The interpreter waits for the threads that are left.
Threads == {m \in Machines : reading[m] # {}}

End ==
    /\ main.at = "ending" /\ Threads = {} /\ timer.at \in {"new", "cancelled", "ended"}
    /\ main' = At("gone")
    /\ UNCHANGED <<timer, has, vm, starts, serial, reading, up>>

-----------------------------------------------------------------------------
(* The race timer, the serial threads, QEMU.                               *)

TimeUp ==
    /\ timer.at = "armed" /\ ~Gone
    /\ timer' = NextMachine(timer, "kill")
    /\ up' = {m \in Driven : "booted" \in has[m]}
    /\ UNCHANGED <<main, has, vm, starts, serial, reading>>

TimerRelease ==
    /\ timer.at = "release" /\ ~Gone
    /\ Release(timer, timer', "kill", "ended")
    /\ UNCHANGED <<main, has, starts, serial, reading, up>>


\* SIGTERM ends the driver wherever its main thread is.
Kill ==
    /\ timer.at = "kill" /\ ~Gone
    /\ timer' = At("ended") /\ main' = At("gone")
    /\ UNCHANGED <<has, vm, starts, serial, reading, up>>

\* A thread reads to the end of the console it was made for.
SerialEnds(m, t) ==
    /\ t \in reading[m]
    /\ t = starts[m] => vm[m] = "exited"
    /\ reading' = [reading EXCEPT ![m] = @ \ {t}]
    /\ UNCHANGED <<main, timer, has, vm, starts, serial, up>>

Terminated(m) ==
    /\ vm[m] = "dying"
    /\ vm' = [vm EXCEPT ![m] = "exited"]
    /\ UNCHANGED <<main, timer, has, starts, serial, reading, up>>

\* The guest powers off, or QEMU fails.
PowersOff(m) ==
    /\ vm[m] = "running" /\ ~Gone
    /\ vm' = [vm EXCEPT ![m] = "exited"]
    /\ UNCHANGED <<main, timer, has, starts, serial, reading, up>>

-----------------------------------------------------------------------------

MainStep == RunTests \/ StartStep \/ WaitForShutdown \/ JoinStep \/ StartRaises
            \/ Exit \/ ExitRelease \/ End
Script   == EndScript \/ JoinAll \/ \E m \in Machines : Start(m) \/ Wait(m)
TimerStep == TimeUp \/ TimerRelease \/ Kill

Next ==
    \/ MainStep \/ Script \/ TimerStep
    \/ \E m \in Machines : \/ Terminated(m) \/ PowersOff(m)
                         \/ \E t \in 1 .. MaxStarts[m] : SerialEnds(m, t)

Spec == Init /\ [][Next]_vars

\* The threads go on, time passes, QEMU obeys SIGTERM.  The script may hang, and
\* a guest may run for ever.
FairSpec ==
    /\ Spec
    /\ WF_vars(MainStep) /\ WF_vars(TimerStep)
    /\ \A m \in Machines : /\ WF_vars(Terminated(m))
                            /\ \A t \in 1 .. MaxStarts[m] : WF_vars(SerialEnds(m, t))

-----------------------------------------------------------------------------
(* Properties.                                                             *)

Thread(places) == [at : places, m : {0} \cup Machines, step : 0 .. Len(StartSteps),
                   thread : Nat]

\* Every variable stays in its set.
TypeOK ==
    /\ main \in Thread({"run_tests", "script", "start", "wait", "join_all",
                        "exit", "release", "ending", "gone"})
    /\ timer \in Thread({"new", "armed", "cancelled", "release", "kill", "ended"})
    /\ has \in [Machines -> SUBSET Attributes]
    /\ vm \in [Machines -> {"none", "running", "dying", "exited"}]
    /\ starts \in [Machines -> Nat] /\ serial \in [Machines -> Nat]
    /\ reading \in [Machines -> SUBSET Nat]
    /\ \A m \in Machines : /\ starts[m] <= MaxStarts[m] /\ serial[m] <= starts[m]
                           /\ reading[m] \subseteq 1 .. serial[m]
    /\ up \subseteq Driven

\* Whoever has seen the pid of a machine finds everything that release takes
\* apart, whatever the main thread is doing to the machine: no assertion of
\* release ever fails (l.1227-1230), which would keep the timer from its SIGTERM.
ReleaseFindsAll ==
    \A self \in {main, timer} :
        self.at = "release" /\ self.step = 2 => Needed \subseteq has[self.m]

\* When the driver has ended by itself, none of its machines is left; when the
\* timer has ended it, no machine is left that was up when the time was up.
\* Those that were being started then, or were started behind the timer's back,
\* do stay (release, l.1224).
NothingLeftRunning ==
    Gone => \A m \in IF timer.at = "cancelled" THEN Driven ELSE up :
                vm[m] \in {"none", "exited"}

\* The driver ends, even if the script hangs: it and the timer never wait for
\* each other.  It may go on for ever only if join_all has stopped the timer, or
\* when the script is over and a machine of create_machine runs on, whose
\* console thread nobody stops.
Unguarded == timer.at = "cancelled" /\ main.at \in {"script", "start", "wait", "join_all"}
Unstopped == main.at = "ending" /\ \E m \in Created : reading[m] # {}


\* "Test will time out and terminate in N seconds" (driver.py:163).  TLC refutes
\* it: join_all stops the timer, and the script may go on after it.
TimesOut == <>Gone

=============================================================================
