---------------------------- MODULE ShellCommands ----------------------------
(***************************************************************************)
(* The NixOS test driver's way into a virtual machine: machine.py runs     *)
(* commands in a root shell of the guest that listens on a serial socket,  *)
(* one line out and one line of output back, then one line out and the     *)
(* exit status back.  Nothing in the stream says which command a line      *)
(* belongs to.  Before each command the driver polls the conditions of     *)
(* polling_condition.py, whose own commands go through the same shell and  *)
(* poll in turn.  The shell goes away and comes back with the guest: at a  *)
(* reboot, when stage 2 takes over, when the machine is shut down and      *)
(* started again.                                                          *)
(*                                                                         *)
(* The driver is one thread; stack holds its active calls, innermost       *)
(* first.  External: the guest, that is its shell, its systemd with one    *)
(* unit that is waited for, and QEMU.                                      *)
(***************************************************************************)
EXTENDS Naturals, Sequences, FiniteSetsExt

CONSTANTS
    Conditions,    \* number of polling conditions in force
    Operations,    \* what the test script calls, see Op
    Timeout,       \* seconds that retry goes on
    Hasty,         \* does the script reboot or shut down a machine that it is
                   \* not connected to?
    CanDie,        \* may QEMU exit by itself?
    NCalls         \* calls of execute are numbered 1 .. NCalls, 1 .. NCalls, ...

Op == {"start", "start_rebootable", "execute", "succeed", "fail", "reboot",
       "shutdown", "crash", "switch_root", "wait_until_succeeds",
       "wait_until_fails", "wait_for_unit", "poll_wait"}

ASSUME Parameters ==
    /\ Conditions \in Nat /\ Timeout \in Nat /\ NCalls \in Nat \ {0}
    /\ Operations \subseteq Op
    /\ Hasty \in BOOLEAN /\ CanDie \in BOOLEAN

Polled == 1 .. Conditions
Calls  == 0 .. NCalls              \* 0: of no call
Codes  == {"ok", "bad"}
States == {"inactive", "activating", "active", "failed"}

\* What travels: lines for the shell, and what it prints.
Lines  == [cmd : {"test", "show", "list-jobs", "isolate", "status", "poweroff"},
           call : Calls, by : {0} \cup Polled]
Prints == [kind : {"output", "status", "banner"}, call : Calls,
           val : Codes \cup States \cup {"no_jobs", "jobs", "none"}]
Output(c, v) == [kind |-> "output", call |-> c, val |-> v]
Status(c, v) == [kind |-> "status", call |-> c, val |-> v]
Banner       == [kind |-> "banner", call |-> 0, val |-> "none"]

Nothing      == [call |-> 0, out |-> <<>>, rc |-> Status(0, "ok")]

VARIABLES
    booted, connected,   \* attributes of the Machine
    stack,               \* active calls, innermost first
    answer,              \* what execute, or check, returned last in this call
    raised,              \* an exception is on its way up
    calls,               \* number of the last call of execute
    entries, overdue,    \* of each polling condition: entry_count, overdue
    alive, rebootable,   \* does QEMU run, and without -no-reboot?
    guest,               \* booting, shell (it reads), rebooting, halting
    toGuest, toDriver,   \* the two directions of the socket
    ran,                 \* what PIPESTATUS is about
    unit, job,           \* the unit waited for; is a job queued for it?
    blamed, failing,     \* history of the script's call: the condition it was
                         \* told of, those whose command failed (0: the
                         \* script's own did)
    idle, gone           \* history of wait_for_unit: was the unit ever inactive
                         \* without a job, or did it go down, and was that
                         \* the verdict?

driver  == <<booted, connected, stack, answer, raised, calls>>
polling == <<entries, overdue, blamed>>
machine == <<alive, rebootable, guest, toGuest, toDriver, ran>>
units   == <<unit, job, idle>>
vars    == <<driver, polling, machine, units, failing, gone>>

Init ==
    /\ booted = FALSE /\ connected = FALSE
    /\ stack = <<>> /\ raised = FALSE /\ calls = NCalls
    /\ answer = Nothing
    /\ entries = [i \in Polled |-> 0] /\ overdue = [i \in Polled |-> TRUE]
    /\ alive = FALSE /\ rebootable = FALSE /\ guest = "booting"
    /\ toGuest = <<>> /\ toDriver = <<>> /\ ran = Status(0, "ok")
    /\ unit = "inactive" /\ job = FALSE
    /\ blamed = 0 /\ failing = {} /\ idle = TRUE /\ gone = FALSE

-----------------------------------------------------------------------------
(* Active calls.  at: where the call has got to; next: the first polling   *)
(* condition it has not looked at; cond: the condition it is about, or is  *)
(* made for; tries: attempts that failed; out: output that was read.       *)

Call(op, at, cond) ==
    [op |-> op, at |-> at, cmd |-> "test", call |-> 0, cond |-> cond,
     next |-> 1, tries |-> 0, out |-> <<>>]

Top       == Head(stack)
Below     == Tail(stack)
In(op)    == ~raised /\ stack # <<>> /\ Top.op = op
At(place) == ~raised /\ stack # <<>> /\ Top.at = place

Push(f)      == stack' = <<f>> \o stack
Goto(f)      == stack' = <<f>> \o Below
Continue(at) == Goto([Top EXCEPT !.at = at])

\* The call at the top goes on at f, and calls execute first.
Execute(f, cmd) ==
    /\ calls' = (calls % NCalls) + 1
    /\ stack' = <<[Call("execute", "callbacks", f.cond)
                     EXCEPT !.cmd = cmd, !.call = calls'], f>> \o Below

Raise  == raised' = TRUE /\ UNCHANGED stack
Return == stack' = Below /\ UNCHANGED raised

\* An exception leaves the call at the top.  The script may catch it.
Unwind ==
    /\ raised /\ stack # <<>> /\ Top.op # "check"
    /\ stack' = Below
    /\ raised' = (Below # <<>>)
    /\ UNCHANGED <<booted, connected, answer, calls, polling, machine, units,
                   failing, gone>>

\* The test script calls an operation.  The first three guards: start returns
\* if the machine is booted, crash and shutdown if it is not; a careful script
\* presses no keys and sends no poweroff before it is connected.
Start(op) ==
    CASE op \in {"execute", "reboot", "crash"} -> "callbacks"
      [] op = "shutdown"    -> "poweroff"
      [] op = "switch_root" -> "initrd"
      [] OTHER              -> "try"

Script(op) ==
    /\ stack = <<>> /\ op \in Operations
    /\ op \in {"start", "start_rebootable"} => ~booted
    /\ op \in {"crash", "shutdown"} => booted
    /\ op \in {"reboot", "shutdown"} => connected \/ Hasty
    /\ calls' = IF op = "execute" THEN (calls % NCalls) + 1 ELSE calls
    /\ \E i \in IF op = "poll_wait" THEN Polled ELSE {0} :
          Push([Call(op, Start(op), i)
                  EXCEPT !.call = IF op = "execute" THEN calls' ELSE 0])
    /\ blamed' = 0 /\ failing' = {} /\ gone' = FALSE
    /\ idle' = (op \in {"wait_for_unit", "switch_root"} => unit = "inactive" /\ ~job)
    /\ answer' = Nothing
    /\ UNCHANGED <<booted, connected, raised, entries, overdue, machine, unit, job>>

-----------------------------------------------------------------------------
(* run_callbacks: each condition that is overdue, and that is not being    *)
(* checked already, is checked.                                            *)

Check(f, i) == /\ stack' = <<Call("check", "evaluate", i), f>> \o Below
               /\ entries' = [entries EXCEPT ![i] = @ + 1]

\* Mutant: a condition is checked inside its own check.
DueAgain == {i \in Polled : i >= Top.next /\ overdue[i]}

Due == {i \in Polled : i >= Top.next /\ entries[i] = 0 /\ overdue[i]}

AfterCallbacks == CASE Top.op = "execute" -> "connect"
                    [] Top.op = "reboot"  -> "key"
                    [] Top.op = "crash"   -> "quit"

RunCallbacks ==
    /\ At("callbacks")
    /\ IF Due # {} THEN Check([Top EXCEPT !.next = Min(Due) + 1], Min(Due))
                   ELSE Continue(AfterCallbacks) /\ UNCHANGED entries
    /\ UNCHANGED <<booted, connected, answer, raised, calls, overdue, blamed,
                   machine, units, failing, gone>>

Evaluate ==
    /\ At("evaluate")
    /\ Execute([Top EXCEPT !.at = "evaluated"], "test")
    /\ UNCHANGED <<booted, connected, answer, raised, polling, machine, units,
                   failing, gone>>

\* check absorbs what its condition raises.  maybe_raise turns a failure into an
\* exception of its own; Poll.wait only looks at the result.
Evaluated ==
    LET result == IF ~raised /\ answer.rc.val = "ok" THEN "ok" ELSE "bad"
        waited == Head(Below).op = "poll_wait" IN
    /\ stack # <<>> /\ Top.op = "check" /\ (Top.at = "evaluated" \/ raised)
    /\ entries' = [entries EXCEPT ![Top.cond] = @ - 1]
    /\ overdue' = [overdue EXCEPT ![Top.cond] = FALSE]
    /\ stack' = Below
    /\ answer' = [Nothing EXCEPT !.rc = Status(0, result)]
    /\ raised' = (result = "bad" /\ ~waited)
    /\ blamed' = IF raised' THEN Top.cond ELSE blamed
    /\ UNCHANGED <<booted, connected, calls, machine, units, failing, gone>>

Tick(i) == /\ ~overdue[i] /\ overdue' = [overdue EXCEPT ![i] = TRUE]
           /\ UNCHANGED <<driver, entries, blamed, machine, units, failing, gone>>

-----------------------------------------------------------------------------
(* The machine is started, connected to, stopped.                          *)

\* Machine.start when it is not booted: new sockets, a new QEMU.
StartVm(again) ==
    /\ booted' = TRUE /\ alive' = TRUE /\ rebootable' = again
    /\ guest' = "booting" /\ toGuest' = <<>> /\ toDriver' = <<>>
    /\ unit' = "inactive" /\ job' \in BOOLEAN /\ idle' = (idle \/ ~job')
    /\ UNCHANGED ran

StartCalled ==
    /\ In("start") \/ In("start_rebootable")
    /\ StartVm(Top.op = "start_rebootable")
    /\ Return
    /\ UNCHANGED <<connected, answer, calls, polling, failing, gone>>

Connected ==
    /\ connected' = TRUE
    /\ CASE Top.op = "execute"     -> Continue("send")
         [] Top.op = "switch_root" -> stack' = Below

StartFirst ==
    /\ At("connect") /\ ~connected /\ ~booted
    /\ StartVm(FALSE)
    /\ UNCHANGED <<connected, stack, answer, raised, calls, polling, failing, gone>>

\* The loop of connect: it reads what there is until the banner is in it.
ReadBanner ==
    /\ At("connect") /\ ~connected /\ booted
    /\ \E n \in 1 .. Len(toDriver) :
          /\ toDriver' = SubSeq(toDriver, n + 1, Len(toDriver))
          /\ IF \E k \in 1 .. n : toDriver[k] = Banner
                THEN Connected
                ELSE UNCHANGED <<connected, stack>>
    /\ UNCHANGED <<booted, answer, raised, calls, polling, alive, rebootable,
                   guest, toGuest, ran, units, failing, gone>>

\* At the end of the stream there is nothing to read, and the loop goes on.
ReadNothing == At("connect") /\ ~connected /\ booted /\ ~alive /\ toDriver = <<>>
               /\ UNCHANGED vars

AlreadyConnected ==
    /\ At("connect") /\ connected
    /\ Connected
    /\ UNCHANGED <<booted, answer, raised, calls, polling, machine, units,
                   failing, gone>>

\* reboot and crash go through the monitor, whose socket closes with QEMU.
Key ==
    /\ At("key")
    /\ IF alive THEN /\ guest' = IF guest = "halting" THEN guest ELSE "rebooting"
                     /\ Continue("reset") /\ UNCHANGED raised
                ELSE Raise /\ UNCHANGED guest
    /\ UNCHANGED <<booted, connected, answer, calls, polling, alive, rebootable,
                   toGuest, toDriver, ran, units, failing, gone>>

\* Mutant: reboot leaves connected alone.
ResetNot ==
    /\ At("reset")
    /\ Return
    /\ UNCHANGED <<booted, connected, answer, calls, polling, machine, units, failing, gone>>

Reset ==
    /\ At("reset")
    /\ connected' = FALSE /\ Return
    /\ UNCHANGED <<booted, answer, calls, polling, machine, units, failing, gone>>

Quit ==
    /\ At("quit")
    /\ IF alive THEN alive' = FALSE /\ Continue("wait") /\ UNCHANGED raised
                ELSE Raise /\ UNCHANGED alive
    /\ UNCHANGED <<booted, connected, answer, calls, polling, rebootable, guest,
                   toGuest, toDriver, ran, units, failing, gone>>

\* shutdown writes to the shell's socket, connected or not.
Poweroff ==
    /\ At("poweroff")
    /\ IF alive THEN /\ toGuest' = Append(toGuest, [cmd |-> "poweroff", call |-> 0, by |-> 0])
                     /\ Continue("wait") /\ UNCHANGED raised
                ELSE Raise /\ UNCHANGED toGuest
    /\ UNCHANGED <<booted, connected, answer, calls, polling, alive, rebootable,
                   guest, toDriver, ran, units, failing, gone>>

WaitForShutdown ==
    /\ At("wait") /\ ~alive
    /\ booted' = FALSE /\ connected' = FALSE /\ Return
    /\ UNCHANGED <<answer, calls, polling, machine, units, failing, gone>>

-----------------------------------------------------------------------------
(* execute, once it is connected.                                          *)

\* A socket whose other end is gone raises.  switch_root's command is the one
\* whose output nobody waits for.
Send(cmd, at) ==
    IF alive
    THEN /\ toGuest' = Append(toGuest, [cmd |-> cmd, call |-> Top.call, by |-> Top.cond])
         /\ IF cmd = "isolate" THEN Return ELSE Continue(at) /\ UNCHANGED raised
    ELSE Raise /\ UNCHANGED toGuest

SendCommand ==
    /\ At("send") /\ Send(Top.cmd, "output")
    /\ UNCHANGED <<booted, connected, answer, calls, polling, alive, rebootable,
                   guest, toDriver, ran, units, failing, gone>>

\* Mutant: a read that does not wait.
BlocksNow == {SubSeq(toDriver, 1, n) : n \in 0 .. Len(toDriver)}

\* A block of the output: up to a newline, or nothing if the socket is closed.
Blocks == IF toDriver = <<>> /\ ~alive THEN {<<>>}
          ELSE {SubSeq(toDriver, 1, n) : n \in 1 .. Len(toDriver)}

Take(block) == toDriver' = SubSeq(toDriver, Len(block) + 1, Len(toDriver))

ReadOutput ==
    /\ At("output")
    /\ \E block \in Blocks : Take(block) /\ Goto([Top EXCEPT !.at = "ask", !.out = block])
    /\ UNCHANGED <<booted, connected, answer, raised, calls, polling, alive,
                   rebootable, guest, toGuest, ran, units, failing, gone>>

AskStatus ==
    /\ At("ask") /\ Send("status", "status")
    /\ UNCHANGED <<booted, connected, answer, calls, polling, alive, rebootable,
                   guest, toDriver, ran, units, failing, gone>>

\* int() raises if the block is not one number.
ReadStatus ==
    /\ At("status")
    /\ \E block \in Blocks :
          /\ Take(block)
          /\ IF Len(block) = 1 /\ block[1].kind = "status"
             THEN /\ answer' = [call |-> Top.call, out |-> Top.out, rc |-> block[1]]
                  /\ Return
             ELSE Raise /\ UNCHANGED answer
    /\ UNCHANGED <<booted, connected, calls, polling, alive, rebootable, guest,
                   toGuest, ran, units, failing, gone>>

-----------------------------------------------------------------------------
(* Operations made of execute.                                             *)

\* Mutant: the rounds are not counted.
RetryForever == Goto([Top EXCEPT !.at = "try"]) /\ UNCHANGED raised

\* One more round of retry; after Timeout rounds and the last chance it raises.
Retry == IF Top.tries < Timeout
         THEN Goto([Top EXCEPT !.at = "try", !.tries = @ + 1]) /\ UNCHANGED raised
         ELSE Raise

Command == IF Top.op = "wait_for_unit" THEN "show" ELSE "test"

Try ==
    /\ At("try") /\ Top.op \notin {"start", "start_rebootable", "poll_wait"}
    /\ Execute([Top EXCEPT !.at = "tried"], Command)
    /\ UNCHANGED <<booted, connected, answer, raised, polling, machine, units,
                   failing, gone>>

TryCondition ==
    /\ At("try") /\ Top.op = "poll_wait"
    /\ Check([Top EXCEPT !.at = "tried"], Top.cond)
    /\ UNCHANGED <<booted, connected, answer, raised, calls, overdue, blamed,
                   machine, units, failing, gone>>

\* The exit status the call is after.  wait_for_file, wait_for_open_port,
\* wait_for_open_unix_socket and wait_until_tty_matches wait as
\* wait_until_succeeds does, wait_for_closed_port as wait_until_fails.
Wanted == IF Top.op \in {"fail", "wait_until_fails"} THEN "bad" ELSE "ok"

\* succeed and fail try once; the others, and Poll.wait, retry.
Tried ==
    /\ At("tried") /\ Top.op # "wait_for_unit"
    /\ CASE answer.rc.val = Wanted -> Return
         [] answer.rc.val # Wanted /\ Top.op \in {"succeed", "fail"} -> Raise
         [] OTHER -> Retry
    /\ UNCHANGED <<booted, connected, answer, calls, polling, machine, units,
                   failing, gone>>

\* wait_for_unit looks at the unit; when it is inactive, at the queue of jobs,
\* and when that is empty, at the unit again.
Said == IF answer.out = <<>> \/ answer.rc.val # "ok" THEN "none" ELSE answer.out[1].val

Unchanging == UNCHANGED <<booted, connected, answer, polling, machine, units, failing>>

UnitSeen ==
    /\ At("tried") /\ Top.op = "wait_for_unit"
    /\ CASE Said = "active"     -> Return /\ UNCHANGED calls
         [] Said = "activating" -> Retry /\ UNCHANGED calls
         [] Said = "inactive"   -> /\ Execute([Top EXCEPT !.at = "jobs"], "list-jobs")
                                   /\ UNCHANGED raised
         [] OTHER               -> Raise /\ UNCHANGED calls
    /\ UNCHANGED gone /\ Unchanging

\* Mutant: the unit is not looked at again.
NoJobsOnce == CASE Said = "no_jobs" -> Raise /\ gone' = TRUE /\ UNCHANGED calls
                [] OTHER            -> Retry /\ UNCHANGED <<calls, gone>>

NoJobs == CASE Said = "no_jobs" -> /\ Execute([Top EXCEPT !.at = "again"], "show")
                                   /\ UNCHANGED <<raised, gone>>
            [] OTHER            -> Retry /\ UNCHANGED <<calls, gone>>

JobsSeen == At("jobs") /\ NoJobs /\ Unchanging

UnitSeenAgain ==
    /\ At("again")
    /\ CASE Said = "none"     -> Raise /\ UNCHANGED gone
         [] Said = "inactive" -> Raise /\ gone' = TRUE
         [] OTHER             -> Retry /\ UNCHANGED gone
    /\ UNCHANGED calls /\ Unchanging

WaitForInitrd ==
    /\ At("initrd")
    /\ stack' = <<Call("wait_for_unit", "try", 0), [Top EXCEPT !.at = "isolate"]>> \o Below
    /\ UNCHANGED <<raised, calls, gone>> /\ Unchanging

Isolate ==
    /\ At("isolate")
    /\ Execute([Top EXCEPT !.at = "isolated"], "isolate")
    /\ UNCHANGED <<raised, gone>> /\ Unchanging

\* Mutant: switch_root keeps its connection to the shell of stage 1.
IsolatedConnected ==
    /\ At("isolated")
    /\ Continue("connect")
    /\ UNCHANGED <<booted, connected, answer, raised, calls, polling, machine,
                   units, failing, gone>>

Isolated ==
    /\ At("isolated")
    /\ connected' = FALSE /\ Continue("connect")
    /\ UNCHANGED <<booted, answer, raised, calls, polling, machine, units,
                   failing, gone>>

-----------------------------------------------------------------------------
(* External: the guest.                                                    *)

SetUnit(u, j) == /\ unit' = u /\ job' = j
                 /\ idle' = (idle \/ (u = "inactive" /\ ~j))

\* backdoor.service: the banner, then a shell.
ShellUp ==
    /\ alive /\ guest = "booting"
    /\ guest' = "shell" /\ toDriver' = Append(toDriver, Banner)
    /\ UNCHANGED <<driver, polling, alive, rebootable, toGuest, ran, units, failing, gone>>

Says(chunk) == toDriver' = Append(toDriver, chunk)

RunLine ==
    /\ alive /\ guest = "shell" /\ toGuest # <<>>
    /\ toGuest' = Tail(toGuest)
    /\ LET line == Head(toGuest) IN
       \/ /\ line.cmd = "test"
          /\ \E rc \in Codes :
                /\ ran' = Status(line.call, rc)
                /\ failing' = failing \cup (IF rc = "bad" THEN {line.by} ELSE {})
          /\ Says(Output(line.call, "none"))
          /\ UNCHANGED <<guest, units>>
       \/ /\ line.cmd = "show"
          /\ Says(Output(line.call, unit)) /\ ran' = Status(line.call, "ok")
          /\ UNCHANGED <<guest, units, failing>>
       \/ /\ line.cmd = "list-jobs"
          /\ \E jobs \in {"no_jobs", "jobs"} :
                /\ job => jobs = "jobs"
                /\ Says(Output(line.call, jobs))
          /\ ran' = Status(line.call, "ok")
          /\ UNCHANGED <<guest, units, failing>>
       \/ /\ line.cmd = "status"      \* echo: and now PIPESTATUS is about echo
          /\ Says(ran) /\ ran' = Status(0, "ok")
          /\ UNCHANGED <<guest, units, failing>>
       \/ /\ line.cmd = "isolate"    \* stage 2: another systemd, another shell
          /\ Says(Output(line.call, "none")) /\ ran' = Status(line.call, "ok")
          /\ guest' = "booting" /\ \E j \in BOOLEAN : SetUnit("inactive", j)
          /\ UNCHANGED failing
       \/ /\ line.cmd = "poweroff"
          /\ guest' = "halting"
          /\ UNCHANGED <<toDriver, ran, units, failing>>
    /\ UNCHANGED <<driver, polling, alive, rebootable, gone>>

\* The kernel that goes down may or may not have taken what was sent to it.
GuestDown ==
    /\ alive /\ guest \in {"rebooting", "halting"}
    /\ IF guest = "rebooting" /\ rebootable
       THEN /\ guest' = "booting" /\ toGuest' \in {toGuest, <<>>}
            /\ \E j \in BOOLEAN : SetUnit("inactive", j)
            /\ UNCHANGED alive
       ELSE alive' = FALSE /\ UNCHANGED <<guest, toGuest, units>>
    /\ UNCHANGED <<driver, polling, rebootable, toDriver, ran, failing, gone>>

\* activating stands for every state between two of the others, and the job of a
\* unit that is not inactive is not kept: nobody asks for it.
UnitStep ==
    /\ alive
    /\ \/ unit = "inactive" /\ SetUnit(unit, ~job)     \* queued, or a dependency failed
       \/ (unit = "inactive" => job) /\ SetUnit("activating", TRUE)
       \/ unit \in {"activating", "active"} /\ \E u \in {"active", "failed"} : SetUnit(u, FALSE)
       \/ /\ unit # "inactive"                          \* stopped, or to be started again
          /\ unit' = "inactive" /\ job' \in BOOLEAN /\ idle' = TRUE
    /\ UNCHANGED <<driver, polling, machine, failing, gone>>

Die ==
    /\ CanDie /\ alive
    /\ alive' = FALSE
    /\ UNCHANGED <<driver, polling, rebootable, guest, toGuest, toDriver, ran,
                   units, failing, gone>>

-----------------------------------------------------------------------------

DriverStep ==
    \/ RunCallbacks \/ Evaluate \/ Evaluated \/ Unwind
    \/ StartCalled \/ StartFirst \/ ReadBanner \/ ReadNothing \/ AlreadyConnected
    \/ Key \/ Reset \/ Quit \/ Poweroff \/ WaitForShutdown
    \/ SendCommand \/ ReadOutput \/ AskStatus \/ ReadStatus
    \/ Try \/ TryCondition \/ Tried \/ UnitSeen \/ JobsSeen \/ UnitSeenAgain
    \/ WaitForInitrd \/ Isolate \/ Isolated

Guest == ShellUp \/ RunLine \/ GuestDown

Next ==
    \/ \E op \in Op : Script(op)
    \/ DriverStep \/ Guest \/ UnitStep \/ Die
    \/ \E i \in Polled : Tick(i)

Spec == Init /\ [][Next]_vars

\* The driver goes on while it can; the guest boots, runs what it reads, and
\* goes down when it is told to.  Nothing makes a unit start or QEMU exit.
FairSpec == Spec /\ WF_vars(DriverStep) /\ WF_vars(Guest)

-----------------------------------------------------------------------------
(* Properties.                                                             *)

\* Every variable stays in its set; no condition is checked inside its own
\* check, so the stack is bounded.
Places == {"callbacks", "connect", "send", "output", "ask", "status", "evaluate",
           "evaluated", "try", "tried", "jobs", "again", "key", "reset", "quit",
           "wait", "poweroff", "initrd", "isolate", "isolated"}

Frames == [op : Op \cup {"check"}, at : Places,
           cmd : {"test", "show", "list-jobs", "isolate"}, call : Calls,
           cond : {0} \cup Polled, next : 1 .. Conditions + 1,
           tries : 0 .. Timeout, out : Seq(Prints)]

TypeOK ==
    /\ booted \in BOOLEAN /\ connected \in BOOLEAN /\ raised \in BOOLEAN
    /\ \A k \in DOMAIN stack : stack[k] \in Frames
    /\ Len(stack) <= 3 + 2 * Conditions
    /\ answer \in [call : Calls, out : Seq(Prints), rc : Prints]
    /\ calls \in Calls
    /\ entries \in [Polled -> 0 .. 1] /\ overdue \in [Polled -> BOOLEAN]
    /\ alive \in BOOLEAN /\ rebootable \in BOOLEAN
    /\ guest \in {"booting", "shell", "rebooting", "halting"}
    /\ toGuest \in Seq(Lines) /\ toDriver \in Seq(Prints) /\ ran \in Prints
    /\ unit \in States /\ job \in BOOLEAN
    /\ blamed \in {0} \cup Polled /\ failing \subseteq {0} \cup Polled
    /\ idle \in BOOLEAN /\ gone \in BOOLEAN

\* What execute returns is the output and the exit status of its own command:
\* not of a condition that was polled in between, of the command before, or of
\* a shell that is gone (execute, l.517-549: the stream carries no names).
OutputsArePaired ==
    answer.call # 0 => /\ Len(answer.out) = 1
                       /\ answer.out[1].kind = "output"
                       /\ answer.out[1].call = answer.call
                       /\ answer.rc.call = answer.call

\* A command is written to a shell that is there to read it and has nothing
\* left to say: connected is never left over from a shell that is gone, nor a
\* banner in the stream (l.674, 1150, 1253).
ShellIsThere ==
    At("send") /\ alive => guest = "shell" /\ toGuest = <<>> /\ toDriver = <<>>

\* When the script is told that a polling condition failed while QEMU runs,
\* some condition's command did fail: a condition is never given the answer to
\* another command, be it the script's own (polling_condition.py, maybe_raise).
NoFalseAlarm == blamed # 0 /\ alive => failing \ {0} # {}

\* wait_for_unit gives up on an inactive unit only if the unit was, at some
\* moment since the call, inactive with no job, or went down: not if it merely
\* looked inactive before, and the queue was empty because its job was done
\* (l.359-366).  A unit that is started, and at once restarted, may be given up
\* although there always was a job while it was inactive.
UnitVerdictIsRight == gone => idle

\* Every call comes back to the script, except one that waits for the banner of
\* a machine whose QEMU is gone.
CallsReturn ==
    stack # <<>> ~> (stack = <<>> \/ (~alive /\ At("connect")))

\* Every call comes back to the script ("No need to print empty strings, it means
\* we are waiting", l.838).  TLC refutes it: connect spins on the closed socket of
\* a QEMU that has exited.
ConnectReturns == stack # <<>> ~> stack = <<>>

=============================================================================
