------------------------------- MODULE TestLog -------------------------------
(***************************************************************************)
(* The log of a NixOS test as XML (logger.py, XMLLogger), and the threads  *)
(* that share it.  The thread that reads a machine's console writes nothing*)
(* itself: it puts its lines into a queue, which whoever logs empties into *)
(* the file at each line and at both ends of each nested element.  Those   *)
(* who log are the main thread and, once it has gone off, the race timer's *)
(* thread, which releases the machine inside an element of its own and     *)
(* then kills the driver (terminate_test).  Nothing is locked but the      *)
(* queue: one of the two may hold a line it took from the queue while the  *)
(* other finds the queue empty and writes.                                 *)
(***************************************************************************)
EXTENDS Naturals, Sequences

CONSTANTS
    MaxSerial,    \* lines of the machine's console that are logged
    MaxLines,     \* elements the main thread writes for the script
    MaxDepth      \* nested elements inside each other

ASSUME Bounds == MaxSerial \in Nat /\ MaxLines \in Nat /\ MaxDepth \in Nat

Threads  == {"main", "timer"}
Other(t) == IF t = "main" THEN "timer" ELSE "main"

VARIABLES
    out,         \* the lines in the file, in order, and by which thread
    queue,       \* XMLLogger.queue, of console lines by number
    heard,       \* how many console lines were logged (log_serial)
    printing,    \* _print_serial_logs
    at,          \* of each thread: what it is writing
    hand,        \* of each: the console line it took and has not yet written
    known,       \* of each: how much had been heard when it logged the line
    depth,       \* of each: the nested elements it is inside of
    written,     \* elements written for the script
    raised,      \* an exception is on its way out of the script's elements
    todo,        \* of each thread: how far its part of the driver has got
    up, pid,     \* does the machine run, and does its pid say so?
    thread       \* is its console's thread at work?

file == <<out, queue, heard, hand>>
vars == <<file, printing, at, known, depth, written, raised, todo, up, pid, thread>>

\* log_line.  The characters of lines that two threads write at once may be mixed
\* up, and so may their nested elements: nothing is said of either here.
Writes(t, k, n) == out' = Append(out, [kind |-> k, n |-> n, by |-> t])

Init ==
    /\ out = <<>> /\ queue = <<>> /\ heard = 0 /\ printing = TRUE
    /\ at = [t \in Threads |-> "idle"] /\ hand = [t \in Threads |-> {}]
    /\ known = [t \in Threads |-> 0] /\ depth = [t \in Threads |-> 0]
    /\ written = 0 /\ raised = FALSE
    /\ todo = [t \in Threads |-> IF t = "main" THEN "script" ELSE "set"]
    /\ up = TRUE /\ pid = TRUE /\ thread = TRUE

-----------------------------------------------------------------------------
(* The machine, and the thread that reads its console.                     *)

Alive == todo["main"] # "killed"

LogSerial ==
    /\ Alive /\ thread /\ printing /\ heard < MaxSerial
    /\ heard' = heard + 1 /\ queue' = Append(queue, heard')
    /\ UNCHANGED <<out, hand, printing, at, known, depth, written, raised, todo, up, pid, thread>>

\* The console is at its end, some time after the machine has stopped.
ThreadEnds ==
    /\ Alive /\ thread /\ ~up
    /\ thread' = FALSE
    /\ UNCHANGED <<file, printing, at, known, depth, written, raised, todo, up, pid>>

PowersOff ==
    /\ Alive /\ up /\ up' = FALSE
    /\ UNCHANGED <<file, printing, at, known, depth, written, raised, todo, pid, thread>>

-----------------------------------------------------------------------------
(* XMLLogger, in thread t.  at[t] says what it is emptying the queue for:  *)
(* a line, the inside of an element or leaving it; write, close and end are*)
(* what it writes once it has found the queue empty.                       *)

Machine == UNCHANGED <<up, pid, thread>>

Drains(t) == at[t] \in {"line", "inside", "leave"} /\ hand[t] = {}

\* Mutant: the newest item first.
TakeNewest(t) ==
    /\ Drains(t) /\ queue # <<>>
    /\ hand' = [hand EXCEPT ![t] = {queue[Len(queue)]}]
    /\ queue' = SubSeq(queue, 1, Len(queue) - 1)
    /\ UNCHANGED <<out, heard, printing, at, known, depth, written, raised, todo>> /\ Machine

\* drain_log_queue: get_nowait.
Take(t) ==
    /\ Drains(t) /\ queue # <<>>
    /\ hand' = [hand EXCEPT ![t] = {Head(queue)}]
    /\ queue' = Tail(queue)
    /\ UNCHANGED <<out, heard, printing, at, known, depth, written, raised, todo>> /\ Machine

\* Mutant: what was taken is kept, and written again.
WriteTakenAgain(t) ==
    /\ \E n \in hand[t] : Writes(t, "serial", n)
    /\ \E h \in {{}, hand[t]} : hand' = [hand EXCEPT ![t] = h]
    /\ UNCHANGED <<queue, heard, printing, at, known, depth, written, raised, todo>> /\ Machine

\* drain_log_queue: log_line, of what was taken.
WriteTaken(t) ==
    /\ \E n \in hand[t] : Writes(t, "serial", n)
    /\ hand' = [hand EXCEPT ![t] = {}]
    /\ UNCHANGED <<queue, heard, printing, at, known, depth, written, raised, todo>> /\ Machine

\* Mutant: the line is written without emptying the queue.
DrainedNot == TRUE

\* drain_log_queue: Empty.
Drained == queue = <<>>

Found(t) ==
    /\ Drains(t) /\ Drained
    /\ at' = [at EXCEPT ![t] = CASE @ = "line"   -> "write"
                                 [] @ = "leave"  -> "close"
                                 [] @ = "inside" -> "idle"]
    /\ UNCHANGED <<file, printing, known, depth, written, raised, todo>> /\ Machine

\* log: known is what had been heard from the console when it was called.
Logs(t, what) ==
    /\ at' = [at EXCEPT ![t] = what]
    /\ known' = [known EXCEPT ![t] = heard]

WriteLine(t) ==
    /\ at[t] \in {"write", "close"}
    /\ Writes(t, "line", known[t])
    /\ at' = [at EXCEPT ![t] = IF @ = "write" THEN "idle" ELSE "end"]
    /\ known' = [known EXCEPT ![t] = 0]
    /\ UNCHANGED <<queue, heard, hand, printing, depth, written, raised, todo>> /\ Machine

\* nested: the element is opened first, and the queue emptied into it.
Opens(t) ==
    /\ depth' = [depth EXCEPT ![t] = @ + 1]
    /\ at' = [at EXCEPT ![t] = "inside"]

\* The end of the element, after the line with the time it took.
Close(t) ==
    /\ at[t] = "end"
    /\ at' = [at EXCEPT ![t] = "idle"]
    /\ depth' = [depth EXCEPT ![t] = @ - 1]
    /\ todo' = [todo EXCEPT ![t] = IF @ = "done" THEN "over" ELSE @]
    /\ UNCHANGED <<file, printing, known, written, raised>> /\ Machine

-----------------------------------------------------------------------------
(* The script, in the main thread.                                         *)

Script == at["main"] = "idle" /\ todo["main"] = "script" /\ ~raised

Log ==
    /\ Script /\ written < MaxLines
    /\ Logs("main", "line") /\ written' = written + 1
    /\ UNCHANGED <<file, printing, depth, raised, todo>> /\ Machine

Nest ==
    /\ Script /\ written < MaxLines /\ depth["main"] < MaxDepth
    /\ Opens("main") /\ written' = written + 1
    /\ UNCHANGED <<file, printing, known, raised, todo>> /\ Machine

Leave ==
    /\ Script /\ depth["main"] > 0
    /\ Logs("main", "leave")
    /\ UNCHANGED <<file, printing, depth, written, raised, todo>> /\ Machine

\* An exception leaves nested without a word: there is no finally.
RaiseException ==
    /\ Script /\ raised' = TRUE
    /\ UNCHANGED <<file, printing, at, known, depth, written, todo>> /\ Machine

Unwind ==
    /\ Alive /\ raised /\ depth["main"] > 0
    /\ depth' = [depth EXCEPT !["main"] = @ - 1]
    /\ UNCHANGED <<file, printing, at, known, written, raised, todo>> /\ Machine

\* retry, a polling condition or the script catches it.
Catch ==
    /\ Alive /\ raised /\ raised' = FALSE
    /\ UNCHANGED <<file, printing, at, known, depth, written, todo>> /\ Machine

\* serial_stdout_on, serial_stdout_off.
PrintSerialLogs ==
    /\ Script /\ printing' = ~printing
    /\ UNCHANGED <<file, at, known, depth, written, raised, todo>> /\ Machine

\* wait_for_shutdown: the machine is gone, its console may not be read yet.
WaitForShutdown ==
    /\ Script /\ ~up /\ pid' = FALSE
    /\ UNCHANGED <<file, printing, at, known, depth, written, raised, todo, up, thread>>

-----------------------------------------------------------------------------
(* The end: __exit__ in the main thread, whether or not there is an        *)
(* exception, and terminate_test in the timer's.                           *)

Cleanup ==
    /\ at["main"] = "idle" /\ todo["main"] = "script" /\ depth["main"] = 0
    /\ Opens("main")
    /\ todo' = [todo EXCEPT !["main"] = "cancel"] /\ raised' = FALSE
    /\ UNCHANGED <<file, printing, known, written>> /\ Machine

\* race_timer.cancel, here and in join_all: it stops a timer that has not gone off.
Cancel ==
    /\ at["main"] = "idle" /\ ~raised /\ todo["main"] \in {"script", "cancel"}
    /\ todo' = [t \in Threads |-> CASE todo[t] = "set"    -> "off"
                                    [] todo[t] = "cancel" -> "release"
                                    [] OTHER              -> todo[t]]
    /\ UNCHANGED <<file, printing, at, known, depth, written, raised>> /\ Machine

Fire ==
    /\ todo["timer"] = "set"
    /\ Opens("timer")
    /\ todo' = [todo EXCEPT !["timer"] = "release"]
    /\ UNCHANGED <<file, printing, known, written, raised>> /\ Machine

\* release, of a machine without a pid: there is nothing to do.
Released(t) ==
    /\ todo[t] = "release" /\ at[t] = "idle" /\ ~pid
    /\ todo' = [todo EXCEPT ![t] = "done"]
    /\ UNCHANGED <<file, printing, at, known, depth, written, raised>> /\ Machine

\* Otherwise it says so, terminates it and joins its console's thread.
Release(t) ==
    /\ todo[t] = "release" /\ at[t] = "idle" /\ pid
    /\ Logs(t, "line")
    /\ todo' = [todo EXCEPT ![t] = "terminate"]
    /\ UNCHANGED <<file, printing, depth, written, raised>> /\ Machine

Terminate(t) ==
    /\ todo[t] = "terminate" /\ at[t] = "idle"
    /\ up' = FALSE
    /\ todo' = [todo EXCEPT ![t] = "join"]
    /\ UNCHANGED <<file, printing, at, known, depth, written, raised, pid, thread>>

\* Mutant: the thread is not joined.
JoinedNot == TRUE

Joined == ~thread

Join(t) ==
    /\ todo[t] = "join" /\ at[t] = "idle" /\ Joined
    /\ todo' = [todo EXCEPT ![t] = "done"]
    /\ UNCHANGED <<file, printing, at, known, depth, written, raised>> /\ Machine

Exit ==
    /\ todo["main"] = "done" /\ at["main"] = "idle"
    /\ Logs("main", "leave")
    /\ UNCHANGED <<file, printing, depth, written, raised, todo>> /\ Machine

\* SIGTERM, from inside the timer's element, ends the process with all its threads.
Kill ==
    /\ todo["timer"] = "done" /\ at["timer"] = "idle"
    /\ todo' = [t \in Threads |-> "killed"] /\ at' = [t \in Threads |-> "killed"]
    /\ UNCHANGED <<file, printing, known, depth, written, raised>> /\ Machine

-----------------------------------------------------------------------------

Logger(t) == Alive /\ (Take(t) \/ WriteTaken(t) \/ Found(t) \/ WriteLine(t) \/ Close(t))
Ending(t) == Release(t) \/ Released(t) \/ Terminate(t) \/ Join(t)

Next ==
    \/ LogSerial \/ ThreadEnds \/ PowersOff
    \/ \E t \in Threads : Logger(t) \/ Ending(t)
    \/ Log \/ Nest \/ Leave \/ RaiseException \/ Unwind \/ Catch
    \/ PrintSerialLogs \/ WaitForShutdown
    \/ Cleanup \/ Cancel \/ Fire \/ Exit \/ Kill

Spec == Init /\ [][Next]_vars

-----------------------------------------------------------------------------
(* Properties.                                                             *)

\* Is the k-th item of the file the n-th console line?
IsSerial(k, n) == out[k].kind = "serial" /\ out[k].n = n

\* Where the n-th console line is.
Copies(n) ==
       {<<"file", k>>  : k \in {i \in DOMAIN out : IsSerial(i, n)}}
  \cup {<<"queue", i>> : i \in {i \in DOMAIN queue : queue[i] = n}}
  \cup {<<"hand", t>>  : t \in {t \in Threads : n \in hand[t]}}

\* Whichever threads empty the queue, a console line is lost on the way to the
\* file or doubled by neither: it is in one place, and nothing else is in any
\* (log_serial, drain_log_queue).
EachOnce ==
    /\ \A n \in 1 .. heard : \E c \in Copies(n) : Copies(n) = {c}
    /\ \A k \in DOMAIN out : out[k].kind = "serial" => out[k].n \in 1 .. heard

\* Console lines are in the order in which they were heard, but for the one that
\* a thread held while the other wrote: a line that comes after a later one was
\* written by the other thread, and is the only one that this later one overtook
\* (drain_log_queue; without the timer's thread there is no other).
InOrder ==
    \A k \in DOMAIN out, j \in DOMAIN out :
        /\ k < j
        /\ out[k].kind = "serial" /\ out[j].kind = "serial" /\ out[j].n < out[k].n
        => /\ out[j].by = Other(out[k].by)
           /\ \A i \in DOMAIN out :
                  k < i /\ out[i].kind = "serial" /\ out[i].n < out[k].n => i = j

\* The console lines heard before a line was logged that do not come before it.
Missing(k) == {n \in 1 .. out[k].n : ~ \E j \in 1 .. k - 1 : IsSerial(j, n)}

\* The log can be read as cause and effect: a line comes after every console line
\* that was heard before it was logged, but for one at most, which the other
\* thread had taken from the queue and writes itself (log).
LinesComeAfter ==
    \A k \in DOMAIN out : out[k].kind = "line" =>
        \A n \in Missing(k) :
            /\ \A m \in Missing(k) : m = n
            /\ \/ n \in hand[Other(out[k].by)]
               \/ \E j \in DOMAIN out :
                      k < j /\ IsSerial(j, n) /\ out[j].by = Other(out[k].by)

\* When the driver is done, every console line of a machine that was still up
\* when the script ended is in the log, or in the hand of a timer that went off
\* in the meantime.  (Not of a machine that was shut down: its thread is not
\* joined, and what it reads after the last line is lost.)
NothingLost ==
    todo["main"] = "over" /\ pid =>
        /\ ~thread
        /\ \A n \in 1 .. heard :
               (\E k \in DOMAIN out : IsSerial(k, n)) \/ n \in hand["timer"]

\* The same without exceptions, which holds as long as the timer has not gone off.
\* TLC refutes both with it: the timer holds a line while the main thread writes.
NoneOvertaken ==
    \A k \in DOMAIN out, j \in DOMAIN out :
        k < j /\ out[k].kind = "serial" /\ out[j].kind = "serial" => out[k].n < out[j].n

NoneMissing == \A k \in DOMAIN out : out[k].kind = "line" => Missing(k) = {}

=============================================================================
