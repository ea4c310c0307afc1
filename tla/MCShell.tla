------------------------------- MODULE MCShell -------------------------------
(* What test scripts call on one machine, for TLC.                         *)
EXTENDS ShellCommands

\* One operation of each kind: succeed and the waits run the code of fail and of
\* Poll.wait, and switch_root begins with wait_for_unit.
Some == {"start_rebootable", "execute", "fail", "reboot", "shutdown", "crash",
         "switch_root", "poll_wait"}
=============================================================================
