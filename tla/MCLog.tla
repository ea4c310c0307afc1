-------------------------------- MODULE MCLog --------------------------------
(* A short log, for TLC. *)
EXTENDS TestLog
=============================================================================
