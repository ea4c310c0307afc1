------------------------------ MODULE MCDriver ------------------------------
(* Small sets of machines, for TLC. *)
EXTENDS TestDriver, TLC

None       == {}
OneCreated == {9}
StartTwice == 1 :> 2
FirstTwice == 1 :> 2 @@ 2 :> 1 @@ 9 :> 1
=============================================================================
