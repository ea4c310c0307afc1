------------------------------- MODULE MCBoot -------------------------------
(* Instances of SystemdBoot for TLC. *)
EXTENDS SystemdBoot

CONSTANTS s1, s2,     \* two systems; s1 has the specialisation sp
          sp,
          k1, k2,     \* kernels: the specialisation and s2 have one of their own
          i1, i2      \* initial ramdisks

MCSpecsOf    == [s \in Systems |-> IF s = s1 THEN {sp} ELSE {}]
MCParsedSpec == [n \in Specs |-> n]
MCKernelOf   == [b \in Systems \X (Specs \cup {None}) |->
                    IF b = <<s1, None>> THEN k1 ELSE k2]
MCInitrdOf   == [b \in Systems \X (Specs \cup {None}) |->
                    IF b[1] = s1 THEN i1 ELSE i2]

\* Sort keys: "desktop", "nixos" and "work", and what the default's key becomes.
MCKeyBefore  == [k \in SortKeys |-> k - 1]
SameKey      == [b \in Systems \X (Specs \cup {None}) |-> 4]
OwnKeys      == [b \in Systems \X (Specs \cup {None}) |-> IF b[1] = s1 THEN 4 ELSE 2]
WorkKeys     == [b \in Systems \X (Specs \cup {None}) |-> 6]
=============================================================================
