------------------------------- MODULE MCUsers -------------------------------
(* Instances of UsersGroups for TLC. *)
EXTENDS UsersGroups

CONSTANTS a, b, c   \* names

(* A configuration that declares the users us and the groups gs; the name s,
   if declared, has the explicit id i. *)
Config(m, us, gs, s, i) ==
    [mutable |-> m,
     ids |-> [k \in Kinds |->
                 [n \in Names |->
                     IF n \notin (IF k = "user" THEN us ELSE gs) THEN None
                     ELSE IF n = s THEN i ELSE AnyId]]]

MCIds     == 1..3 \cup 11..13
MCSysIds  == 1..3
MCUserIds == 11..13
MCSubIds  == 0..6

(* Users, and groups of the names b and c; b, where it is declared, has the id 11,
   the first one that users get automatically; mutable accounts, but for one
   configuration. *)
MCConfigs == {Config(TRUE, ns, ns \cap {b, c}, b, 11) :
                 ns \in {{}, {c}, {a, b}, {a, c}, Names}}
             \cup {Config(FALSE, {a}, {b}, b, 11)}

(* Mutable accounts, all ids automatic, no groups. *)
UserConfigs == {Config(TRUE, ns, {}, None, AnyId) : ns \in SUBSET Names}
=============================================================================
