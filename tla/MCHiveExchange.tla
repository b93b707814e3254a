--------------------------- MODULE MCHiveExchange ---------------------------
(* Small instances of HiveExchange for TLC. *)
EXTENDS HiveExchange, TLC

CONSTANTS c1, c2, m1, m2, m3

\* m2's field uses the identity of c1's program for another one
ClashesOne == [m \in Members |-> IF m = m2 THEN {c1} ELSE {}]

\* m3 does not have the profile the bundles are bound to
FitsSome == [m \in Members |-> IF m = m3 THEN {} ELSE Candidates]
=============================================================================
