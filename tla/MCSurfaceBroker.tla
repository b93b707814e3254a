-------------------------- MODULE MCSurfaceBroker --------------------------
(* Small instances of SurfaceBroker for TLC. *)
EXTENDS SurfaceBroker, TLC

CONSTANTS b1, b2, d1

\* every binding shares the one input domain
OneDomain == [b \in Bindings |-> d1]

Symmetric == Permutations(Grants) \cup Permutations(Ops)
=============================================================================
