-------------------------- MODULE MCSurfaceLedger --------------------------
(* Small instances of SurfaceLedger for TLC. *)
EXTENDS SurfaceLedger, TLC

Symmetric == Permutations(Ops) \cup Permutations(Requests) \cup Permutations(Verdicts)
             \cup Permutations(Reconcilers)
=============================================================================
