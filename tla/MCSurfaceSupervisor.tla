------------------------ MODULE MCSurfaceSupervisor ------------------------
(* Small instances of SurfaceSupervisor for TLC. *)
EXTENDS SurfaceSupervisor

CONSTANT owner

\* one thread makes every call, in any order
Everything == [p \in Callers |-> Calls]
=============================================================================
