------------------------ MODULE MCSurfacePublication ------------------------
(* Small instances of SurfacePublication for TLC. *)
EXTENDS SurfacePublication

CONSTANTS b1, c1
=============================================================================
