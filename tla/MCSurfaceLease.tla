--------------------------- MODULE MCSurfaceLease ---------------------------
(* Small instances of SurfaceLease for TLC. *)
EXTENDS SurfaceLease

CONSTANTS g1, g2, t1, t2
=============================================================================
