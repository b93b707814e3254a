------------------------- MODULE MCSurfaceTransfer -------------------------
(* Small instances of SurfaceTransfer for TLC. *)
EXTENDS SurfaceTransfer, TLC

CONSTANTS t1, t2, d1, d2, A, B, a1, a2, b1

Asks(id, dest, want, meta) ==
    [id |-> id, dest |-> dest, want |-> want, size |-> 1, meta |-> meta]

\* t1 and t2 meet at d1; t2 is also asked for with another destination.  The
\* record of t1 always fits its reservation; that of t2 with d1 does not
\* while it is publishing, and that of t2 with d2 never again.
Meeting == {Asks(t1, d1, A, 1), Asks(t2, d1, A, 2), Asks(t2, d2, B, 3)}

Two == [s \in Sources |-> 2]
One == [s \in Sources |-> 1]

\* a1 and a2 are two encodings of A
Encodings == [s \in Sources |-> IF s = b1 THEN B ELSE A]
=============================================================================
