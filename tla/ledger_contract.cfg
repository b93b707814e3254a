\* SurfaceLedger: crashes and failed appends at every step of two operations
SPECIFICATION Spec
CONSTANTS
    Ops = {o1, o2}
    Requests = {q1, q2}
    Verdicts = {v1}
    Reconcilers = {r1, r2}
    NoRequest = NoRequest
    NoVerdict = NoVerdict
    NoOp = NoOp
    MaxCrashes = 2
    Faults = {"refused", "unsynced", "torn"}
SYMMETRY Symmetric
PROPERTIES
    KeepsContract
CHECK_DEADLOCK FALSE
