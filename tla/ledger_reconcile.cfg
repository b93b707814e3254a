\* SurfaceLedger: refuted: a recorded reconciliation stays
SPECIFICATION Spec
CONSTANTS
    Ops = {o1}
    Requests = {q1}
    Verdicts = {v1, v2}
    Reconcilers = {r1, r2}
    NoRequest = NoRequest
    NoVerdict = NoVerdict
    NoOp = NoOp
    MaxCrashes = 0
    Faults = {}
PROPERTIES
    ReconciliationIsFinal
CHECK_DEADLOCK FALSE
