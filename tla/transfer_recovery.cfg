\* SurfaceTransfer: two transfers, crashes, retries and other programs
SPECIFICATION FairSpec
CONSTANTS
    t1 = t1
    t2 = t2
    d1 = d1
    d2 = d2
    A = A
    B = B
    a1 = a1
    a2 = a2
    b1 = b1
    Requests <- Meeting
    Sources = {a1, a2, b1}
    Contents = {A, B}
    Converted <- Encodings
    Limit = 7
    Reservation = 3
    Published <- Two
    Finished <- One
    MaxFailures = 2
    MaxRemoved = 1
INVARIANTS
    FinishedIsWhole
    LeftoversNamed
    CompleteIsThere
    RetainedBounded
PROPERTIES
    RecordsFinal
    RetriesComplete
CHECK_DEADLOCK FALSE
