\* SurfacePublication: one source, captures and late admissions against boundaries
SPECIFICATION Spec
CONSTANTS
    b1 = b1
    c1 = c1
    Bindings = {b1}
    Captures = {c1}
    MaxPublications = 2
    Capacity = 2
    MaxFrame = 3
    MaxGeneration = 3
    Faults = {"structure", "release"}
INVARIANTS
    NothingOrphaned
    RetainedIsHeld
    UsableIsFresh
PROPERTIES
    FreshIsNewer
    ObservationsSurvive
CHECK_DEADLOCK FALSE
