\* SurfaceSupervisor: one thread starts, stops, restarts and closes; helpers
\* exit, stall, overflow and outlive kill
SPECIFICATION FairSpec
CONSTANTS
    owner = owner
    Callers = {owner}
    May <- Everything
    MaxControllers = 2
    MaxChildren = 4
    MaxExpired = 1
    MaxRestarts = 1
    Enabled = TRUE
    RestartOnUnhealthy = TRUE
    Stubborn = TRUE
INVARIANTS
    TypeOK
    OneChild
    EligibleIsCurrent
    StoppedHasNoChild
    RestartsBudgeted
PROPERTIES
    StopIsCarriedOut
    DeadIsNotEligible
CHECK_DEADLOCK FALSE
