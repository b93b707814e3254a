\* SurfaceLease: late, repeated and overtaken calls against a sleeping watchdog
SPECIFICATION FairSpec
CONSTANTS
    g1 = g1
    g2 = g2
    t1 = t1
    t2 = t2
    NoThread = NoThread
    Grants = {g1}
    Threads = {t1, t2}
    Horizon = 5
    Duration = 4
    Timeout = 2
    MaxBeats = 2
    MaxUpdates = 2
INVARIANTS
    SleepIsShort
    WithinEnvelope
PROPERTIES
    EndedIsFinal
    LapsedNotRevived
    LeaseEnds
CHECK_DEADLOCK FALSE
