\* SurfaceBroker: progress of the watchdog and of submissions
SPECIFICATION FairSpec
CONSTANTS
    b1 = b1
    b2 = b2
    d1 = d1
    Bindings = {b1}
    Domains = {d1}
    DomainOf <- OneDomain
    Grants = {g1, g2}
    Ops = {o1}
    NoGrant = NoGrant
    NoBinding = NoBinding
    MaxUpdates = 2
    MaxEpoch = 1
    MaxGeneration = 1
    Faults = {"outcome", "backend"}
PROPERTIES
    ExpiryFences
    ReservedSettles
CHECK_DEADLOCK FALSE
