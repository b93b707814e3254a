\* SurfaceBroker: two sources that share one input domain
SPECIFICATION Spec
CONSTANTS
    b1 = b1
    b2 = b2
    d1 = d1
    Bindings = {b1, b2}
    Domains = {d1}
    DomainOf <- OneDomain
    Grants = {g1, g2}
    Ops = {}
    NoGrant = NoGrant
    NoBinding = NoBinding
    MaxUpdates = 2
    MaxEpoch = 1
    MaxGeneration = 0
    Faults = {"ledger"}
SYMMETRY Symmetric
INVARIANTS
    LeaseIsLive
    LeaseEpochsUnique
CHECK_DEADLOCK FALSE
