\* SurfaceBroker: one source, takeovers, pauses and revocations against approvals and
\* submissions, with every fault but a full ledger
SPECIFICATION Spec
CONSTANTS
    b1 = b1
    b2 = b2
    d1 = d1
    Bindings = {b1}
    Domains = {d1}
    DomainOf <- OneDomain
    Grants = {g1, g2}
    Ops = {o1}
    NoGrant = NoGrant
    NoBinding = NoBinding
    MaxUpdates = 2
    MaxEpoch = 1
    MaxGeneration = 1
    Faults = {"source", "backend", "outcome"}
SYMMETRY Symmetric
INVARIANTS
    DeliveryStaysFenced
    HumanExcludesCassi
    AuthorityUnbroken
PROPERTIES
    KeepsContract
CHECK_DEADLOCK FALSE
