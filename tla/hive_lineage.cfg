\* HiveExchange: two leaders race, members refuse or pass over, all crash
SPECIFICATION Spec
CONSTANTS
    c1 = c1
    c2 = c2
    m1 = m1
    m2 = m2
    m3 = m3
    Leaders = {l1, l2}
    Members = {m2, m3}
    Candidates = {c1}
    Scouts = {s1}
    Reviewers = {r1}
    Results = {"supports", "refutes"}
    MinSupport = 1
    MaxGeneration = 2
    MaxStored = 3
    MaxRevoked = 0
    Fits <- FitsSome
    Clashes <- ClashesOne
    Promoting = {}
    HeldOut = {c1}
INVARIANTS
    LineageDense
    PublishedIsStored
PROPERTY
    KeepsContract
CHECK_DEADLOCK FALSE
