\* HiveExchange: a bundle is revoked while a member admits it
SPECIFICATION Spec
CONSTANTS
    c1 = c1
    c2 = c2
    m1 = m1
    m2 = m2
    m3 = m3
    Leaders = {l1}
    Members = {m1}
    Candidates = {c1, c2}
    Scouts = {s1}
    Reviewers = {r1}
    Results = {"supports"}
    MinSupport = 1
    MaxGeneration = 2
    MaxStored = 2
    MaxRevoked = 1
    Fits <- FitsSome
    Clashes <- ClashesOne
    Promoting = {c1}
    HeldOut = {c1, c2}
PROPERTY
    RevocationVerified
CHECK_DEADLOCK FALSE
