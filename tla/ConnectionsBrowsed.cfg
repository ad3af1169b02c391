SPECIFICATION Spec
CONSTANTS
    r1 = r1
    r2 = r2
    t1 = t1
    i1 = i1
    i2 = i2
    Requests = {r1}
    Targets = {t1}
    Ids = {i1, i2}
    NoId = NoId
    MaxTokens = 3
    MaxStates = 0
    MaxFaults = 0
    MaxBrowses = 1
    MaxTroubles = 1
INVARIANT Kept
