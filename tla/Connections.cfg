SPECIFICATION FairSpec
CONSTANTS
    r1 = r1
    r2 = r2
    t1 = t1
    i1 = i1
    i2 = i2
    Requests = {r1, r2}
    Targets = {t1}
    Ids = {i1, i2}
    NoId = NoId
    MaxTokens = 3
    MaxStates = 1
    MaxFaults = 1
    MaxBrowses = 1
    MaxTroubles = 1
INVARIANT TypeOK
INVARIANT UncrossedKept
PROPERTY Watched
