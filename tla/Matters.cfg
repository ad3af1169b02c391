SPECIFICATION FairSpec
CONSTANTS
    d1 = d1
    d2 = d2
    Docs = {d1, d2}
    Operator = Operator
    Retries = 1
    MaxMarks = 2
    MaxFails = 2
INVARIANT ProfileTypeOK
PROPERTY QueueDrains
PROPERTY AwaitedProfiled
PROPERTY UncrossedGrows
CHECK_DEADLOCK FALSE
