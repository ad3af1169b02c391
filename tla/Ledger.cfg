SPECIFICATION FairSpec
CONSTANTS
    w1 = w1
    w2 = w2
    NoWorker = NoWorker
    Workers = {w1, w2}
    N = 2
    Metadata = 2
    MaxAttempts = 2
    Budget <- All
    Starts <- OneOfThem
INVARIANT UndisturbedNotStranded
INVARIANT UndisturbedIsCurrent
INVARIANT UndisturbedProjection
INVARIANT UndisturbedQuarantine
PROPERTY Settles
CHECK_DEADLOCK FALSE
