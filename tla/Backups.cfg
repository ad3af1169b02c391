SPECIFICATION FairSpec
CONSTANTS
    Runs <- Three
    K = 2
    MinKeep = 1
    Lossy = {1}
    MaxFaults = 1
    MaxStalls = 0
INVARIANT TypeOK
INVARIANT UndisturbedCapturesAlone
INVARIANT UndisturbedCopies
PROPERTY LiveNotReleased
PROPERTY CompletedIsWhole
PROPERTY RunsEnd
CHECK_DEADLOCK FALSE
