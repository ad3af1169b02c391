SPECIFICATION Spec
CONSTANTS
    f1 = f1
    f2 = f2
    f3 = f3
    Files = {f1, f2, f3}
    NoFile = NoFile
    Statements <- SomeStatements
    Workers = 2
    Places = {"before"}
    MaxIds = 6
    MaxPutBack = 1
    MaxFaults = 0
INVARIANT TypeOK
INVARIANT UndisturbedNoHusks
INVARIANT UndisturbedEdges
INVARIANT UndisturbedDerived
INVARIANT UndisturbedDelivered
PROPERTY OrderKept
CHECK_DEADLOCK FALSE
SYMMETRY Alike
