SPECIFICATION Spec
CONSTANTS
    b1 = b1
    b2 = b2
    d1 = d1
    d2 = d2
    s1 = s1
    Batches = {b1, b2}
    NoBatch = NoBatch
    Docs = {d1, d2}
    N = 2
    Sweepers = {s1}
    Providers = {"hatchet"}
    Retries = 1
    MaxReopened = 1
    MaxFaults = 1
    MaxStalls = 0
SYMMETRY Alike
INVARIANT UnstrainedDrivenOnce
PROPERTY LastTaskCompletes
CHECK_DEADLOCK FALSE
