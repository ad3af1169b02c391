SPECIFICATION FairSpec
CONSTANTS
    r1 = r1
    r2 = r2
    Runs = {r1, r2}
    Providers = {"local", "hatchet"}
    Retries = 1
    MaxChanges = 1
    MaxFaults = 1
    MaxStalls = 1
INVARIANT OneActiveRun
INVARIANT UnstrainedScansAlone
PROPERTY RunsEnd
PROPERTY ChangesReachSource
PROPERTY KeepsLease
