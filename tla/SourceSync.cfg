SPECIFICATION FairSpec
CONSTANTS
    o1 = o1
    o2 = o2
    Objects = {o1, o2}
    Scopes <- AllScopes
    ScopeOf <- MCScopeOf
    MaxRequired = 2
    MinGuard = 1
    Delta = TRUE
    CheapMemberships = TRUE
    Verifiable = FALSE
    AllowEmpty = FALSE
    AclRefresh = TRUE
    TokenFirst = TRUE
    MaxEdits = 2
    MaxOmits = 1
    MaxSurprises = 3
    MaxFaults = 1
    MaxSettings = 2
INVARIANT CursorSound
INVARIANT HeldObjectsIndexed
PROPERTY BulkDeletionConfirmed
PROPERTY Converges
