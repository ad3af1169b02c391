SPECIFICATION Spec
CONSTANTS
    u = u
    ux = ux
    g = g
    h = h
    admin = admin
    d1 = d1
    d2 = d2
    v1 = v1
    v2 = v2
    o1 = o1
    o2 = o2
    o3 = o3
    p1 = p1
    Principals = {u, ux, g, h, admin}
    Groups = {g, h}
    Admins = {admin}
    Aliases <- Bridged
    SourceAclMode = "sufficient"
    Objects = {o1, o2, o3}
    Versions = {v1, v2}
    Docs = {d1, d2}
    Projects = {p1}
    NoProject = NoProject
    VersionOf <- Observed
    LocalObjects = {o2}
    Callers <- SomeCallers
    StartWorlds <- Starts
    Grantees = {u}
    MirroredAcls <- SomeAcls
    Memberships <- SomeMemberships
    MaxEvents = 3
INVARIANT UnmixedAnswers
INVARIANT UnmixedCitations
INVARIANT UnmixedFinds
INVARIANT ExpansionIsClosure
CHECK_DEADLOCK FALSE
