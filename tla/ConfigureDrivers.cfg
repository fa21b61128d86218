SPECIFICATION FairSpec
CONSTANTS
    Absent = Absent
    Users = {u1, u2}
    Experts = {u2}
    Servers = {"vc1", "typo"}
    Reachable = {"vc1"}
    Passwords = {"right", "wrong"}
    RightPassword = "right"
    Typed = {"name", "list"}
    MaxVCenters = 2
    MaxFailures = 1
    MaxRuns = 1
INVARIANTS
    TypeOK
    ReferencesExist
    StoredIsValidated
    NoneAfterConfigured
PROPERTY GetsThrough
