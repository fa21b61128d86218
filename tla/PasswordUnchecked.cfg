SPECIFICATION FairSpec
CONSTANTS
    Absent = Absent
    Users = {u1}
    Experts = {}
    Servers = {"vc1"}
    Reachable = {"vc1"}
    Passwords = {"right", "wrong"}
    RightPassword = "right"
    Typed = {"path"}
    MaxVCenters = 1
    MaxFailures = 0
    MaxRuns = 0
INVARIANT StoredIsValidated
