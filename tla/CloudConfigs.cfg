SPECIFICATION FairSpec
CONSTANTS
    Absent = Absent
    Configs = {"one", "two"}
    CpiConfigs <- MCCpiConfigs
    CsiConfig = "two"
    Servers = {"vc1", "vc2"}
    Datacenters = {"d1", "d2"}
    DcLists <- MCLists
    FirstSpecs <- MCFirstSpecs
    Passwords = {"p1", "p2"}
    FirstPassword = "p1"
    VcVersions = {67, 70}
    K8sVersions = {21, 22}
    FirstVersion = 67
    FirstK8sVersion = 21
    CpiMatrix <- MCCpiMatrix
    CsiMatrix <- MCCsiMatrix
    Events = {"spec", "secret", "password", "inventory", "upgrade", "k8s", "fault", "crash", "ends"}
    MaxEvents = 1
INVARIANTS
    TypeOK
    SessionHasDatacenters
PROPERTIES
    VerifiedAsWritten
    WorkingVerified
    BrokenShown
    SelectionCurrent
    DriverDataCurrent
