SPECIFICATION FairSpec
CONSTANTS
    Nodes = {n1, n2}
    Managed = {n1}
    Events = {"join", "leave", "fault", "crash", "conf", "edit"}
    MaxEvents = 2
INVARIANTS
    TypeOK
    ConfiguredMeansReady
    RecordedAreLabelled
PROPERTIES
    PendingBecomesReady
    NodeStatusCurrent
