SPECIFICATION FairSpec
CONSTANTS
    Absent = Absent
    Modes = {"url"}
    Events = {"delete", "crash", "fault", "cr"}
    MaxWrites = 3
    MaxEvents = 3
INVARIANT TypeOK
PROPERTIES
    NeverOlderMatrix
    MatrixFollowed
CHECK_DEADLOCK FALSE
