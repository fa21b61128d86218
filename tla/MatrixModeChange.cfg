SPECIFICATION FairSpec
CONSTANTS
    Absent = Absent
    Modes = {"url", "content"}
    Events = {}
    MaxWrites = 2
    MaxEvents = 0
PROPERTY MatrixFollowed
CHECK_DEADLOCK FALSE
