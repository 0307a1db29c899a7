\* Two sessions that only rename.
CONSTANTS
    Sessions = {"s1", "s2"}
    Msgs <- Messages
    MaxOps = 0
    Unreliable = FALSE
    Paths = {"a", "b", "c", "d"}
    Inodes = {1, 2, 3}
    Slots = {0}
    OpenModes <- PutModes
    Data <- OneByte
    MaxLen = 2
    Ops = {"rename"}
    MaxReqs = 3
    ReadOnly = {}
    LinkSupported = TRUE
    Faulty = {}
    MaxFaults = 0
    Disciplined = FALSE
    Owner <- SplitOwner
    InitFiles = {"a", "d"}
SPECIFICATION Spec
INVARIANT RenameLosesNoFile
CHECK_DEADLOCK FALSE
