\* A server started with -R.
CONSTANTS
    Sessions = {"s1"}
    Msgs <- Messages
    MaxOps = 0
    Unreliable = FALSE
    Paths = {"a", "b"}
    Inodes = {1, 2, 3}
    Slots = {0}
    OpenModes <- ReadModes
    Data <- OneByte
    MaxLen = 2
    Ops = {"open", "write", "close", "remove", "rename", "posix_rename",
           "hardlink", "mkdir", "rmdir", "setstat", "fsetstat"}
    MaxReqs = 3
    ReadOnly = {"s1"}
    LinkSupported = TRUE
    Faulty = {}
    MaxFaults = 0
    Disciplined = FALSE
    Owner <- SplitOwner
    InitFiles = {"a"}
SPECIFICATION Spec
PROPERTY ReadersAnnounceNothing
CHECK_DEADLOCK FALSE
