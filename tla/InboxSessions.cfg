\* Two sessions on the same paths, one of them read-only; no failures.
CONSTANTS
    Sessions = {"s1", "s2"}
    Msgs <- Messages
    MaxOps = 0
    Unreliable = FALSE
    Paths = {"a", "b"}
    Inodes = {1, 2, 3}
    Slots = {0}
    OpenModes <- SomeModes
    Data <- SameByte
    MaxLen = 1
    Ops = {"open", "write", "close", "remove", "rename", "posix_rename",
           "hardlink", "mkdir", "rmdir", "setstat", "fsetstat"}
    MaxReqs = 3
    ReadOnly = {"s1"}
    LinkSupported = FALSE
    Faulty = {}
    MaxFaults = 0
    Disciplined = FALSE
    Owner <- SplitOwner
    InitFiles = {"a"}
SPECIFICATION FairSpec
PROPERTIES ReadOnlyUntouched EventuallyAnnounced
CHECK_DEADLOCK FALSE
