\* One session with any client; every request, every failure.
CONSTANTS
    Sessions = {"s1"}
    Msgs <- FewMsgs
    MaxOps = 0
    Unreliable = TRUE
    Paths = {"a", "b"}
    Inodes = {1, 2, 3}
    Slots = {0}
    OpenModes <- AllModes
    Data <- TwoBytes
    MaxLen = 2
    Ops = {"open", "write", "close", "remove", "rename", "posix_rename",
           "hardlink", "mkdir", "rmdir", "setstat", "fsetstat"}
    MaxReqs = 4
    ReadOnly = {}
    LinkSupported = TRUE
    Faulty = {"write", "close", "unlink"}
    MaxFaults = 1
    Disciplined = FALSE
    Owner <- SplitOwner
    InitFiles = {"a"}
SPECIFICATION Spec
INVARIANTS NothingQueued CleanExitIsComplete
PROPERTIES RenameAllOrNothing ImplementsContract
CHECK_DEADLOCK FALSE
