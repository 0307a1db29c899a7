\* A disciplined client and a network that works.  One slot, so that it is
\* reused; seven requests: two whole uploads and a rename or a removal.
CONSTANTS
    Sessions = {"s1"}
    Msgs <- Messages
    MaxOps = 0
    Unreliable = FALSE
    Paths = {"a", "b"}
    Inodes = {1, 2, 3}
    Slots = {0}
    OpenModes <- PutModes
    Data <- TwoBytes
    MaxLen = 3
    Ops = {"open", "write", "close", "remove", "rename", "posix_rename", "mkdir", "rmdir"}
    MaxReqs = 7
    ReadOnly = {}
    LinkSupported = TRUE
    Faulty = {"write"}
    MaxFaults = 1
    Disciplined = TRUE
    Owner <- SplitOwner
    InitFiles = {"a"}
SPECIFICATION Spec
INVARIANTS ViewIsInbox DigestIsPrefix
CHECK_DEADLOCK FALSE
