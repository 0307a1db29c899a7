CONSTANTS
    WindowMax = 2
    MaxPacket = 1
    ClientWindow = 1
    InPipe = 1
    OutPipe = 2
    CHAN_RBUF = 1
    SockSize = 1
    MuchData = 1
    MaxBytes = 2
    SSH_NEW_OPENSSH = TRUE
SPECIFICATION FairSpec
INVARIANT WireDiscipline
INVARIANT WindowsAgree
INVARIANT InputComplete
INVARIANT OutputComplete
INVARIANT NeverDisconnected
PROPERTY SessionEnds
CHECK_DEADLOCK FALSE
