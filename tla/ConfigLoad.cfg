\* Buffers of 1, 2, 4, 8, 16 and 32 bytes for files that need up to 20.
CONSTANTS
    Files <- ShortFiles
    FirstSize = 1
    Lengths <- SomeLengths
SPECIFICATION FairSpec
INVARIANTS TypeOK NothingDangles
PROPERTY Terminates
CHECK_DEADLOCK FALSE
