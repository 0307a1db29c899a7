\* Any client: every kind of request, any time of leaving.  A read takes more
\* than the longest request, so that the input queue grows to its limit.
CONSTANTS
    Requests <- AllRequests
    Answers = {2}
    SFTP_MAX_MSG_LENGTH = 3
    BufSize = 5
    MaxSize = 8
    PipeSize = 5
    MaxReqs = 4
SPECIFICATION FairSpec
INVARIANTS Framed OneAnswerEach QueuesFit
PROPERTY EveryRequestAnswered
CHECK_DEADLOCK FALSE
