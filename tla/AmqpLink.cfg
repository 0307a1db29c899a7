CONSTANTS
  Heartbeats = {0, 1}
  LoginTime = 2
  SockCap = 5
  MaxMsgs = 2
  MaxConns = 3
  MaxBeats = 2
SPECIFICATION FairSpec
INVARIANTS StreamKept WholeFrames NoGap CloseConfirms
PROPERTIES SilenceEnds CallsEnd
CHECK_DEADLOCK FALSE
