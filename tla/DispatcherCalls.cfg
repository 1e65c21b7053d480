CONSTANTS
  c1 = c1
  c2 = c2
  c3 = c3
  d1 = d1
  d2 = d2
  Call <- TwoCalls
  Drone <- TwoDrones
  Requests <- PairedRequests
  CmdTimeout = 0
  MaxRetries = 1
  Result = {TRUE, FALSE}
SPECIFICATION FairSpec
INVARIANT AnswerFromItsDrone
PROPERTY EveryCallEnds
CHECK_DEADLOCK FALSE
