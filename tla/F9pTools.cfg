CONSTANTS
  First = k1
  Second = k2
  k1 = k1
  k2 = k2
  MaxLine = 3
SPECIFICATION Spec
CHECK_DEADLOCK FALSE
INVARIANTS TypeOK OkIsTrue FixedIsTrue FailureIsTrue ConfiguredAsAsked MonitorTellsTruth
PROPERTIES GoesForward
