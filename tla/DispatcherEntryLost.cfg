CONSTANTS
  c1 = c1
  c2 = c2
  c3 = c3
  d1 = d1
  d2 = d2
  Call <- ThreeCalls
  Drone <- OneDrone
  Requests <- TripleRequests
  CmdTimeout = 0
  MaxRetries = 1
  Result = {TRUE}
SPECIFICATION Spec
INVARIANT TrackedUntilSettled
CHECK_DEADLOCK FALSE
