CONSTANTS
  g1 = g1
  g2 = g2
  g3 = g3
  NoConn = NoConn
  Conn <- TwoConns
  MaxTimeouts = 2
  FailureCap = 2
  TunnelEnabled = FALSE
SPECIFICATION FairSpec
PROPERTY RebindIsRetried
CHECK_DEADLOCK FALSE
