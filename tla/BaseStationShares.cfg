CONSTANTS
  a = a
  b = b
  Client <- TwoClients
  Udp = Udp
  EnableUdp = {FALSE}
  Frames = 1
  QueueSize = 1
  PortSize = 3
SPECIFICATION FairSpec
PROPERTY EveryClientGetsIt
CHECK_DEADLOCK FALSE
