CONSTANTS
  a = a
  b = b
  Client <- TwoClients
  Udp = Udp
  EnableUdp = {TRUE, FALSE}
  Frames = 3
  QueueSize = 1
  PortSize = 3
SPECIFICATION FairSpec
INVARIANTS TypeOK LosslessWhileUndisturbed OnceAndInOrder
PROPERTIES ImplementsSharedFifo ReaderUnblocks
CHECK_DEADLOCK FALSE
