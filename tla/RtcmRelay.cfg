CONSTANTS
  c1 = c1
  c2 = c2
  Port = Port
  Client <- TwoClients
  MaxPiece = 5
  BatchPieces = 4
SPECIFICATION Spec
CHECK_DEADLOCK FALSE
INVARIANTS TypeOK NothingLostWhileCalm NoGap
PROPERTIES WholeFrames ImplementsLossyFifo BatchLeaves EveryoneServed
