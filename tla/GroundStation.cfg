CONSTANTS
  d1 = d1
  p1 = p1
  s1 = s1
  s2 = s2
  Drone <- OneDrone
  Socket <- TwoSockets
  Page <- OnePage
  NoSocket = NoSocket
  MaxRetries = 1
  OfflineAge = 1
SPECIFICATION FairGroundSpec
INVARIANTS GroundTypeOK OpenIsRegistered
PROPERTIES KeepsHearing SilentShownOffline
