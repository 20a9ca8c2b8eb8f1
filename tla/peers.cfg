SPECIFICATION FairSpec
CONSTANTS
  Vectors = 2
  ServerVectors = 3
  InitPeers = 3
  MaxIds = 3
  Restartable <- Both
  AnyOrder = FALSE
INVARIANTS TypeOK SignalsPeer SetupSafe
PROPERTY InterruptDelivered
