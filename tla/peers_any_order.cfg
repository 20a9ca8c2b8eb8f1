SPECIFICATION Spec
CONSTANTS
  Vectors = 2
  ServerVectors = 3
  InitPeers = 1
  MaxIds = 3
  Restartable <- OnlySecond
  AnyOrder = TRUE
INVARIANT SetupSafe
