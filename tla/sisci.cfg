SPECIFICATION FairSession
CONSTANTS
  Exporters = {1}
  Ids = {7, 8}
  MaxLoads <- Loads
  MaxAllocs = 2
  Segments <- Options
  Faults = TRUE
INVARIANTS TypeOK SessionTypeOK   LocalMapLive
PROPERTIES StaysLinked  SenderConnects
CHECK_DEADLOCK FALSE
