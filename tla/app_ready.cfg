SPECIFICATION FairSpec
CONSTANTS
  MaxLoads <- Once
  MaxFrames = 0
  Lens = {1}
  Alternate = TRUE
  Patient = TRUE
  Faults = FALSE
CHECK_DEADLOCK FALSE
PROPERTY BothReady
