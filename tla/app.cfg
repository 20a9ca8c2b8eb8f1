SPECIFICATION FairSpec
CONSTANTS
  MaxLoads <- Once
  MaxFrames = 2
  Lens = {1, 2}
  Alternate = TRUE
  Patient = FALSE
  Faults = FALSE
CHECK_DEADLOCK FALSE
INVARIANTS TypeOK  WindowRight
PROPERTIES ExactlyOnce FrameRead
