SPECIFICATION Spec
CONSTANTS
  MaxLoads <- SecondReloads
  MaxFrames = 1
  Lens = {1}
  Alternate = FALSE
  Patient = FALSE
  Faults = TRUE
CHECK_DEADLOCK FALSE
INVARIANTS CommandIntact RegistersInv
