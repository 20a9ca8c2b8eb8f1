SPECIFICATION Spec
CONSTANTS
  MsgIdx = {0, 1}
  MsgVal = {0, 1}
  Doorbells = {}
  Parts = {0}
  StsClears <- ClearOut
  StsMasks <- NoMask
  IntClears <- NoMask
  IntMasks <- NoMask
  OutMsgs <- Sends
  Registers <- Clears
  SingleCpu = FALSE
  MaxCrash = 0
INVARIANT StatusKeptUntilCleared
