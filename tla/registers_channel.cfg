SPECIFICATION Spec
CONSTANTS
  MsgIdx = {0, 1}
  MsgVal = {0, 1}
  Doorbells = {}
  Parts = {0, 1}
  StsClears <- ClearInOrOut
  StsMasks <- NoMask
  IntClears <- NoMask
  IntMasks <- NoMask
  OutMsgs <- SendsOne
  Registers <- SendAndSignal
  SingleCpu = TRUE
  MaxCrash = 1
INVARIANT StatusKeptUntilCleared
PROPERTY ImplementsChannel
