SPECIFICATION Spec
CONSTANTS
  MsgIdx = {0}
  MsgVal = {0}
  Doorbells = {}
  Parts = {0}
  StsClears <- ClearInOrOut
  StsMasks <- NoMask
  IntClears <- NoMask
  IntMasks <- NoMask
  OutMsgs <- SendsOne
  Registers <- Unmasks
  SingleCpu = TRUE
  MaxCrash = 0
PROPERTY RefusalInterruptsWriter
