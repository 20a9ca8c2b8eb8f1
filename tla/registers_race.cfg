SPECIFICATION Spec
CONSTANTS
  MsgIdx = {0}
  MsgVal = {0, 1}
  Doorbells = {1}
  Parts = {0}
  StsClears <- ClearInOrOut
  StsMasks <- SomeStsMasks
  IntClears <- AckOneOrAll
  IntMasks <- NoMask
  OutMsgs <- SendsOne
  Registers <- RingAndAck
  SingleCpu = FALSE
  MaxCrash = 0
INVARIANTS TypeOK StatusInv WakeupPending
PROPERTY NoUnreadOverwrite
