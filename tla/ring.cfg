SPECIFICATION FairSpec
\* Three slots of 4 bytes; six chunks of 4 bytes and one of 2.
CONSTANTS
  UINT32_MAX = 65535
  Capacity = 270
  RxChunk = 4
  TxChunk = 4
  Total = 26
  MaxRuns = 3
INVARIANT TypeOK
INVARIANT RingInv
INVARIANT NoInvalidSlot
INVARIANT ReceiverSuccess
INVARIANT SenderSuccess
PROPERTY UnreadSlotsKept
PROPERTY ImplementsFifo
 
CHECK_DEADLOCK FALSE
