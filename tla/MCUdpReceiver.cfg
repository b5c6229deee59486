SPECIFICATION ReceiverSpec
CONSTANTS
  NumSlots = 3
  Window = 3
  Lag = 1
  SkipRounds = 2
  PackMod = 4
  Clobber = {0}
  MaxSeq = 5
  Arriving <- MCArriving
INVARIANT ReceiverTypeOK
INVARIANT UniqueSeq
PROPERTY InOrder
PROPERTY StaleForever
PROPERTY OverrunCause
