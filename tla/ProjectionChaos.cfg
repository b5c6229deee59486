SPECIFICATION Spec
CONSTANTS
  NumSlots = 3
  Window = 3
  Lag = 1
  SkipRounds = 3
  PackMod = 256
  Clobber = {0}
  SplitSize = 2
  FrameSizes = {1, 3}
  HeaderJunk = {0, 1, 9}
  MaxFrames = 5
  Capacity = 3
  Lossy = TRUE
  Reorders = TRUE
  MaxDups = 1
INVARIANT NoRunaway
PROPERTY DisplaySpec
CHECK_DEADLOCK FALSE
