SPECIFICATION Spec
CONSTANTS
  NumSlots = 10
  Window = 10
  Lag = 5
  SkipRounds = 10
  PackMod = 256
  Clobber = {}
  SplitSize = 1
  FrameSizes = {2}
  HeaderJunk = {1}
  MaxFrames = 18
  Capacity = 1
  Lossy = TRUE
  Reorders = FALSE
  MaxDups = 0
INVARIANT WholeFrames
CHECK_DEADLOCK FALSE
