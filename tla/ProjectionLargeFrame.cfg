SPECIFICATION Spec
CONSTANTS
  NumSlots = 10
  Window = 10
  Lag = 5
  SkipRounds = 10
  PackMod = 256
  Clobber = {}
  SplitSize = 1
  FrameSizes = {256}
  HeaderJunk = {1}
  MaxFrames = 1
  Capacity = 256
  Lossy = FALSE
  Reorders = FALSE
  MaxDups = 0
INVARIANT DrainedMeansShown
CHECK_DEADLOCK FALSE
