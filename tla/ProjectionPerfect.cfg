SPECIFICATION FairSpec
CONSTANTS
  NumSlots = 10
  Window = 10
  Lag = 5
  SkipRounds = 10
  PackMod = 4
  Clobber = {0}
  SplitSize = 2
  FrameSizes = {3, 4, 6}
  HeaderJunk = {0, 2}
  MaxFrames = 4
  Capacity = 12
  Lossy = FALSE
  Reorders = FALSE
  MaxDups = 0
INVARIANT WholeFrames
INVARIANT NoStrayWrite
INVARIANT DrainedMeansShown
PROPERTY EveryFrameShown
CHECK_DEADLOCK FALSE
