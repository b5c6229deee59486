SPECIFICATION RestartSpec
CONSTANTS
  NumSlots = 3
  Window = 2
  Lag = 1
  SkipRounds = 2
  PackMod = 256
  Clobber = {0}
  SplitSize = 2
  FrameSizes = {1, 3}
  HeaderJunk = {1}
  MaxFrames = 6
  Capacity = 40
  Lossy = FALSE
  Reorders = FALSE
  MaxDups = 0
  MaxFaults = 1
INVARIANT RestartCost
INVARIANT DeathCost
INVARIANT WholeUnlessCut
INVARIANT TableLasts
INVARIANT NothingWaits
INVARIANT Rejoins
CHECK_DEADLOCK FALSE
