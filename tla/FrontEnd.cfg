SPECIFICATION FrontFairSpec
CONSTANTS
  StopKept = TRUE
  MaxClicks = 3
INVARIANT MainTypeOK
INVARIANT NoLostWakeup
INVARIANT StopReaches
INVARIANT ListedTwiceAtMost
PROPERTY Rests
PROPERTY AskedAsleepServed
PROPERTY ExitEndsAll
CHECK_DEADLOCK FALSE
