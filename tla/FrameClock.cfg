SPECIFICATION Spec
CONSTANTS
  Micro = 100
  Milli = 10
  Word = 10000
  Rates = {1, 2, 3, 10}
  Takes = {1, 2, 7, 60}
  StartTimes = {100, 101, 195}
  MaxTime = 420
PROPERTY FrameRateKept
CHECK_DEADLOCK FALSE
