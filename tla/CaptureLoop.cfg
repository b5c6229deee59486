SPECIFICATION FairSpec
CONSTANTS
  Screens <- MCScreens
  Functions = {"shot", "recording", "projection"}
  Formats = {"jpg", "bmp"}
  Depths = {16, 24, 30}
  MaxPictures = 3
  MaxChanges = 2
INVARIANT CaptureTypeOK
INVARIANT OverrunCause
INVARIANT BreakCause
INVARIANT JpegWhole
PROPERTY StreamSpec
PROPERTY RoundEnds
CHECK_DEADLOCK FALSE
