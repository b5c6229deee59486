SPECIFICATION FairSpec
CONSTANTS
  StopKept = TRUE
  MaxClicks = 3
PROPERTY CloseEnds
CHECK_DEADLOCK FALSE
