SPECIFICATION Spec
CONSTANTS
  Words = {"shot", "projection", "recording", "jpg", "bmp", "15", "path"}
  MaxArgs = 4
INVARIANT DocumentedWorks
CHECK_DEADLOCK FALSE
