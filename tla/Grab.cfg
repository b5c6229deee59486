SPECIFICATION GrabSpec
CONSTANTS
  Widths = {1, 2, 3, 4, 5}
  Heights = {1, 2, 3, 5, 8}
  Unset = Unset
  Padding = Padding
  Levels = 8
  Visuals = {"true", "pseudo", "wide", "reversed"}
  DctSize = 2
  Samp = 2
  Dummy = Dummy
INVARIANT InBuffer
INVARIANT FileShowsScreen
INVARIANT IndexInTable
INVARIANT ColourKept
INVARIANT JpegShowsScreen
INVARIANT NothingLeft
PROPERTY JpegEnds
CHECK_DEADLOCK FALSE
