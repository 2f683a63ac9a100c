SPECIFICATION Spec
CONSTANTS
  Rows = 2
  Cols = 2
  Glyphs = {" ", "a"}
  Blank = " "
  Zero = "zero"
  Unknown = "unknown"
  Budget = 3
  TabStop = 2
  Windows = {"stdscr", "w"}
  stdscr = "stdscr"
  Sizes <- MCSizes
  Caret = "a"
  Partial = FALSE
  MaxCalls = 5
INVARIANTS
  CleanMeansShown
  CursorInside
  RowsMatch
CHECK_DEADLOCK FALSE
