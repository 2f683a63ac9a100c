CONSTANTS
  n1 = n1
  Names = {n1}
  NoName = NoName
  MaxFiles = 3
  DataStart = 1
  CardWords = 4
  MaxSize = 3
  Bits = 9
  Rows = 2
  Cols = 3
  SearchDirs <- MCSearchDirs
  Formats <- MCFormats
  Years = {2023, 2024, 2100}
  Prompts <- MCPrompts
  Keys = {97, 32, 8, 10, 13, 27}
  Sizes = {1, 2, 3, 5, 8}
  Absent = Absent
SPECIFICATION MCSpec
INVARIANTS
  FindsFirstFit
  PrintsReadBack
  DatesExact
  LineAsShown
PROPERTY Terminates
CHECK_DEADLOCK FALSE
