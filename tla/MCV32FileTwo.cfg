CONSTANTS
  f1 = f1
  w1 = w1
  c1 = c1
  c2 = c2
  Names = {f1}
  NoName = NoName
  MaxFiles = 2
  DataStart = 1
  CardWords = 3
  MaxSize = 1
  Words = {w1}
  Cards = {c1, c2}
  NoCard = NoCard
  MaxOpen = 2
  Modes = {"r+", "a"}
  Kinds = {"blank", "foreign", "stale"}
  OldDirs <- UnusedFormats
  AllocFails = FALSE
  Absent = Absent
  Closed = Closed
SPECIFICATION Spec
SYMMETRY Symmetry
PROPERTY ImplementsStore ForeignNeverWritten CleanMeansSaved
CHECK_DEADLOCK FALSE
