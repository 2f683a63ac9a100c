CONSTANTS
  f1 = f1
  f2 = f2
  w1 = w1
  w2 = w2
  c1 = c1
  c2 = c2
  Names = {f1, f2}
  NoName = NoName
  MaxFiles = 2
  DataStart = 1
  CardWords = 3
  MaxSize = 2
  Words = {w1, w2}
  Cards = {c1}
  NoCard = NoCard
  MaxOpen = 1
  Modes = {"r+", "w"}
  Kinds = {"blank", "stale"}
  OldDirs <- OldFormats
  AllocFails = TRUE
  Absent = Absent
  Closed = Closed
SPECIFICATION Spec
SYMMETRY Symmetry
INVARIANT DirectoriesSound
PROPERTY ImplementsStore SaveTellsTheTruth
CHECK_DEADLOCK FALSE
