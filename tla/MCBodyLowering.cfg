SPECIFICATION Spec
CONSTANTS
  Families <- MCFamilies
  Params <- MCParams
  MaxAnswers = 4
  Bits = 5
  UnsignedVars <- MCUnsignedVars
  Arrays <- MCArrays
  Consts <- MCConsts
  Externs <- MCExterns
  Library <- MCLibrary
  Objects <- MCObjects
  ObjectParams <- MCObjectParams
  StructResults <- MCStructResults
INVARIANTS
  SameRun
  NothingLeft
CHECK_DEADLOCK FALSE
