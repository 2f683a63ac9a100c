SPECIFICATION Spec
CONSTANTS
  Families <- ChainFamilies
  Params <- MCParams
  MaxAnswers = 5
  Bits = 5
  UnsignedVars <- MCUnsignedVars
  Arrays <- MCArrays
  Consts <- MCConsts
  Externs <- MCExterns
  Library <- MCLibrary
  Objects <- MCObjects
  ObjectParams <- MCObjectParams
  StructResults <- MCStructResults
INVARIANTS
  SameRun
CHECK_DEADLOCK FALSE
