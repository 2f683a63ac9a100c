CONSTANTS
  MaxLocals = 3
  MaxFrames = 5
  SwitchCtors = FALSE
  ArrayLen = 2
  Families <- MCFamilies
  Vec = {v, w}
  Element = {0, 1}
  Blocks = {1, 2, 3}
  FirstCapacity = 1
  MaxSize = 2
  Garbage = Garbage
  Unset = Unset
  Capacity = 4
  Char = {97, 98}
  Bits = 6
  Null = Null
SPECIFICATION MCSpec
INVARIANTS
  ChainIsLive
  DestroysYoungest
  ReturnsDoNotFall
  LivesInOrder
  CompleteWhenUsed
  VtablesInCtor
  VectorsBehave
  StringsBehave
CHECK_DEADLOCK FALSE
