SPECIFICATION Spec
CONSTANTS
  IdentStart <- MCIdentStart
  Digits <- MCDigits
  DigitValue <- MCDigitValue
  MaxMacroDepth = 4
  MaxSplices = 40
  Files <- MCFiles
  Themes <- MCThemes
  NoLine = NoLine
  EndLine = EndLine
  NoText = NoText
INVARIANTS
  LexerFollows
  ActiveAsC
  ExpandsAsC
  StableNames
  IncludedOnce
CHECK_DEADLOCK FALSE
