SPECIFICATION Spec
CONSTANTS
  IdentStart <- MCIdentStart
  Digits <- MCDigits
  DigitValue <- MCDigitValue
  MaxMacroDepth = 4
  MaxSplices = 40
  Files <- MCFiles
  Themes <- MCCommentThemes
  NoLine = NoLine
  EndLine = EndLine
  NoText = NoText
INVARIANT ActiveAsC
CHECK_DEADLOCK FALSE
