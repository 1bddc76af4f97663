SPECIFICATION FairGrepSpec
CONSTANTS
  Char <- MCChar
  MacroName <- Empty
  SIZE_MAX = 9
  StringMax = 2
  Fragments <- Wanted
  MacroDefs <- Empty
  Class <- MCClass
  Texts <- MCTexts
  MaxNodes = 9
  MaxFragments = 3
  MaxPatterns = 1
  MaxMacros = 0
  ReuseAfterError = FALSE
  MaxLines = 2
PROPERTIES
  CountedRight
  SureEnds
CHECK_DEADLOCK FALSE
