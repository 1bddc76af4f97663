SPECIFICATION Spec
CONSTANTS
  Char <- MCChar
  MacroName <- Empty
  SIZE_MAX = 9
  StringMax = 2
  Fragments <- Every
  MacroDefs <- Empty
  Class <- MCClass
  Repeats <- Empty
  Texts <- MCTexts
  MaxNodes = 13
  MaxFragments = 5
  MaxPatterns = 1
  MaxMacros = 0
  ReuseAfterError = FALSE
INVARIANTS
  MatchSound
  FlatComplete
  HangNeedsNullable
  ClosedNeverAborts
  PrintedRebuilds
CHECK_DEADLOCK FALSE
