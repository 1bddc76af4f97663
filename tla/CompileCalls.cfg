SPECIFICATION FairSpec
CONSTANTS
  Char <- MCChar
  MacroName <- MCMacroName
  SIZE_MAX = 9
  StringMax = 2
  Fragments <- Reused
  MacroDefs <- MCMacroDefs
  MaxNodes = 48
  MaxFragments = 2
  MaxPatterns = 2
  MaxMacros = 2
  ReuseAfterError = FALSE
INVARIANTS
  TypeOK
  NoUseAfterFree
  FreesUnfinished
PROPERTIES
  AcceptedFrozen
  Returns
CHECK_DEADLOCK FALSE
