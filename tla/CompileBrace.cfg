SPECIFICATION Spec
CONSTANTS
  Char <- MCChar
  MacroName <- MCMacroName
  SIZE_MAX = 9
  StringMax = 2
  Fragments <- Braces
  MacroDefs <- NoMacroDefs
  MaxNodes = 14
  MaxFragments = 3
  MaxPatterns = 1
  MaxMacros = 0
  ReuseAfterError = FALSE
INVARIANT BraceQuantifies
CHECK_DEADLOCK FALSE
