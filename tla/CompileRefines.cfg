SPECIFICATION Spec
CONSTANTS
  Char <- MCChar
  MacroName <- MCMacroName
  SIZE_MAX = 9
  StringMax = 2
  Fragments <- Every
  MacroDefs <- MCMacroDefs
  Repeats <- MCRepeats
  MaxNodes = 8
  MaxFragments = 4
  MaxPatterns = 1
  MaxMacros = 1
  ReuseAfterError = TRUE
INVARIANTS
  ChainsWellFormed
  NoNullDereference
PROPERTIES
  BuildsTrees
CHECK_DEADLOCK FALSE
