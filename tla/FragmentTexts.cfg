SPECIFICATION Spec
CONSTANTS
  Texts <- MCTexts
  SIZE_MAX = 63
INVARIANTS
  ReadsAsDocumented
  PrintedReadsBack
CHECK_DEADLOCK FALSE
