SPECIFICATION FairLexSpec
CONSTANTS
  PatternCount = 1
  Char = {"x", "n"}
  Newline = "n"
  Texts <- MCTexts
  MaxPushes = 1
INVARIANTS
  LinesSinceEntered
PROPERTIES
  EveryCharacterOnce
  ReachesEnd
CHECK_DEADLOCK FALSE
