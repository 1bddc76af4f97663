SPECIFICATION FairSpec
CONSTANTS
  PatternCount = 2
  Char = {"x", "n"}
  Newline = "n"
  Texts <- MCTexts
INVARIANTS
  TypeOK
  LongestFirst
  LinesNeverLost
  PositionsExact
PROPERTIES
  Tiles
  GetsThrough
CHECK_DEADLOCK FALSE
