SPECIFICATION LiveSpec
CONSTANTS
  Lines <- MCLines
  MaxLines = 6
INVARIANTS
  SectionsAgree
  AcceptsOnlyGood
  RefusesOnlyBad
  ElseAnswered
  NeverReadsBefore
PROPERTIES
  OnlyLiveText
  OnlyMacrosDropped
  Stops
CHECK_DEADLOCK FALSE
