SPECIFICATION Spec
CONSTANTS
  SIZE_MAX = 99
  Char <- MCChar
  Keyword <- MCKeyword
  Operator <- MCOperator
  Texts <- MCTexts
INVARIANTS
  LongestLexeme
