SPECIFICATION MapSpec
CONSTANTS
  a1 = a1
  a2 = a2
  b = b
  c = c
  v = v
  NULL = NULL
  Key <- MCKey
  Name <- MCName
  NameOf <- MCNameOf
  HashOf <- MCHashOf
  Value <- MCValue
  initialCapacity = 0
  MaxBuckets = 4
INVARIANTS
  EveryEntryFound
  CursorAlive
  EachVisitedOnce
PROPERTIES
  ActsAsMap
CHECK_DEADLOCK FALSE
