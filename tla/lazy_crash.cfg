SPECIFICATION Spec
CONSTANTS
  NODE_BITS = 1
  MAX_DEPTH = 3
  Forms = {TRUE, FALSE}
  Keys = {0, 1, 2, 7}
  Values = {0, 1, 2, 7, 99}
  Inserts <- MCInserts
  Updates <- MCUpdates
  NULL = NULL
  MaxNodes = 5
  Evictions = {"flush"}
  MaxUpdates = 1
  MaxLosses = 1
  ClflushOrdered = FALSE
INVARIANTS TypeOK Compressed NodesAccounted
PROPERTY ImplementsDurableMap
CHECK_DEADLOCK FALSE
