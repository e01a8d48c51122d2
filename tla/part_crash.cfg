SPECIFICATION Spec
CONSTANTS
  NODE_BITS = 4
  MAX_DEPTH = 1
  NULL = NULL
  CAP4 = 3
  CAP16 = 5
  CAP48 = 7
  GROUP = 4
  Keys = {0, 1, 2, 4, 6, 7, 9, 11, 14, 17}
  Values = {0, 1, 2, 4, 6, 7, 9, 11, 14, 17, 99}
  Inserts <- MCInserts
  Updates <- MCUpdates
  Order <- MCOrder
  MaxNodes = 4
  Evictions = {"entry"}
  MaxUpdates = 1
  MaxLosses = 1
  ClflushOrdered = FALSE
INVARIANTS TypeOK Compressed NodesAccounted ScanAscends
PROPERTY ImplementsDurableMap
CHECK_DEADLOCK FALSE
