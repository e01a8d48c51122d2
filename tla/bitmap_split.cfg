SPECIFICATION Spec
CONSTANTS
  ClflushOrdered = TRUE
  NODE_SIZE = 2
  MIN_LIVE_ENTRIES = 1
  NULL = NULL
  Keys = {1, 2, 3, 4, 5}
  Values = {1, 2, 3, 4, 5, 99}
  Inserts <- MCInserts
  Updates <- MCUpdates
  MaxNodes = 9
  Evictions = TRUE
  MaxUpdates = 0
  MaxDeletes = 0
  MaxLosses = 1
INVARIANTS TypeOK NodesAgree RangeInOrder
PROPERTY ImplementsDurableMap
CHECK_DEADLOCK FALSE
