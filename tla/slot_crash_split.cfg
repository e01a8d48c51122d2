SPECIFICATION Spec
CONSTANTS
  ClflushOrdered = TRUE
  NODE_SIZE = 2
  MIN_LIVE_ENTRIES = 1
  NULL = NULL
  Keys = {1, 2, 3, 4, 5}
  Values = {1, 2, 3, 4, 5, 99}
  Inserts <- MCInserts
  Updates <- MCUpdates
  MaxNodes = 9
  Evictions = TRUE
  MaxChanges = 1
  MaxLosses = 1
INVARIANTS TypeOK NodesSound AllFound RangeInOrder
PROPERTY ImplementsDurableMap
CHECK_DEADLOCK FALSE
