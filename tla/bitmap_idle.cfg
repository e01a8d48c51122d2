SPECIFICATION Spec
CONSTANTS
  ClflushOrdered = FALSE
  NODE_SIZE = 3
  MIN_LIVE_ENTRIES = 1
  NULL = NULL
  Keys = {1, 2, 3, 4}
  Values = {1, 2, 3, 4, 99}
  Inserts <- MCInserts
  Updates <- MCUpdates
  MaxNodes = 3
  Evictions = FALSE
  MaxUpdates = 1
  MaxDeletes = 1
  MaxLosses = 0
INVARIANTS DurableWhenIdle
CHECK_DEADLOCK FALSE
