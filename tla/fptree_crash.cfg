SPECIFICATION Spec
CONSTANTS
  ClflushOrdered = TRUE
  NUM_LN_ENTRY = 2
  NUM_IN_ENTRY = 2
  NULL = NULL
  Keys = {1, 2, 3, 4, 5}
  Values = {1, 2, 3, 4, 5, 99}
  Inserts <- MCInserts
  Updates <- MCUpdates
  HASHES = 2
  MaxLeaves = 6
  MaxInner = 6
  Evictions = {"split", "parent", "link", "logcommit"}
  MaxUpdates = 1
  MaxLosses = 1
INVARIANTS TypeOK HalvesAgree RangeInOrder
PROPERTY ImplementsDurableMap
CHECK_DEADLOCK FALSE
