SPECIFICATION Spec
CONSTANTS
  NODE_SIZE = 7
  MIN_LIVE_ENTRIES = 3
  Keys = {1, 2, 3, 4, 5, 6, 7, 8}
  NULL = NULL
  MaxDeletes = 1
INVARIANTS NodesWellFormed EntriesKept
CHECK_DEADLOCK FALSE
