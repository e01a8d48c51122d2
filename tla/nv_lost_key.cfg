SPECIFICATION Spec
CONSTANTS
  MAX_NUM_ENTRY_LN = 2
  MAX_NUM_ENTRY_PLN = 2
  MAX_NUM_ENTRY_IN = 2
  Keys = {1, 2, 3, 4, 5}
  MAX_KEY = 100
  MaxLeaves = 9
  MaxPLNs = 4
  MaxChanges = 0
INVARIANT InsertedKeysFound
CHECK_DEADLOCK FALSE
