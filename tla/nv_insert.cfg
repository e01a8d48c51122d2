SPECIFICATION Spec
CONSTANTS
  MAX_NUM_ENTRY_LN = 5
  MAX_NUM_ENTRY_PLN = 2
  MAX_NUM_ENTRY_IN = 2
  Keys = {1, 2, 3, 4, 5, 6, 7, 8}
  MAX_KEY = 100
  MaxLeaves = 9
  MaxPLNs = 4
  MaxChanges = 2
INVARIANTS TypeOK DirectoryParts WalkMatchesDirectory LeavesLinked StoredKeysFound RangeInOrder
CHECK_DEADLOCK FALSE
