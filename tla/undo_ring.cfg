SPECIFICATION Spec
CONSTANTS
  LogEntries = 4
  LOG_DATA_SIZE = 2
  Addresses <- MCAddresses
  Objects <- MCObjects
INVARIANTS TypeOK InArea OpenIntact RollbackRestores
