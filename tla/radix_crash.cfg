SPECIFICATION Spec
CONSTANTS
  ClflushOrdered = TRUE
  META_NODE_SHIFT = 1
  WORD_BITS = 3
  Keys <- MCKeys
  Values = {v1, v2}
  NULL = NULL
  MaxNodes = 12
  MaxLosses = 1
INVARIANTS TypeOK RangeInOrder DurableWhenIdle
PROPERTIES ImplementsDurableMap Returns
