SPECIFICATION MCSpec
CONSTANTS
  a = a
  b = b
  Line = {a, b}
  Message <- MCMessage
  MAX_ENTRIES = 3
  MAX_BYTES = 4
  NoFilter = NoFilter
  SinceIndex = {0, 1, 2, 3, 5}
  Limit = {0, 1, 2}
  Filter <- MCFilter
  MaxHistory = 4
INVARIANTS
  Window
  BytesAccounted
  WithinCaps
PROPERTIES
  EvictsOnlyWhatItMust
  ImplementsLogWindow
  
