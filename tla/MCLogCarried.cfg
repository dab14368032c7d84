SPECIFICATION MCSpec
CONSTANTS
  a = a
  b = b
  c1 = c1
  c2 = c2
  Line = {a, b}
  Message <- MCMessage
  MAX_ENTRIES = 2
  MAX_BYTES = 3
  NoFilter = NoFilter
  Client = {c1}
  Limit = {0, 1}
  FilterOf <- MCFilterOf
  NoReply = NoReply
  MaxHistory = 3
  MaxSession = 1
INVARIANTS
  CarriedCursorRestarts
