SPECIFICATION MCSpec
CONSTANTS
  here = here
  v1 = v1
  Item = {here}
  Value = {v1}
  Absent = Absent
  Blank = Blank
  Garbage = Garbage
  ArgType = {"INT", "HUGE", "WIDE", "STR", "BIN", "NIL"}
  NoRequest = NoRequest
  MaxLeaks = 2
INVARIANTS
  MissingValueRefused
