SPECIFICATION FairMCSpec
CONSTANTS
  m1 = m1
  m2 = m2
  m3 = m3
  t1 = t1
  t2 = t2
  c1 = c1
  c2 = c2
  LogThread = {t1}
  Line = {m1}
  Message <- MCMessage
  MAX_ENTRIES = 1
  MAX_BYTES = 2
  NoFilter = NoFilter
  Callback = {"EVENT_BREAKPOINT"}
  Client = {c1, c2}
  Request = {"known", "throwing", "QUIT"}
  Acquisition = {"session", "bind_failed"}
  UnloadWhileDebugging = TRUE
  None = None
  MaxPublished = 2
  MaxSession = 1
INVARIANTS
  SessionFileMeansServed
PROPERTIES
  RequestAnswered
  StopCompletes
