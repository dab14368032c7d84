SPECIFICATION MCSpec
SYMMETRY MCSymmetry
CONSTANTS
  m1 = m1
  m2 = m2
  m3 = m3
  t1 = t1
  t2 = t2
  c1 = c1
  c2 = c2
  LogThread = {t1, t2}
  Line = {m1, m2, m3}
  Message <- MCMessage
  MAX_ENTRIES = 2
  MAX_BYTES = 2
  NoFilter = NoFilter
  Callback = {"EVENT_BREAKPOINT"}
  Client = {}
  Request = {"known", "throwing", "QUIT"}
  Acquisition = {"session", "bind_failed", "no_session_file"}
  UnloadWhileDebugging = TRUE
  None = None
  MaxPublished = 3
  MaxSession = 2
INVARIANTS
  PubSocketExclusive
  ServerSetFirst
  LogEventsMirrorBuffer
  StaleEntriesBounded
  StaleEventsBounded
PROPERTIES
  SilentAfterStop
