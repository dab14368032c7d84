SPECIFICATION MCSpec
CONSTANTS
  m1 = m1
  m2 = m2
  m3 = m3
  t1 = t1
  t2 = t2
  c1 = c1
  c2 = c2
  LogThread = {t1}
  Line = {m1, m2}
  Message <- MCMessage
  MAX_ENTRIES = 1
  MAX_BYTES = 2
  NoFilter = NoFilter
  Callback = {"EVENT_BREAKPOINT"}
  Client = {c1}
  Request = {"known", "throwing", "QUIT"}
  Acquisition = {"session", "bind_failed", "no_session_file"}
  UnloadWhileDebugging = TRUE
  None = None
  MaxPublished = 4
  MaxSession = 2
INVARIANTS
  StopsWithoutSession
