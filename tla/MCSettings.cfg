SPECIFICATION MCSettingsSpec
CONSTANTS
  p1 = p1
  None = None
  Address = Address
  Process = {p1}
  PORTS = 3
  Dynamic <- MCDynamic
  DEFAULT_REQ = 1
  DEFAULT_PUB = 2
  Setting <- MCSetting
  Number <- MCNumber
PROPERTIES
  TakesEffect
  OkKeepsPorts
