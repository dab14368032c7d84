SPECIFICATION MCSpec
SYMMETRY MCSymmetry
CONSTANTS
  p1 = p1
  p2 = p2
  None = None
  Address = Address
  Process = {p1, p2}
  PORTS = 5
  Dynamic <- MCDynamic
  DEFAULT_REQ = 1
  DEFAULT_PUB = 2
  Setting <- MCSetting
  MaxBusy = 1
INVARIANTS
  TypeOK
  FileNamesItsSockets
  LeadsAstrayOnlyWhenStale
  RemoteExclusive
  LeftoverOnlyWhenUnclean
PROPERTIES
  ImplementsDirectory
