SPECIFICATION Spec
CONSTANTS
  None = None
  d1 = d1
  d2 = d2
  id1 = id1
  e1 = e1
  e2 = e2
  o1 = o1
  o2 = o2
  k1 = k1
  k2 = k2
  Ids = {id1}
  Entries = {e1, e2}
  Defs = {d1, d2}
  Ops = {o1, o2}
  Callers = {}
  Reconnecting = {d1}
  ResetLater = {}
  Interactive = {d2}
  RepairsListen = {}
  MaxConnections = 1
  MaxTries = 1
  MaxAttempts = 3
SYMMETRY Twins
INVARIANTS
  TypeOK
  DrainBeforeClose
  CatalogBelongs
  ClientsAccounted
  EntriesSound
PROPERTIES
  ImplementsService
CHECK_DEADLOCK FALSE
