SPECIFICATION ConnectionSpec
CONSTANTS
  Parts = {"lifecycle", "definition", "file", "adoption", "pipeline"}
  None = None
  d1 = d1
  d2 = d2
  id1 = id1
  e1 = e1
  e2 = e2
  o1 = o1
  o2 = o2
  k1 = k1
  k2 = k2
  r1 = r1
  r2 = r2
  r3 = r3
  t1 = t1
  t2 = t2
  Ids = {id1}
  Entries = {e1}
  Defs = {d1, d2}
  Ops = {o1}
  Callers = {k1, k2}
  Reconnecting = {}
  ResetLater = {}
  Interactive = {d1}
  RepairsListen = {}
  MaxConnections = 1
  MaxTries = 1
  MaxAttempts = 2
  Closers = {k1, k2}
  MaxConnects = 3
  Undefined = Undefined
  Omitted = None
  Others <- Edited
  Requests = {r1, r2, r3}
  Tokens = {t1, t2}
  CacheTtl = 2
  NegativeTtl = 1
  MaxEntries = 1
  Capacity = 2
  Share = 2
  MaxLatency = 1
  MaxClock = 4
  Expiries = {3, 5}
  Unset = Unset
SYMMETRY Twins
INVARIANTS
  ParkedCanComplete
  WellDefined
  ReadAsWritten
  ResumesOnce
  AdmissionBounded
CHECK_DEADLOCK FALSE
