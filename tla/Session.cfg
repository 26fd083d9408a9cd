SPECIFICATION SessionSpec
CONSTANTS
  Parts = {"listen", "claims", "probes", "reconcile"}
  None = None
  Level = Level
  k1 = k1
  k2 = k2
  u1 = u1
  u2 = u2
  o1 = o1
  o2 = o2
  t1 = t1
  h1 = h1
  h2 = h2
  Calls = {k1, k2}
  Asks <- OwnUri
  Policies = {TRUE, FALSE}
  Streams = {1, 2, 3, 4}
  MaxSessions = 2
  MayFail = TRUE
  Resources = {uri}
  Errors = {e1}
  Transports = {t1, t2}
  Ops = {o1, o2}
  Ids = {a, b}
  Defs = {d1, d2}
  Hosts = {h1, h2}
  Absent = Absent
  MaxEntries = 3
  MaxHostConnects = 1
  Threshold = 2
  MaxAttempts = 3
SYMMETRY Twins
INVARIANTS
  StreamInUse
  PromiseKept
  ProbesGoOn
  SubscriptionsServed
PROPERTIES
  DiffIsTrue
CHECK_DEADLOCK FALSE
