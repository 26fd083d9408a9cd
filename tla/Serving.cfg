SPECIFICATION ServingSpec
CONSTANTS
  c1 = c1
  c2 = c2
  h1 = h1
  h2 = h2
  i1 = i1
  i2 = i2
  x1 = x1
  x2 = x2
  l1 = l1
  l2 = l2
  Conns = {c1, c2}
  Hubs = {h1, h2}
  HubId = h1
  Instances = {i1}
  MaxRuns = 2
  Sources = {"x"}
  Lists = {l1, l2}
  Offers <- AllTools
  Builds <- Distinctly
  MaxGenerations = 2
  MaxUpdates = 2
  MaxRefreshes = 1
  Materializations = {i1, i2}
  Closers = {x1, x2}
  Servers = {i1}
  Invocations = {x1}
  Principals = {"w", "v"}
  Capability <- Offerable
  Contributions <- Provided
  ServedDefinitions <- Servable
  ScopesOf <- Scopes
  Says <- Verdicts
  MaxChanges = 1
  Out = Out
  None = None
  Absent = None
SYMMETRY Twins
INVARIANTS
  HubMembersKnown
  DownstreamCurrent
  NamesAreSound
  ComposedSoundly
  AdmissionHolds
  Released
PROPERTIES
  AnswerIsOneTopology
CHECK_DEADLOCK FALSE
