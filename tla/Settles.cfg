SPECIFICATION SettlesSpec
CONSTANTS
  Parts = {"listen", "sync", "watch", "task", "front"}
  None = None
  k1 = k1
  u1 = u1
  Callers = {k1, k2}
  MaxOnline = 2
  MaxDirs = 2
  MaxQueue = 2
  MaxVersions = 3
  MaxGap = 0
  Tools = {x, y}
  Projected = {x}
  MaxGenerations = 2
PROPERTIES
  StopIsFinal
  CallsReturn
  CopiesFollow
  WatchFollows
CHECK_DEADLOCK FALSE
