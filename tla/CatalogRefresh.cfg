SPECIFICATION FairSpec
CONSTANTS
  s1 = s1
  s2 = s2
  k1 = k1
  auto = auto
  Sections = {s1, s2}
  Calls = {k1}
  Automatic = auto
  MaxRefreshes = 2
  MaxChanges = 1
  MaxSessions = 2
INVARIANTS
  OneRefresh
  BudgetHolds
PROPERTIES
  CatalogAdvances
  ChangesFollowed
CHECK_DEADLOCK FALSE
