CONSTANTS
  Threads = {t1, t2}
  Free = Free
  NoEntry = NoEntry
  Keys = {k1, k2, k3}
  Costs = {0, 1, 2}
  capacity_ = 3
  Asserts = TRUE
  MaxVersion = 1
  MaxSize = 4
SPECIFICATION Spec
INVARIANTS
  TrackerMatchesMap
  SizeAccounting
  RecencyOrder
  FreshSinceInvalidation
PROPERTIES
  EvictsLeastRecentlyUsed
  ImplementsMemoTable
