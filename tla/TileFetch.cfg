CONSTANTS
  Async = {n}
  Slots = {s1, s2}
  MaxCommands = 3
  None = None
  Red = Red
  Tiles = {a, b}
  Views = {{a}, {b}}
  Maps = {f, n}
SPECIFICATION FairSpec
INVARIANTS
  CachedIsOwn
  SavedIsOwn
  PendingIsLive
  DrawnOrOnTheWay
PROPERTY
  VisibleIsDrawn
CHECK_DEADLOCK FALSE
