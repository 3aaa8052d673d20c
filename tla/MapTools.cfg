CONSTANTS
  First <- F
  Points = {5}
  MaxEdits = 2
  MaxRows = 2
  NoObject = NoObject
SPECIFICATION Spec
INVARIANTS
  UndoIsLinear
  CacheIsStored
  EditsAreKept
CHECK_DEADLOCK FALSE
