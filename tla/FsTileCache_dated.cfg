CONSTANTS
  Tiles = {a, b}
  NoTile = NoTile
  MaxTime = 3
  MaxVersions = 3
  Faults = {}
SPECIFICATION Spec
INVARIANT
  DatedByItsMap
