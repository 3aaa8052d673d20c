CONSTANTS
  Tiles = {a, b}
  NoTile = NoTile
  MaxTime = 3
  MaxVersions = 3
  Faults = {"kill", "full", "file"}
SPECIFICATION Spec
INVARIANTS
  OldTilesHidden
  ServesCurrent
  WholeUnlessCut
  NeverServesEmpty
