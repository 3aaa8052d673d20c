CONSTANTS
  Boxes = {a, b}
  MaxOverlays = 3
  MaxCollections = 2
  MaxCommands = 5
SPECIFICATION Spec
INVARIANTS
  TypeOK
  IndexAgrees
  OverlaysReachable
PROPERTY
  NewIdsAreFresh
CHECK_DEADLOCK FALSE
