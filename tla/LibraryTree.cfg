CONSTANTS
  MaxFolders = 3
  MaxCollections = 2
  MaxCommands = 5
SPECIFICATION Spec
INVARIANTS
  TypeOK
  NoOrphans
  ShownIsStored
  StoredIsShown
  ChecksAgree
PROPERTY
  TogglesAreExact
CHECK_DEADLOCK FALSE
