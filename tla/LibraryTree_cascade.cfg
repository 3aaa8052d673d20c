CONSTANTS
  MaxFolders = 3
  MaxCollections = 1
  MaxCommands = 5
SPECIFICATION Spec
PROPERTY
  CascadeReachesAll
CHECK_DEADLOCK FALSE
