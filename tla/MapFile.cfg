CONSTANTS
  Databases <- MCDatabases
  Layouts <- MCLayouts
  OddTags = {"url=a=b"}
  Stoi <- MCStoi
  TooLarge = {"9999999999"}
  Layers = {0, 7}
  MaxZoom = 4
  Unit = 4
  Buffer = 2
  Half = 4
  TagRange = 16
  SeaBit = 4096
  IntRange = 256
  Offsets = {0, 1}
SPECIFICATION Spec
INVARIANT
  ReadsWhatIsStored
CHECK_DEADLOCK FALSE
