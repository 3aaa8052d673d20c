CONSTANTS
  Atoms <- MCAtoms
  Messages <- MCMessages
  Garbled <- MCGarbled
  Noise <- MCNoise
  MaxRead = 6
  MaxHeader = 33
  MaxLength = 25
SPECIFICATION Spec
INVARIANTS
  ParsesWhatWasSent
  CutIsImmaterial
CHECK_DEADLOCK FALSE
