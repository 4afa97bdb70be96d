SPECIFICATION Spec
CONSTANTS
  Bands = {b1, b2}
  Levels = {4, 10}
  MaxBusy = 2
  Boards <- MCBoards
SYMMETRY BandSymmetry
INVARIANTS
  TypeOK
  PanelFollows
  OwnedMemory
PROPERTY
  LeaksHaveCauses
CHECK_DEADLOCK FALSE
