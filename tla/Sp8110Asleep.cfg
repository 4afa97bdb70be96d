SPECIFICATION Spec
CONSTANTS
  Bands = {b1}
  Levels = {10}
  MaxBusy = 2
  Boards <- MCBoards
INVARIANT
  AwakeWhenAnnounced
CHECK_DEADLOCK FALSE
