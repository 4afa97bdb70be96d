CONSTANTS
  Yres = 3
  LineLength = 2
  PageSize = 3
  UintMax = 7
  Drawers = {d1}
  Writers = {w1}
  Heights = {0, 2}
SPECIFICATION Spec
INVARIANTS TypeOK NoLostLine FlushComing
PROPERTY ShowsMemory
