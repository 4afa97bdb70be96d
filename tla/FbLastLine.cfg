CONSTANTS
  Yres = 3
  LineLength = 2
  PageSize = 3
  UintMax = 7
  Drawers = {}
  Writers = {w1}
  Heights = {1}
SPECIFICATION Spec
PROPERTY UpdatesAll
