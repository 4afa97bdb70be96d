CONSTANTS
  Writers = {w1, w2}
  MaxSteps = 2
  LedIdx <- MCLedIdx
  ExternalMax = 2
  Patterns <- MCPatterns
  Values <- MCValues
SPECIFICATION Spec
CHECK_DEADLOCK FALSE
INVARIANTS
  TypeOK
  InTable
  PatternAlive
  ConstantStays
PROPERTIES
  EveryStepShows
  OnlyStoresRevive
