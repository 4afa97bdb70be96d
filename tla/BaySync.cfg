CONSTANTS
  Disks = {d1, d2, d3}
  NumSlots = 2
  MaxEvents = 3
SPECIFICATION Spec
CHECK_DEADLOCK FALSE
INVARIANTS
  MatchUnlessDropped
  SeenUnlessMissed
