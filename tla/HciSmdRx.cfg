CONSTANT MaxFrames = 2
SPECIFICATION Spec
CHECK_DEADLOCK FALSE
INVARIANTS
  TypeOK
  NoLostKick
  Guarded
PROPERTIES
  LockReleased
  FramesRead
