CONSTANTS
  SmallMax = 3
  MaxChunk = 5
  Old = 7
  New <- MCNew
  Streams <- MCStreams
SPECIFICATION Spec
CHECK_DEADLOCK FALSE
PROPERTIES
  InOrderOnce
  DeliversAll
  BothEnd
