SPECIFICATION Spec
CONSTANTS
  VisibleLines = 2
  WQSize = 3
  Values = {0, 1}
INVARIANTS RingHolds DrawsIntoItsFrame LinesAsAsked RestsBetweenFrames
PROPERTIES WaitsEnd
CHECK_DEADLOCK FALSE
