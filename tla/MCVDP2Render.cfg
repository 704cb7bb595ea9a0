SPECIFICATION Spec
CONSTANTS
  VisibleLines = 3
  bwthresh = 2
  WakeupLag = 2
  WQSize = 2
  Values = {0, 1}
INVARIANTS DrawsIntoItsFrame FramesAsAsked StateInStep
PROPERTIES CallsReturn LinesGetDrawn
CHECK_DEADLOCK FALSE
