SPECIFICATION Spec
CONSTANTS
  Buffer_Size = 8
  Overbuffer_Count = 2
  Streams <- MCStreams
  Skips = {0, 4, 12}
  Pzbs = {0, 3}
  MaxPos = 18
  Failures = {"read"}
PROPERTIES CallsReturn
CHECK_DEADLOCK FALSE
