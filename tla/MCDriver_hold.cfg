CONSTANTS
  Size = 2
  MaxEvents = 0
  MaxEventsAmongKeys = 0
SPECIFICATION DriverSpec
INVARIANTS DrawsOffScreen
CHECK_DEADLOCK FALSE
