CONSTANTS
  Size = 2
  MaxEvents = 3
  MaxEventsAmongKeys = 1
SPECIFICATION DriverSpec
INVARIANTS BlitsAsAsked EventsInOrder
PROPERTIES ExitEnds
CHECK_DEADLOCK FALSE
