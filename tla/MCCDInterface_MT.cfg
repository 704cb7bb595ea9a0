SPECIFICATION Spec
CONSTANTS
  LBA_Read_Minimum = 0
  LBA_Read_Maximum = 2
  Lbas <- MCLbas
  max_ra = 1
  initial_ra = 1
  speedmult_ra = 2
  SBSize = 2
  MaxPending = 2
  NoData = NoData
INVARIANTS TypeOK WindowHeld RequestNotLost SleepsForAReason ReadsWhatWasAsked
PROPERTIES ImplementsDevice
CHECK_DEADLOCK FALSE
