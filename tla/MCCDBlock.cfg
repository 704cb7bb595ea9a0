CONSTANTS
  NumBuffers = 2
  NumFilters = 2
  LeadOut = 4
  SectorWords = 3
  Prefill = 2
  DirSectors = 1
  Programs <- MCPrograms
SPECIFICATION Spec
INVARIANTS BuffersAccounted TransferSound AtMostOneSource DriveHasDisc SectorsInOrder AnswerIsForCommand
PROPERTIES PlayEndReported ImplementsStore FileOpEnds
CHECK_DEADLOCK FALSE
