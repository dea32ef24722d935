SPECIFICATION Spec
CHECK_DEADLOCK FALSE
CONSTANTS
  MaxAhead = 3
  LookAhead = 5
  InFlightCells = 3
  MaxBlock = 3
  MaxEmpty = 1
  Workers = 2
  MaxDeaths = 2
  Buffers = {2, 3}
  LogSectors = 5
  MaxWrites = 3
INVARIANTS ReadsTheDisk ReplayKeepsFlushed ReadsTheLayout WindowIsBounded
PROPERTIES EveryReadEnds
