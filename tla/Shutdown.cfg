SPECIFICATION ShutdownSpec
CONSTANTS
  Readings = {a}
  NoReading = NoReading
  QueueLength = 2
  HeapBlocks = 4
  NumSockets = 1
  MaxReports = 4
  MaxChanges = 1
CHECK_DEADLOCK FALSE
INVARIANTS
  NothingFreedTwice
  HaltsOnlyBeforeCounterEnds
PROPERTY ResetsOrHalts
