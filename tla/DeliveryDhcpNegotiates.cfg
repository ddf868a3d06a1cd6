SPECIFICATION FairSpec
CONSTANTS
  Readings = {a}
  NoReading = NoReading
  QueueLength = 2
  HeapBlocks = 3
  NumSockets = 2
  MaxReports = 1
  MaxChanges = 2
INVARIANT DhcpNegotiates
