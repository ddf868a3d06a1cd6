SPECIFICATION FairSpec
CONSTANTS
  Readings = {a, b}
  NoReading = NoReading
  QueueLength = 2
  HeapBlocks = 3
  NumSockets = 2
  MaxReports = 4
  MaxChanges = 3
INVARIANTS
  OneOwner
  ReportsConserved
  SocketsAccounted
PROPERTIES
  ImplementsReportChannel
  QueueDrains
