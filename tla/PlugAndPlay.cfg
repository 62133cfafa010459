SPECIFICATION Spec
CONSTANTS
  moved  = moved
  copied = copied
  Files     <- MCFiles
  Moved     <- MCMoved
  LongNames <- MCLongNames
  MaxLists  = 1
  BufferUnits = 8
INVARIANTS
  TypeOK
  CleanShutdown
  MonitorFirstIsSafe
PROPERTIES
  MonitorEnds
  UnwatchedNeverEnds
  FirstBatchLoaded
CHECK_DEADLOCK FALSE
