SPECIFICATION Spec
CONSTANTS
  w1 = w1
  w2 = w2
  wr1 = wr1
  wr2 = wr2
  rd1 = rd1
  disc = disc
  flush = flush
  s1 = s1
  s2 = s2
  s3 = s3
  Workers <- MCWorkers
  Cells   <- MCCells
  Zero     = Zero
  Bye      = Bye
  TPTASK   = TPTASK
  STOPTASK = STOPTASK
  NoTask   = NoTask
  NoThread = NoThread
  Requests   <- DataRequests
  Kind       <- DataKind
  Span       <- DataSpan
  Workloads  <- DataWorkloads
  StdinTasks = {}
INVARIANTS
  TypeOK
  FramingIntact
  ReadsFresh
PROPERTIES
  ImplementsDevice
  ImplementsChannel
CHECK_DEADLOCK FALSE
