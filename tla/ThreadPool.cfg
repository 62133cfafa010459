SPECIFICATION Spec
CONSTANTS
  w1 = w1
  w2 = w2
  low = low
  Workers     <- TwoWorkers
  InitWorkers <- OneWorker
  Tasks       <- OneTask
  Priority    <- OnePriority
  Sizes       <- TwoSizes
  ADMIN    = 3
  MaxCalls = 5
  TPTASK   = TPTASK
  STOPTASK = STOPTASK
  NoTask   = NoTask
  NoThread = NoThread
INVARIANTS
  TypeOK
  EnoughStopTasks
PROPERTIES
  SuspendStops
  SuspendedPoolNeverEnds
  DestructorReturns
  SetSizeReturns
  TaskTaken
CHECK_DEADLOCK FALSE
