SPECIFICATION Spec
CONSTANTS
  w1 = w1
  w2 = w2
  low = low
  Workers     <- TwoWorkers
  InitWorkers <- TwoWorkers
  Tasks       <- OneTask
  Priority    <- OnePriority
  Sizes       <- TwoSizes
  ADMIN    = 3
  MaxCalls = 3
  TPTASK   = TPTASK
  STOPTASK = STOPTASK
  NoTask   = NoTask
  NoThread = NoThread
PROPERTY
  ResumedPoolEnds
CHECK_DEADLOCK FALSE
