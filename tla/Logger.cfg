SPECIFICATION Spec
CONSTANTS
  main   = main
  worker = worker
  driver = driver
  o1 = o1
  o2 = o2
  Threads  <- MCThreads
  Main      = main
  Objects  <- MCObjects
  Null      = Null
  MaxLines    = 2
  MaxSettings = 1
INVARIANTS
  TypeOK
  ReturnedIsBuilt
  SameInstanceIfMainFirst
  ExitDeletesInstance
  
SYMMETRY MCSymmetry
CHECK_DEADLOCK FALSE
