SPECIFICATION Spec
CONSTANTS
  p1 = p1
  p2 = p2
  c1 = c1
  c2 = c2
  c3 = c3
  low1 = low1
  low2 = low2
  high = high
  Producers <- MCProducers
  Consumers <- MCConsumers
  Items     <- MCItems
  Priority  <- MCPriority
  NoThread  = NoThread
  NoItem    = NoItem
INVARIANTS
  TypeOK
  TakeNeverEmpty
  NoLostWakeup
PROPERTY
  ImplementsPriorityQueue
CHECK_DEADLOCK FALSE
