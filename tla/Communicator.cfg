SPECIFICATION Spec
CONSTANTS
  rd    = rd
  wr    = wr
  disc  = disc
  flush = flush
  trim  = trim
  Requests <- MCRequests
  Kind     <- MCKind
  From     <- MCFrom
  Length   <- MCLength
  Capacity  = 2
INVARIANTS
  TypeOK
  RequestsIntact
  RepliesIntact
  NoStdinFromDriver
  EndsOnlyAfterShutdown
PROPERTIES
  Answered
  EndsAfterShutdown
  ImplementsChannel
  SilentFailure
CHECK_DEADLOCK FALSE
