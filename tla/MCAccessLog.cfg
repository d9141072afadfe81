\* Four requests, a queue of two, batches of two, three attempts at an INSERT.
SPECIFICATION FairSpec
CONSTANTS
  r1 = r1
  r2 = r2
  r3 = r3
  r4 = r4
  Requests <- MCRequests
  QueueSize = 2
  BatchSize = 2
  MaxAttempts = 3
INVARIANTS
  RefusedAfterTimeout
  StopDrains
PROPERTIES
  ImplementsQueue
  AcceptedSettles
CHECK_DEADLOCK FALSE
