\* Three notices, a queue of two, one recipient, one worker, one request of the console.
SPECIFICATION FairSpec
CONSTANTS
  n1 = n1
  n2 = n2
  n3 = n3
  p1 = p1
  w1 = w1
  c1 = c1
  Notices <- MCNotices
  Tasks <- MCNotices
  Admits <- MCAdmits
  Recipients <- MCRecipients
  Workers <- MCWorkers
  Callers <- MCCallers
  Senders <- MCSenders
  Watched <- MCWatched
  Publishers <- MCPublishers
  QueueSize = 2
  MaxRetries = 1
  MaxEvents = 2
  None = None
  NoTask = NoTask
INVARIANTS
  StopServesAll
  DuplicateIsExplained
  RecordsTellTheTruth
PROPERTIES
  ImplementsQueue
  AcceptedIsServed
CHECK_DEADLOCK FALSE
