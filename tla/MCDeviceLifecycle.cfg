SPECIFICATION Spec
CONSTANTS
  Clients = {c1, c2}
  Timeout = 1
  EventDelay = 1
  MaxTime = 3
  MaxCalls = 2
  MaxRequests = 1
SYMMETRY Symmetry
INVARIANTS
  NoActivityLost
PROPERTIES
  DisabledSticks
  OfflineMeansSilent
CHECK_DEADLOCK FALSE
