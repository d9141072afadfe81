SPECIFICATION Spec
CONSTANTS
  s1 = s1
  s2 = s2
  d1 = d1
  SessionIds = {s1, s2}
  Devices = {d1}
  Admins = {a1, a2}
  KindOf <- MCKindOf
  DeviceOf <- MCDeviceOf
  MaxTotal = 1
  MaxDevice = 1
  RateLimit = 1
  MaxRequests = 2
  MaxCrashes = 1
  NoSession = NoSession
  NoDevice = NoDevice
INVARIANTS
  PermitsConserved
  RunningSessionsReachable
  RowsTellTheTruth
PROPERTIES
  ForcedSessionsEnd
CHECK_DEADLOCK FALSE
