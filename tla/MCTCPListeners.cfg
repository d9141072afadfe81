\* Two administrators, two reloads at a time, one connection, two requests.
SPECIFICATION MCSpec
CONSTANTS
  m1 = m1
  m2 = m2
  d1 = d1
  d2 = d2
  Mappings <- MCMappings
  Devices <- MCDevices
  Owner <- MCOwner
  PortMin = 1
  PortMax = 2
  Contended = {1}
  Admins = {a1, a2}
  r1 = r1
  r2 = r2
  Reloaders <- MCReloaders
  Conns = {c1}
  None = None
  MaxRequests = 2
INVARIANTS
  StaleIsExplained
  SharedPortWasRaced
PROPERTIES
  StopEnds
CHECK_DEADLOCK FALSE
