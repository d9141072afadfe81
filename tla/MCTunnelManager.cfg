SPECIFICATION Spec
CONSTANTS
  q1 = q1
  q2 = q2
  t1 = t1
  t2 = t2
  QConns <- MCQConns
  TConns <- MCTConns
  RolePlans <- MCRolePlans
  Openers = {o1}
  Admin = admin
  Stopper = stopper
  QueueCap = 1
  None = None
INVARIANTS
  CurrentNotClosed
  RetiredTunnelsClosed
  DataConnAccounted
  RowsFollowRegistry
PROPERTIES
  TunnelEndsForAReason
\* every connection may end and the server may stop: no step is then left
CHECK_DEADLOCK FALSE
