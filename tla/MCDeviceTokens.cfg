SPECIFICATION Spec
CONSTANTS
  Validators = {v1}
  Admins = {a1, a2}
  Rows = {r1, r2}
  MaxToken = 2
  MaxTime = 3
  TTL = 2
  CacheMax = 1
  Expiries = {0, 2}
  NoRow = NoRow
SYMMETRY Symmetry
INVARIANTS
  StaleBound
CHECK_DEADLOCK FALSE
