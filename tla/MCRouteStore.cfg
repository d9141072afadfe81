SPECIFICATION FairSpec
CONSTANTS
  Mappings = {m1, m2}
  Hosts = {h1}
  Devices = {d1}
  Groups = {g1, g2}
  Admins = {a1, a2}
  Global = Global
  NoRow = NoRow
  MaxChanges = 3
  MaxFailures = 1
  MaxRestarts = 1
INVARIANTS
  StaleIsNoticed
PROPERTIES
  RoutesConverge
CHECK_DEADLOCK FALSE
