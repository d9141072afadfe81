SPECIFICATION FairSpec
CONSTANTS
  Admins = {a1}
  Releases = {c1, x1}
  ClientReleases = {c1}
  c1 = c1
  x1 = x1
  a1 = a1
  Orig = Orig
  Swapped = Swapped
  NoFile = NoFile
  Nothing = Nothing
  NewBinary = NewBinary
  Size <- MCSize
  MaxTasks = 1
  MaxAttempts = 2
  MaxFaults = 1
  MaxCrashes = 1
  MaxSwaps = 1
  MaxTroubles = 2
INVARIANTS
  HashFollowsFile
  InstalledIsWhole
PROPERTIES
  FinalSticks
  EveryTaskEnds
CHECK_DEADLOCK FALSE
