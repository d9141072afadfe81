SPECIFICATION ForwardingFairSpec
CONSTANTS
  Capacity = 1
  MaxSend = 2
INVARIANTS
  DownloadComplete
PROPERTIES
  BridgesEnd
CHECK_DEADLOCK FALSE
