SPECIFICATION MCSpec
CONSTANTS
  Transports = {"auto", "quic", "tcp"}
  l1 = l1
  l2 = l2
  Loops <- MCLoops
  HeartbeatFail = 1
  Channels = 1
  MaxStreams = 1
  MaxSncode = 2
  MaxToken = 2
  MaxTime = 2
  MaxFaults = 2
INVARIANTS IdentitySurvives TokenLossIsExplained  RestartsOnce
PROPERTY Reconnects
