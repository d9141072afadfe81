SPECIFICATION TelemetrySpec
CONSTANTS
  r1 = r1
  r2 = r2
  Requests <- MCRequests
  Interval = 1
  MaxTime = 2
  MaxBytes = 2
  MaxBoots = 1
  NoSample = NoSample
SYMMETRY HandlerSymmetry
INVARIANTS CountedBytesPassed SamplesAreSpaced
