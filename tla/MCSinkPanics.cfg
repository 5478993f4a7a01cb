SPECIFICATION OneShotSpec
CONSTANTS
  Threshold = 2
  Unwinds = TRUE
  MaxUpdates = 3
  Service = {2}
  MaxBatch = 3
  MaxFaults = 2
  Ops = {"daemon"}
  Capacity = 1
  MaxRuns = 1
INVARIANT
  CrashRedelivers
CHECK_DEADLOCK FALSE
