SPECIFICATION FairOneShotSpec
CONSTANTS
  Threshold = 2
  Unwinds = TRUE
  MaxUpdates = 4
  Service = {2}
  MaxBatch = 3
  MaxFaults = 2
  Ops = {"daemon", "check", "listen", "once"}
  Capacity = 1
  MaxRuns = 2
INVARIANTS
  OneShotTypeOK
  NothingUnseen
  InOrderOnce
  HostTold
PROPERTY
  MessagesDispatched
CHECK_DEADLOCK FALSE
