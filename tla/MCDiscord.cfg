SPECIFICATION FairCheckSpec
CONSTANTS
  Threshold = 2
  Patience = 1
  Unwinds = TRUE
  MaxMessages = 3
  Service = {2}
  MaxFaults = 1
INVARIANTS
  CheckTypeOK
  ResumeSkipsNothing
  NeverTwice
  HostTold
PROPERTIES
  PassMeansNoRefusal
  SessionRegained
  MessagesDispatched
  SilenceLeft
CHECK_DEADLOCK FALSE
