SPECIFICATION ReplaySpec
CONSTANTS
  Capacity = 1
  MaxPage = 2
  RegisterFirst = TRUE
  Filtered = {}
  StreamFirst = TRUE
  MaxEvents = 4
  MaxFaults = 2
INVARIANT
  EveryEventAppended
CHECK_DEADLOCK FALSE
