SPECIFICATION FairReplaySpec
CONSTANTS
  Capacity = 1
  MaxPage = 2
  RegisterFirst = FALSE
  Filtered = {2}
  StreamFirst = TRUE
  MaxEvents = 4
  MaxFaults = 2
INVARIANTS
  EveryEventAppended
  CursorHonest
  NoGap
PROPERTIES
  EventsArrive
CHECK_DEADLOCK FALSE
