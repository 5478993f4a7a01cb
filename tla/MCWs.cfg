SPECIFICATION FairWsSpec
CONSTANTS
  Conn = {c1, c2}
  Reading = {c2}
  c1 = c1
  c2 = c2
  Says <- SaysDef
  Observed = c1
  Permits = 2
  Capacity = 1
  QueueMax = 1
  MaxLines = 1
  MaxEvents = 2
  Faulty = {c2}
INVARIANTS
  WsTypeOK
  ClosedInOrder
PROPERTIES
  HonestEvents
  AnswersArrive
CHECK_DEADLOCK FALSE
