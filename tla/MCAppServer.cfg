SPECIFICATION FairServerSpec
CONSTANTS
  Provider = {telegram, discord}
  Unwinds = TRUE
  WsConn = {w1}
  HttpConn = {h1}
  Signal = ctrl_c
INVARIANTS
  ServerTypeOK
  Bookkeeping
  ProvidersAccounted
  NoUnownedLoop
  CallHeldUnderLock
  ExitIsClean
PROPERTIES
  StartAllComplete
  StopAllComplete
  RequestsAnswered
  ShutdownCompletes
