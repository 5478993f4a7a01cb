SPECIFICATION ServerSpec
CONSTANTS
  Provider = {telegram, discord}
  Unwinds = FALSE
  WsConn = {w1}
  HttpConn = {h1}
  Signal = ctrl_c
INVARIANT
  ProvidersHeld
