-------------------------------- MODULE MCWs --------------------------------
(***************************************************************************)
(* Two connections, one of a client that need not read; a queue of one and *)
(* a ring of one, so that two events or answers in a row overflow them.    *)
(* The client that reads may hang up with an answer queued, and its socket *)
(* may fail.                                                               *)
(***************************************************************************)
EXTENDS WsTransport, TLC

CONSTANTS c1, c2

SaysDef == c1 :> {"request"} @@ c2 :> {"bad", "shutdown", "close"}
=============================================================================
