---------------------------- MODULE MCAppServer -----------------------------
(***************************************************************************)
(* Two providers, a WebSocket connection and an HTTP connection.           *)
(***************************************************************************)
EXTENDS AppServer
=============================================================================
