------------------------------ MODULE MCStdio ------------------------------
(***************************************************************************)
(* A ring of two frames, so that it overruns the writer often.             *)
(***************************************************************************)
EXTENDS StdioTransport
=============================================================================
