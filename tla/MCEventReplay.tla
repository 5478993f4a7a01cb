--------------------------- MODULE MCEventReplay ---------------------------
(***************************************************************************)
(* A ring of one frame and pages of at most two rows, against four events  *)
(* and two faults.                                                         *)
(***************************************************************************)
EXTENDS EventReplay
=============================================================================
