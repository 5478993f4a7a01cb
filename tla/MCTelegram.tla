----------------------------- MODULE MCTelegram -----------------------------
(***************************************************************************)
(* Updates, the second without a message, that overrun a listener's ring in*)
(* one answer, and processes that follow one another.                      *)
(***************************************************************************)
EXTENDS OneShot
=============================================================================
