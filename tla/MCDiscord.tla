----------------------------- MODULE MCDiscord -----------------------------
(***************************************************************************)
(* Three events, the second no message, and one fault.                     *)
(***************************************************************************)
EXTENDS DiscordCheck
=============================================================================
