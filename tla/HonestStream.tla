---------------------------- MODULE HonestStream ----------------------------
(***************************************************************************)
(* What a client of the transport is promised about the frames produced for*)
(* it: they arrive in the order they were produced, and where some are     *)
(* missing a notice in their place says how many (docs of OUTBOUND_CAPACITY*)
(* and dropped_frames_notification in crates/provider-transport/src/       *)
(* state.rs, and of serve_stdio).                                          *)
(***************************************************************************)
EXTENDS Integers, Sequences

VARIABLES
  produced,  \* how many frames have been produced for the client
  upTo,      \* the last of them it has received or been told of
  stream     \* what the client has received

Frame(i)   == [kind |-> "frame", n |-> i]    \* the i-th frame produced
Dropped(k) == [kind |-> "dropped", n |-> k]  \* "k frames were dropped"

Init ==
  /\ produced = 0
  /\ upTo = 0
  /\ stream = <<>>

Produce ==
  /\ produced' = produced + 1
  /\ UNCHANGED <<upTo, stream>>

Deliver ==
  /\ upTo < produced
  /\ upTo' = upTo + 1
  /\ stream' = Append(stream, Frame(upTo'))
  /\ UNCHANGED produced

Announce ==
  /\ upTo < produced
  /\ upTo' \in (upTo + 1) .. produced
  /\ stream' = Append(stream, Dropped(upTo' - upTo))
  /\ UNCHANGED produced

Next == Produce \/ Deliver \/ Announce

Spec == Init /\ [][Next]_<<produced, upTo, stream>>
=============================================================================
