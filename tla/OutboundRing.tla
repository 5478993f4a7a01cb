---------------------------- MODULE OutboundRing ----------------------------
(***************************************************************************)
(* The tokio broadcast channel of AppState (`notify`), as the transports   *)
(* use it: `send` never waits, the ring keeps the last Capacity frames, and*)
(* a receiver that falls further behind is told how many it missed and     *)
(* continues with the oldest frame kept.                                   *)
(***************************************************************************)
EXTENDS Integers, Sequences

CONSTANT Capacity   \* OUTBOUND_CAPACITY

ASSUME CapacityPositive == Capacity \in Nat \ {0}

VARIABLE sent   \* every frame sent so far, in order; the ring is its end

Send(frame) == sent' = Append(sent, frame)

\* A receiver's cursor `at` is the position of the frame it will read next.
Subscribed  == Len(sent) + 1
Oldest      == IF Len(sent) > Capacity THEN Len(sent) - Capacity + 1 ELSE 1
Lags(at)    == at < Oldest
Ready(at)   == Oldest <= at /\ at <= Len(sent)
Drained(at) == at > Len(sent)

\* What a transport writes to its client: the i-th frame sent, or a notice
\* that k frames were dropped (dropped_frames_notification).
Frame(i)   == [kind |-> "frame", n |-> i]
Dropped(k) == [kind |-> "dropped", n |-> k]
Written    == [kind : {"frame", "dropped"}, n : Nat]
Covers(w)  == IF w.kind = "frame" THEN 1 ELSE w.n
=============================================================================
