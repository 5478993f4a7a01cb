----------------------------- MODULE MCEmbedded -----------------------------
(***************************************************************************)
(* Two host threads, a demo provider and a polling one, a queue of two;    *)
(* publications come from the feed below, by polling or from another       *)
(* source, in any number of copies.  The runs look at two kinds of         *)
(* behaviour: threads that share a handle at one time of the clock, and one*)
(* thread whose messages fill the deduplication cache over time.           *)
(***************************************************************************)
EXTENDS EmbeddedHandle, TLC

Polled     == {[channel |-> "tg", id |-> 1, room |-> "in"]}
Series     == {[channel |-> "demo", id |-> i, room |-> "in"] : i \in 1 .. 3}
AllFeed    == Polled \cup Series
PluginsDef == <<"dedup", "allow">>
DedupOnly  == <<"dedup">>
FiltersDef == {[channel |-> "tg", room |-> "in"]}
Symmetry   == Permutations(Thread)

\* At most two messages, at one time, none of the series.
Sharing ==
  /\ passes <= 2
  /\ now = 0
  /\ \A t \in Thread : ~IsIdle(t) => publish[t].msg \notin Series
  /\ \A m \in Series : Key(m) \notin DOMAIN cache

\* The deduplication alone: a handle without providers, which nobody else uses.
InSeries ==
  /\ registered = {}
  /\ made <= 1
  /\ plugins = DedupOnly
  /\ polled = {}
  /\ \A m \in Polled : Key(m) \notin DOMAIN cache
  /\ Cardinality({t \in Thread : ~IsIdle(t)}) <= 1

Studied == Sharing \/ InSeries
=============================================================================
