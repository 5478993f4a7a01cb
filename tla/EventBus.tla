------------------------------ MODULE EventBus ------------------------------
(***************************************************************************)
(* The event bus of the embedded client (crates/provider-core/src/         *)
(* client.rs) with its plugin chain (plugin.rs): threads publish, callbacks*)
(* are subscribed and removed meanwhile, an allow-list and a deduplication *)
(* cache stand between the two.  Messages are told apart by what filters   *)
(* and plugins look at: channel, id and room.                              *)
(***************************************************************************)
EXTENDS Sublists, FiniteSets, Functions

CONSTANTS
  Thread,         \* threads that publish
  Channel,        \* provider aliases
  Room,
  Rooms,          \* the rooms of AllowListPlugin
  Window,         \* DedupPlugin.window
  MaxEntries,     \* DedupPlugin.max_entries
  MaxTime,        \* bound of the clock
  MaxPasses,      \* bound: messages published
  MaxSubscribers  \* bound: subscriptions ever made

ASSUME BusConstants ==
  /\ Rooms \subseteq Room
  /\ Window \in Nat
  /\ MaxEntries \in Nat \ {0}
  /\ MaxTime \in Nat
  /\ MaxPasses \in Nat
  /\ MaxSubscribers \in Nat

VARIABLES
  now,          \* what DedupPlugin last read from the clock
  plugins,      \* the chain: "allow" and "dedup", in the order of use_plugin
  cache,        \* DedupPlugin.cache: when each key was admitted
  order,        \* DedupPlugin.order
  subscribers,  \* the subscriptions in force, in the order of their pushes
  made,         \* next_id - 1: ids handed out so far
  taken,        \* calls of subscribe that have an id and have not yet pushed
  joined,       \* history: pushes so far; each subscriber carries its own as `nth`
  publish,      \* per thread: the call of publish_filtered it is in
  verdicts,     \* history: what DedupPlugin said, of whom and when
  held,         \* history: the subscriptions whose handles are held
  passes        \* messages published so far

dedupVars     == <<now, cache, order, verdicts>>
subscribeVars == <<subscribers, made, taken, joined, held>>
busVars       == <<dedupVars, plugins, subscribeVars, publish, passes>>

Whatever  == "any"
Message   == [channel : Channel, id : 0 .. MaxPasses, room : Room]
Filter    == [channel : Channel \cup {Whatever}, room : Room \cup {Whatever}]
Key(m)    == <<m.channel, m.id>>
Idle      == [phase |-> "idle"]
IsIdle(t) == publish[t].phase = "idle"

Matches(filter, m) ==
  /\ filter.channel \in {Whatever, m.channel}
  /\ filter.room \in {Whatever, m.room}

Wanted(m) == {s.nth : s \in {h \in held : Matches(h.filter, m)}}

BusInit ==
  /\ now = 0
  /\ plugins = <<>>
  /\ cache = <<>>
  /\ order = <<>>
  /\ subscribers = <<>>
  /\ made = 0
  /\ taken = {}
  /\ joined = 0
  /\ publish = [t \in Thread |-> Idle]
  /\ verdicts = <<>>
  /\ held = {}
  /\ passes = 0
-----------------------------------------------------------------------------
(* The plugins.                                                            *)

UsePlugin(p) ==
  /\ p \notin Range(plugins)
  /\ plugins' = Append(plugins, p)
  /\ UNCHANGED <<dedupVars, subscribeVars, publish, passes>>

\* AllowListPlugin; an empty list lets everything pass.
Passes(room) == Rooms = {} \/ room \in Rooms

Before(p) == {plugins[i] : i \in {j \in DOMAIN plugins : \A k \in 1 .. j : plugins[k] # p}}
Installed(p) == p \in Range(plugins)

\* The chain stops at the first plugin that drops the message.
ReachesDedup(m) == Installed("dedup") /\ ("allow" \in Before("dedup") => Passes(m.room))

\* What the cache keeps when the clock says `at`, and the queue without the
\* keys that have just expired.
Unexpired(at) == {k \in DOMAIN cache : at - cache[k] < Window}

\* Mutant: the queue keeps the expired keys, in their old places.
PrunedLazily(at) == order

Pruned(at) ==
  IF Unexpired(at) = DOMAIN cache THEN order
  ELSE Kept(order, Unexpired(at))

Verdict(m, admitted) ==
  verdicts' = Append(verdicts, [key |-> Key(m), at |-> now', admitted |-> admitted])

\* The message is dropped, and the entry stays as it is.
Repeat(m, kept) ==
  /\ Key(m) \in DOMAIN kept
  /\ cache' = kept
  /\ order' = Pruned(now')
  /\ Verdict(m, FALSE)

\* The first entry of the queue that the cache still has makes room.
Admit(m, queue) ==
  LET live   == Unexpired(now')
      full   == Cardinality(live) >= MaxEntries
      oldest == CHOOSE i \in DOMAIN queue :
                  queue[i] \in live /\ \A j \in 1 .. i - 1 : queue[j] \notin live
      stays  == IF full THEN live \ {queue[oldest]} ELSE live
  IN /\ Key(m) \notin live
     /\ cache' = [k \in stays \cup {Key(m)} |-> IF k = Key(m) THEN now' ELSE cache[k]]
     /\ order' = Append(IF full THEN SubSeq(queue, oldest + 1, Len(queue)) ELSE queue, Key(m))
     /\ Verdict(m, TRUE)

Live(at) == [k \in Unexpired(at) |-> cache[k]]

Dedup(m) ==
  \/ Repeat(m, Live(now'))
  \/ Admit(m, Pruned(now'))

\* filter_send: the allow-list is the plugin that stops outbound messages.
FilterSend(room) == Installed("allow") => Passes(room)
-----------------------------------------------------------------------------
(* publish_filtered: the chain under the plugins' lock, the matching       *)
(* callbacks under the subscribers' lock, the calls under neither.         *)

Fan(t, m) ==
  publish' = [publish EXCEPT ![t] =
                [phase |-> "passed", msg |-> m, wanted |-> Wanted(m),
                 before |-> joined, todo |-> <<>>, called |-> <<>>]]

Chain(t, m) ==
  /\ IsIdle(t)
  /\ passes < MaxPasses
  /\ passes' = passes + 1
  /\ IF ReachesDedup(m) THEN now' \in now .. MaxTime /\ Dedup(m)
     ELSE UNCHANGED dedupVars
  /\ IF \/ Installed("allow") /\ ~Passes(m.room)
        \/ ReachesDedup(m) /\ ~verdicts'[Len(verdicts')].admitted
     THEN UNCHANGED publish
     ELSE Fan(t, m)
  /\ UNCHANGED <<plugins, subscribeVars>>

Taking(t, subs) ==
  LET m == publish[t].msg
  IN /\ publish[t].phase = "passed"
     /\ publish' = [publish EXCEPT
          ![t].phase = "calling",
          ![t].todo = Kept(subs, {s \in Range(subs) : Matches(s.filter, m)})]
     /\ UNCHANGED <<dedupVars, plugins, subscribeVars, passes>>

Snapshot(t) == Taking(t, subscribers)

\* The callback runs although it may have been removed since the snapshot.
Call(t) ==
  /\ publish[t].phase = "calling"
  /\ publish[t].todo # <<>>
  /\ publish' = [publish EXCEPT ![t].todo = Tail(@),
                                ![t].called = Append(@, Head(publish[t].todo).nth)]
  /\ UNCHANGED <<dedupVars, plugins, subscribeVars, passes>>

Return(t) ==
  /\ publish[t].phase = "calling"
  /\ publish[t].todo = <<>>
  /\ publish' = [publish EXCEPT ![t] = Idle]
  /\ UNCHANGED <<dedupVars, plugins, subscribeVars, passes>>

\* subscribe has two critical sections: an id under next_id ...
TakingId(id, filter, sink) ==
  /\ made < MaxSubscribers
  /\ made' = made + 1
  /\ taken' = taken \cup {[id |-> id, filter |-> filter, sink |-> sink]}
  /\ UNCHANGED <<subscribers, joined, held, dedupVars, plugins, publish, passes>>

\* Mutant: the id is the position that the subscriber will have.
TakeIdByLength(filter, sink) == TakingId(Len(subscribers) + 1, filter, sink)

TakeId(filter, sink) == TakingId(made + 1, filter, sink)

Joins(id, filter, sink) ==
  LET subscriber == [id |-> id, filter |-> filter, sink |-> sink, nth |-> joined + 1]
  IN /\ joined' = joined + 1
     /\ subscribers' = Append(subscribers, subscriber)
     /\ held' = held \cup {subscriber}
     /\ UNCHANGED <<dedupVars, plugins, publish, passes>>

\* ... and the push under the subscribers' lock, in whatever order the calls come
\* to it; then the caller has its handle.
Join(s) ==
  /\ s \in taken
  /\ taken' = taken \ {s}
  /\ Joins(s.id, s.filter, s.sink)
  /\ UNCHANGED made

\* Both, while nobody else has the bus.
SubscribeAlone(filter, sink) ==
  /\ made < MaxSubscribers
  /\ made' = made + 1
  /\ Joins(made + 1, filter, sink)
  /\ UNCHANGED taken

\* A handle is dropped: the list loses whatever has its id.
Dropping(s, kept) ==
  /\ s \in held
  /\ held' = held \ {s}
  /\ subscribers' = kept
  /\ UNCHANGED <<dedupVars, plugins, made, taken, joined, publish, passes>>

\* Mutant: Subscription has no Drop.
UnsubscribeNot(s) == Dropping(s, subscribers)

Unsubscribe(s) == Dropping(s, Kept(subscribers, {r \in Range(subscribers) : r.id # s.id}))
-----------------------------------------------------------------------------

\* A message is taken for a repetition exactly if it was admitted less than
\* the window ago, unless max_entries others have been admitted since: neither
\* expiry, nor eviction, nor a key that comes back after its expiry changes that
\* (DedupPlugin::on_message and the bounds of its doc, plugin.rs:55-61).
DedupExact ==
  \A j \in DOMAIN verdicts :
    LET earlier == {i \in 1 .. j - 1 :
                      /\ verdicts[i].admitted
                      /\ verdicts[i].key = verdicts[j].key
                      /\ verdicts[j].at - verdicts[i].at < Window}
        since(i) == Cardinality({k \in i + 1 .. j - 1 : verdicts[k].admitted})
    IN /\ ~verdicts[j].admitted => earlier # {}
       /\ verdicts[j].admitted => \A i \in earlier : since(i) >= MaxEntries

\* "De-duplicate inbound messages by (channel, id) within a sliding window. A
\* message whose id was seen less than window ago is dropped" (plugin.rs:52-54),
\* as long as the capacity lasts.  The window of the code does not slide: a
\* repetition that is dropped has been seen and leaves the entry as it is.
SeenIsDropped ==
  \A i, j \in DOMAIN verdicts :
    /\ i < j
    /\ verdicts[i].key = verdicts[j].key
    /\ verdicts[j].at - verdicts[i].at < Window
    /\ Cardinality({k \in i + 1 .. j - 1 : verdicts[k].admitted}) < MaxEntries
    => ~verdicts[j].admitted

\* When publish has made its calls, every callback whose subscription, to
\* messages like this one, was in force before the message had passed the chain
\* and still is has been called, once and in the order the subscriptions came
\* into force, and none that was removed before that, whoever subscribed or
\* unsubscribed meanwhile (publish_filtered, client.rs:188-220; subscribe and
\* the ids it shares with unsubscribe, client.rs:249-269 and 295-325).
CallsMatchSubscriptions ==
  \A t \in Thread : publish[t].phase = "calling" /\ publish[t].todo = <<>> =>
    LET call   == publish[t]
        called == Range(call.called)
    IN /\ call.wanted \cap Wanted(call.msg) \subseteq called
       /\ called \subseteq call.wanted \cup (call.before + 1 .. joined)
       /\ \A i, j \in DOMAIN call.called : i < j => call.called[i] < call.called[j]
=============================================================================
