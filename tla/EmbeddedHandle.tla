--------------------------- MODULE EmbeddedHandle ---------------------------
(***************************************************************************)
(* The handle of the FFI library (crates/provider-ffi/src/lib.rs): an event*)
(* bus, providers under their aliases and a poll queue, all on a runtime of*)
(* one thread that runs only while a host thread is inside a call that     *)
(* waits for it.  Hosts call it from several threads.                      *)
(***************************************************************************)
EXTENDS EventBus

CONSTANTS
  Demo,       \* aliases of demo providers; the others poll a platform
  QueueMax,   \* MAX of the poll queue, 1024 in the code
  Feed,       \* messages that platforms and other sources hand in
  Filters,    \* the filters hosts subscribe with
  Lobby,      \* "demo-room", the room of the greetings
  Plugins     \* what a Rust host installs, in this order

ASSUME HandleConstants ==
  /\ Demo \subseteq Channel
  /\ QueueMax \in Nat \ {0}
  /\ Feed \subseteq Message
  /\ Filters \subseteq Filter
  /\ Lobby \in Room
  /\ Plugins \in {<<>>, <<"allow">>, <<"dedup">>, <<"allow", "dedup">>, <<"dedup", "allow">>}

VARIABLES
  handle,      \* PcHandle: not yet made, in pc_init, in use, freed
  client,      \* its client is Some
  registered,  \* the aliases in the client's registry
  starting,    \* those start_all has not yet started
  running,     \* those whose polling loops are spawned
  host,        \* per thread: the call that waits for the runtime it is in
  core,        \* the thread that drives the runtime
  seq,         \* SEQ: the number of the next demo message
  waiting,     \* messages at the platforms, not yet fetched: at first the Feed
  pending,     \* the poll queue; each message with the number of its push
  pushes,      \* how many messages have been pushed
  polled,      \* history: pushes taken by pc_poll
  lost         \* history: pushes that made room for newer ones

setupVars  == <<handle, client, registered, starting, running>>
threadVars == <<host, core>>
feedVars   == <<seq, waiting>>
queueVars  == <<pending, pushes, polled, lost>>
handleVars == <<busVars, setupVars, threadVars, feedVars, queueVars>>

NoThread == "nobody"
Numbers  == {pending[i].n : i \in DOMAIN pending}

HandleTypeOK ==
  /\ now \in 0 .. MaxTime
  /\ cache \in [DOMAIN cache -> 0 .. now] /\ Cardinality(DOMAIN cache) <= MaxEntries
  /\ Range(order) = DOMAIN cache /\ Len(order) = Cardinality(DOMAIN cache)
  /\ Range(subscribers) = held
  /\ taken \subseteq [id : 1 .. made, filter : Filter, sink : {"queue", "host"}]
  /\ handle \in {"none", "init", "up", "freed"}
  /\ client \in BOOLEAN
  /\ starting \cup running \subseteq registered
  /\ host \in [Thread -> {"out", "init", "network"}]
  /\ core \in Thread \cup {NoThread}
  /\ core # NoThread => host[core] \in {"init", "network"}
  /\ seq \in 0 .. MaxPasses
  /\ waiting \subseteq Feed
  /\ pending \in Seq([n : 1 .. pushes, msg : Message])
  /\ polled \cup lost \subseteq 1 .. pushes

HandleInit ==
  /\ BusInit
  /\ handle = "none"
  /\ client = FALSE
  /\ registered = {}
  /\ starting = {}
  /\ running = {}
  /\ host = [t \in Thread |-> "out"]
  /\ core = NoThread
  /\ seq = 0
  /\ waiting = Feed
  /\ pending = <<>>
  /\ pushes = 0
  /\ polled = {}
  /\ lost = {}
-----------------------------------------------------------------------------
(* PcHandle::new.                                                          *)

\* parse_sidecar_config: what pc_init was given or, failing that, the
\* environment names; nobody looks for aliases used twice.
Entry  == [alias : Channel, complete : BOOLEAN]
Config == UNION {[1 .. n -> Entry] : n \in 0 .. Cardinality(Channel)}

\* build_provider: an entry of a known kind with its token, if it needs one.
Usable(entry) == entry.complete \/ entry.alias \in Demo

\* The entries that cannot be built are skipped; without any entry there is the
\* default demo provider.
Built(config) ==
  IF config = <<>> THEN {"demo"}
  ELSE {config[i].alias : i \in {j \in DOMAIN config : Usable(config[j])}}

\* ProviderClientBuilder::build fails as a whole.
Ambiguous(config) ==
  \E i, j \in DOMAIN config :
    i # j /\ config[i].alias = config[j].alias /\ Usable(config[i]) /\ Usable(config[j])

\* The bridge into the poll queue is the first subscriber.  When the build fails
\* the handle is handed out all the same, without a client.
New(t) ==
  /\ handle = "none"
  /\ host[t] = "out"
  /\ SubscribeAlone([channel |-> Whatever, room |-> Whatever], "queue")
  /\ \E config \in Config :
       /\ client' = ~Ambiguous(config)
       /\ registered' = IF Ambiguous(config) THEN {} ELSE Built(config)
  /\ starting' = registered'
  /\ IF client'
     THEN handle' = "init" /\ host' = [host EXCEPT ![t] = "init"] /\ core' = t
     ELSE handle' = "up" /\ UNCHANGED threadVars
  /\ UNCHANGED <<running, feedVars, queueVars>>

\* start_all: a demo provider publishes a greeting from its start, the others
\* spawn their loops.
StartProvider(t, p) ==
  /\ host[t] = "init"
  /\ IsIdle(t)
  /\ p \in starting
  /\ starting' = starting \ {p}
  /\ IF p \in Demo
     THEN /\ Chain(t, [channel |-> p, id |-> seq, room |-> Lobby])
          /\ seq' = seq + 1
          /\ UNCHANGED running
     ELSE /\ running' = running \cup {p}
          /\ UNCHANGED <<busVars, seq>>
  /\ UNCHANGED <<handle, client, registered, threadVars, waiting, queueVars>>

Leave(t) ==
  /\ host' = [host EXCEPT ![t] = "out"]
  /\ core' = IF core = t THEN NoThread ELSE core

NewEnd(t) ==
  /\ host[t] = "init"
  /\ starting = {}
  /\ IsIdle(t)
  /\ handle' = "up"
  /\ Leave(t)
  /\ UNCHANGED <<busVars, client, registered, starting, running, feedVars, queueVars>>

\* pc_free, once no thread is in a call, of subscribe either: the runtime goes with its tasks, the
\* subscriptions with the handle.  What the queue still has goes too.
Free ==
  /\ handle = "up"
  /\ \A t \in Thread : host[t] = "out" /\ IsIdle(t)
  /\ taken = {}
  /\ handle' = "freed"
  /\ client' = FALSE
  /\ registered' = {}
  /\ running' = {}
  /\ subscribers' = <<>>
  /\ held' = {}
  /\ pending' = <<>>
  /\ UNCHANGED <<dedupVars, plugins, made, taken, joined, publish, passes, starting, threadVars, feedVars,
                 pushes, polled, lost>>
-----------------------------------------------------------------------------
(* Sending, and the runtime that runs meanwhile.                           *)

Calls(t) == handle = "up" /\ host[t] = "out" /\ IsIdle(t)

\* Refusals by the plugins or the registry change nothing.
Sends(t, p, room) ==
  /\ Calls(t)
  /\ client
  /\ p \in registered
  /\ FilterSend(room)

\* A demo provider publishes the echo on the sender's thread, and never waits.
SendDemo(t, p, room) ==
  /\ Sends(t, p, room)
  /\ p \in Demo
  /\ Chain(t, [channel |-> p, id |-> seq, room |-> room])
  /\ seq' = seq + 1
  /\ UNCHANGED <<setupVars, threadVars, waiting, queueVars>>

SendNetwork(t, p, room) ==
  /\ Sends(t, p, room)
  /\ p \notin Demo
  /\ host' = [host EXCEPT ![t] = "network"]
  /\ core' = IF core = NoThread THEN t ELSE core
  /\ UNCHANGED <<busVars, setupVars, feedVars, queueVars>>

\* Of the threads inside block_on one drives the runtime; when it leaves,
\* another takes over.
TakeCore(t) ==
  /\ core = NoThread
  /\ host[t] = "network"
  /\ core' = t
  /\ UNCHANGED <<busVars, setupVars, host, feedVars, queueVars>>

\* A loop on the driven runtime dispatches a message under its alias.
Inbound(t, m) ==
  /\ core = t
  /\ m \in waiting
  /\ m.channel \in running
  /\ Chain(t, m)
  /\ waiting' = waiting \ {m}
  /\ UNCHANGED <<setupVars, threadVars, seq, queueVars>>

\* The platform has answered.
SendEnd(t) ==
  /\ host[t] = "network"
  /\ IsIdle(t)
  /\ Leave(t)
  /\ UNCHANGED <<busVars, setupVars, feedVars, queueVars>>

\* A host hands in a message of another source (handle.bus().publish).
Bridge(t, m) ==
  /\ Calls(t)
  /\ Chain(t, m)
  /\ UNCHANGED <<setupVars, threadVars, feedVars, queueVars>>
-----------------------------------------------------------------------------
(* The poll queue.                                                         *)

\* The callback of a queue subscription: push, then drop the oldest above MAX.
Pushed(m) == Append(pending, [n |-> pushes + 1, msg |-> m])

PushKeeping(m, kept) ==
  /\ pushes' = pushes + 1
  /\ pending' = IF Len(Pushed(m)) > QueueMax THEN kept ELSE Pushed(m)
  /\ lost' = lost \cup ({Pushed(m)[i].n : i \in DOMAIN Pushed(m)}
                        \ {pending'[i].n : i \in DOMAIN pending'})
  /\ UNCHANGED polled

\* Mutant: the newest is dropped.
PushRefusing(m) == PushKeeping(m, pending)

Push(m) ==
  LET queue == Pushed(m)
  IN PushKeeping(m, SubSeq(queue, Len(queue) - QueueMax + 1, Len(queue)))

CallBack(t) ==
  /\ Call(t)
  /\ IF Head(publish[t].todo).sink = "queue" THEN Push(publish[t].msg)
     ELSE UNCHANGED queueVars
  /\ UNCHANGED <<setupVars, threadVars, feedVars>>

Poll ==
  /\ handle = "up"
  /\ pending # <<>>
  /\ polled' = polled \cup {Head(pending).n}
  /\ pending' = Tail(pending)
  /\ UNCHANGED <<busVars, setupVars, threadVars, feedVars, pushes, lost>>

\* pc_subscribe: one more subscription of the same queue, besides the bridge.
PcSubscribe(filter) == TakeId(filter, "queue")
-----------------------------------------------------------------------------
(* A Rust host on the handle's bus.                                        *)

HostSubscribe(filter) == TakeId(filter, "host")

HostUnsubscribe(s) == s.sink = "host" /\ Unsubscribe(s)

HostPlugin ==
  /\ Len(plugins) < Len(Plugins)
  /\ UsePlugin(Plugins[Len(plugins) + 1])

Quietly(A) == A /\ UNCHANGED <<setupVars, threadVars, feedVars, queueVars>>

OnTheBus(A) == handle = "up" /\ Quietly(A)

\* What the library does by itself once called.
Proceed(t) ==
  \/ \E p \in Channel : StartProvider(t, p)
  \/ NewEnd(t)
  \/ TakeCore(t)
  \/ \E m \in Feed : Inbound(t, m)
  \/ SendEnd(t)
  \/ Quietly(Snapshot(t))
  \/ CallBack(t)
  \/ Quietly(Return(t))

HandleNext ==
  \/ \E t \in Thread :
       \/ New(t)
       \/ Proceed(t)
       \/ \E p \in Channel, room \in Room : SendDemo(t, p, room) \/ SendNetwork(t, p, room)
       \/ \E m \in Feed : Bridge(t, m)
  \/ Free
  \/ Poll
  \/ \E filter \in Filters : OnTheBus(PcSubscribe(filter) \/ HostSubscribe(filter))
  \/ \E s \in taken : OnTheBus(Join(s))
  \/ \E s \in held : OnTheBus(HostUnsubscribe(s))
  \/ OnTheBus(HostPlugin)

HandleSpec == HandleInit /\ [][HandleNext]_handleVars

\* A host that polls again and again, calls that proceed and, in favour of the
\* library, a send that waits long enough for what the platforms have.
FairHandleSpec ==
  /\ HandleSpec
  /\ WF_handleVars(Poll)
  /\ \A t \in Thread : WF_handleVars(Proceed(t)) /\ SF_handleVars(\E m \in Feed : Inbound(t, m))
-----------------------------------------------------------------------------

\* A push is lost only to make room for QueueMax newer ones; whatever else has
\* been pushed is polled or still to be polled, in the order of the pushes
\* (PcHandle::new and subscribe_filtered, lib.rs:404-413 and 532-541).
OldestLost ==
  /\ \A i, j \in DOMAIN pending : i < j => pending[i].n < pending[j].n
  /\ \A n \in lost : n + QueueMax <= pushes
  /\ polled \cap lost = {}
  /\ handle = "up" => 1 .. pushes = polled \cup lost \cup Numbers
  /\ \A n \in polled \cup lost, i \in DOMAIN pending : n < pending[i].n

\* A host that polls gets what the platforms have for it (packages/python/
\* README.md:26), as far as the bound of the model lets messages through.
InboundArrives ==
  \A m \in Feed :
    handle = "up" /\ m \in waiting /\ m.channel \in running
      ~> m \notin waiting \/ handle = "freed" \/ passes = MaxPasses
=============================================================================
