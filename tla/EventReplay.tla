---------------------------- MODULE EventReplay ----------------------------
(***************************************************************************)
(* How events reach a client that comes and goes: the sinks the providers  *)
(* hold (NotifyEvents and BridgeEvents in crates/provider-transport/src/   *)
(* state.rs) and the builder steps that wire them, the event log, the      *)
(* broadcast ring, and GET /api/events with and without `since` (http.rs), *)
(* through disconnects and restarts of the daemon.                         *)
(***************************************************************************)
EXTENDS EventLog, OutboundRing

CONSTANTS
  RegisterFirst,  \* the host builds its providers before it wires the sinks
                  \* (run_serve) or after (an embedder)
  Filtered,       \* the messages its plugin chain drops; without any the host
                  \* installs no event bus
  StreamFirst,    \* the client opens the live stream before it catches up,
                  \* or after (docs/persistence.md, "Typical client logic")
  MaxEvents,      \* bound: events the providers report
  MaxFaults       \* bound: disconnects, restarts and prunings

ASSUME ReplayConstants ==
  /\ RegisterFirst \in BOOLEAN /\ StreamFirst \in BOOLEAN
  /\ Filtered \subseteq Nat
  /\ MaxEvents \in Nat /\ MaxFaults \in Nat

VARIABLES
  built,         \* the builder steps the daemon has taken since it started
  registrySink,  \* the registry's `events`: with the log, with the bus
  providerSink,  \* the sink the providers were built with
  events,        \* how many events the providers have reported
  failed,        \* history: events whose insert failed, which is only logged
  client,        \* where the client is
  cursor,        \* the last cursor it has processed, which it remembers
  page,          \* the rows replay_since returned, before the reply is sent
  at,            \* its cursor in the ring, 0 without a stream
  got,           \* the events it has processed
  faults

daemonVars == <<built, registrySink, providerSink>>
clientVars == <<client, cursor, page, at, got>>
replayVars == <<logVars, sent, daemonVars, events, failed, clientVars, faults>>

\* NotifyEvents has no bus, BridgeEvents has one; either may have the log.
Sink   == [log : BOOLEAN, bus : BOOLEAN]
Plain  == [log |-> FALSE, bus |-> FALSE]
Steps  == {"register", "persist"} \cup (IF Filtered = {} THEN {} ELSE {"bus"})
Client == {"offline", "catching_up", "replaying", "opening", "live"}
Event  == 1 .. MaxEvents

ReplayTypeOK ==
  /\ rows \subseteq [cursor : Nat \ {0}, event : Event]
  /\ lastCursor \in 0 .. events
  /\ sent \in Seq(Event)
  /\ built \subseteq Steps
  /\ registrySink \in Sink
  /\ providerSink \in Sink
  /\ events \in 0 .. MaxEvents
  /\ failed \subseteq 1 .. events
  /\ client \in Client
  /\ cursor \in 0 .. lastCursor
  /\ page \subseteq [cursor : Nat \ {0}, event : Event]
  /\ at \in Nat
  /\ got \subseteq 1 .. events
  /\ faults \in 0 .. MaxFaults

ReplayInit ==
  /\ LogInit
  /\ sent = <<>>
  /\ built = {}
  /\ registrySink = Plain
  /\ providerSink = Plain
  /\ events = 0
  /\ failed = {}
  /\ client = "offline"
  /\ cursor = 0
  /\ page = {}
  /\ at = 0
  /\ got = {}
  /\ faults = 0

Up == built = Steps
-----------------------------------------------------------------------------
(* The daemon.                                                             *)

\* register_providers: every provider keeps a clone of the registry's sink.
Register ==
  /\ "register" \notin built
  /\ ~RegisterFirst => built = Steps \ {"register"}
  /\ built' = built \cup {"register"}
  /\ providerSink' = registrySink
  /\ UNCHANGED <<logVars, sent, registrySink, events, failed, clientVars, faults>>

\* A later builder step replaces the sink, so it must carry over what an earlier
\* one put in.
Wire(step, sink) ==
  /\ step \in Steps \ built
  /\ RegisterFirst => "register" \in built
  /\ built' = built \cup {step}
  /\ registrySink' = sink
  /\ UNCHANGED <<logVars, sent, providerSink, events, failed, clientVars, faults>>

\* with_persist opens the log; a bus that is installed stays.
WithPersist == Wire("persist", [log |-> TRUE, bus |-> "bus" \in built])

\* Mutant: the bridge is built without the log.
BridgeOnly == Wire("bus", [log |-> FALSE, bus |-> TRUE])

\* with_event_bus, or the first with_plugin; a log that is open stays.
WithEventBus == Wire("bus", [log |-> "persist" \in built, bus |-> TRUE])

\* on_message and on_error are one synchronous step: the plugin chain, append,
\* then send.
Report ==
  /\ Up
  /\ events < MaxEvents
  /\ events' = events + 1
  /\ UNCHANGED <<daemonVars, clientVars, faults>>

\* A message that a plugin drops goes no further.
Stopped(event) == providerSink.bus /\ event \in Filtered

Forward ==
  /\ Report
  /\ ~Stopped(events')
  /\ Send(events')

ReportFiltered ==
  /\ Report
  /\ Stopped(events')
  /\ UNCHANGED <<logVars, sent, failed>>

ReportLogged ==
  /\ Forward
  /\ providerSink.log
  /\ Insert(events')
  /\ UNCHANGED failed

\* Without the log, or when the insert fails, the event is sent all the same.
ReportUnlogged ==
  /\ Forward
  /\ failed' = IF providerSink.log THEN failed \cup {events'} ELSE failed
  /\ UNCHANGED logVars

Fault ==
  /\ faults < MaxFaults
  /\ faults' = faults + 1

HangUp ==
  /\ client' = "offline"
  /\ page' = {}
  /\ at' = 0
  /\ UNCHANGED <<cursor, got>>

\* The process is killed and started again: the ring and the streams are gone,
\* the committed rows are not.
Restart ==
  /\ Up
  /\ Fault
  /\ built' = {}
  /\ registrySink' = Plain
  /\ providerSink' = Plain
  /\ sent' = <<>>
  /\ HangUp
  /\ UNCHANGED <<logVars, events, failed>>

PruneOld ==
  /\ Up
  /\ Fault
  /\ \E keep \in 0 .. 1 : Prune(keep)
  /\ UNCHANGED <<sent, daemonVars, events, failed, clientVars>>

-----------------------------------------------------------------------------
(* The client, and the requests it makes.                                  *)

Connect ==
  /\ Up
  /\ client = "offline"
  /\ client' = IF StreamFirst THEN "opening" ELSE "catching_up"
  /\ UNCHANGED <<logVars, sent, daemonVars, events, failed, cursor, page, at, got,
                 faults>>

Disconnect ==
  /\ client # "offline"
  /\ Fault
  /\ HangUp
  /\ UNCHANGED <<logVars, sent, daemonVars, events, failed>>

\* GET /api/events?since=cursor: the rows are read under the state's mutex ...
Replay ==
  /\ client = "catching_up"
  /\ client' = "replaying"
  /\ \E limit \in 0 .. MaxPage + 1 : page' = ReplaySince(cursor, limit)
  /\ UNCHANGED <<logVars, sent, daemonVars, events, failed, cursor, at, got,
                 faults>>

Caught == IF at = 0 THEN "opening" ELSE "live"

\* ... and latest_cursor under a second lock, when events may have come in
\* between.  The client asks for the next page until it is at latest_cursor; a 0
\* beside rows is no answer to that, so it asks again.
ReplyTo(latest) ==
  /\ client = "replaying"
  /\ client' = IF cursor' < latest \/ (latest = 0 /\ page # {})
               THEN "catching_up" ELSE Caught
  /\ page' = {}
  /\ got' = got \cup {r.event : r \in page}
  /\ UNCHANGED <<logVars, sent, daemonVars, events, failed, at, faults>>

\* Mutant: the client remembers latest_cursor, not the last row of the page.
ReplyLatest ==
  /\ cursor' = IF LatestCursor > cursor THEN LatestCursor ELSE cursor
  /\ ReplyTo(LatestCursor)

\* When latest_cursor cannot be read the reply says 0, and keeps the rows.
Reply ==
  /\ \/ page = {} /\ cursor' = cursor
     \/ \E last \in page :
          /\ \A r \in page : r.cursor <= last.cursor
          /\ cursor' = last.cursor
  /\ \E latest \in {LatestCursor, 0} : ReplyTo(latest)

\* GET /api/events: the stream starts with the next event sent.
OpenStream ==
  /\ client = "opening"
  /\ client' = IF StreamFirst THEN "catching_up" ELSE "live"
  /\ at' = Subscribed
  /\ UNCHANGED <<logVars, sent, daemonVars, events, failed, cursor, page, got,
                 faults>>

\* A frame of the stream carries no cursor, so the client's stays.
StreamFrame ==
  /\ client = "live"
  /\ Ready(at)
  /\ got' = got \cup {sent[at]}
  /\ at' = at + 1
  /\ UNCHANGED <<logVars, sent, daemonVars, events, failed, client, cursor, page,
                 faults>>

\* Mutant: the receiver skips what it missed and says nothing.
StreamSkips ==
  /\ client = "live"
  /\ Lags(at)
  /\ at' = Oldest
  /\ UNCHANGED <<logVars, sent, daemonVars, events, failed, client, cursor, page,
                 got, faults>>

\* A client that is told of dropped frames catches up again.
StreamLags ==
  /\ client = "live"
  /\ Lags(at)
  /\ at' = Oldest
  /\ client' = "catching_up"
  /\ UNCHANGED <<logVars, sent, daemonVars, events, failed, cursor, page, got,
                 faults>>

-----------------------------------------------------------------------------
Boot       == Register \/ WithPersist \/ WithEventBus
ClientStep == \/ Connect
              \/ Replay
              \/ Reply
              \/ OpenStream
              \/ StreamFrame
              \/ StreamLags

ReplayNext ==
  \/ Boot
  \/ ReportLogged
  \/ ReportUnlogged
  \/ ReportFiltered
  \/ Restart
  \/ PruneOld
  \/ ClientStep
  \/ Disconnect

ReplaySpec == ReplayInit /\ [][ReplayNext]_replayVars

\* A daemon that is started comes up, and a client that goes on asking is served
\* (AppServer's RequestsAnswered).  Nothing else is fair.
FairReplaySpec == ReplaySpec /\ WF_replayVars(Boot) /\ WF_replayVars(ClientStep)
-----------------------------------------------------------------------------
(***************************************************************************)
(* What persistence promises.                                              *)
(***************************************************************************)

\* "Every event.message / event.error is appended to a local SQLite file": what
\* the providers reported has had its row, or a plugin dropped it, or SQLite
\* refused it.  And "messages dropped by a plugin never reach either sink".
EveryEventAppended ==
  /\ lastCursor + Cardinality(failed \cup (Filtered \cap 1 .. events)) = events
  /\ \A i \in 1 .. Len(sent) : sent[i] \notin Filtered

\* A cursor stands for all the rows up to it: whatever was deleted, restarted or
\* dropped meanwhile, a client has processed every row that is not after its own.
CursorHonest == \A r \in rows : r.cursor <= cursor => r.event \in got

\* "Clients can disconnect and reconnect without losing data when persistence is
\* on": a client that has caught up and follows the stream has, or will read
\* from the stream, every row of the log, unless the stream is about to tell it
\* that frames were dropped.
NoGap ==
  client = "live" /\ ~Lags(at) =>
    \A r \in rows :
      r.event \in got \/ \E i \in at .. Len(sent) : sent[i] = r.event

\* Every row still there reaches the client in the end.
EventsArrive ==
  \A e \in Event :
    (\E r \in rows : r.event = e) ~>
      (e \in got \/ ~\E r \in rows : r.event = e)
=============================================================================
