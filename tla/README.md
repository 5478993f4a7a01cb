# side-pigeon in TLA+

A verification development kept beside the code: TLA+ modules for the parts of
side-pigeon that run concurrently, TLC runs over small instances of them, and
TLAPS proofs for every instance. Paths are relative to the repository root
(`crates/...`, `bin/...`); `PROJECT.json` gives for every definition the lines it
translates.

## The system

`pc` connects chat platforms (Telegram, Discord, a demo provider) to local
agents. All of it runs on tokio's current-thread runtime: tasks interleave only
at awaits, and a future can be dropped at any await.

| Part | State it keeps | Operations | Talks to |
| --- | --- | --- | --- |
| Provider registry (`provider-core/src/registry.rs`) | the boxed providers, `started`, the event sink | `register`, `start`, `start_all`, `stop`, `stop_all`, `send`, `set_events` | calls the providers; owned by `AppState` |
| Telegram provider (`provider-telegram`) | offset cursor, task handle, shutdown flag | `start`, `stop`, `send`, the poll loop | Telegram over HTTP; the event sink |
| Discord provider (`provider-discord`) | session and sequence number, guild names, task handle, last error | `start`, `stop`, `send`, the gateway task | Discord's gateway and REST; the event sink |
| Dispatcher (`provider-transport/src/state.rs`) | registry, broadcast sender, event log | `handle_request`: `initialize`, `capabilities`, `listen`, `send`, `shutdown` | every transport, by exclusive access or behind one mutex |
| Stdio transport (`stdio.rs`) | read loop, writer task | one line in, one line out | dispatcher; broadcast ring of 32 frames |
| WebSocket transport (`ws.rs`) | per connection: read loop, forwarder, queue of 1024, writer | JSON-RPC, event frames, clean-up | dispatcher behind `Arc<Mutex<AppState>>`; broadcast ring |
| HTTP transport (`http.rs`) | per connection: a handler that hyper may drop | JSON-RPC, REST send, SSE, replay | dispatcher behind the same mutex; event log |
| Event log (`persist.rs`) | one SQLite table with a growing cursor | `append`, `replay_since`, `latest_cursor`, `prune` | the sinks; `GET /api/events` |
| `pc` binary and standalone CLI (`bin/pc/src/main.rs`, `cli/src/ops.rs`) | wiring; one provider per command | `serve`, the stdio sidecar, one-shot `send`, `listen`, `check` | builds all of the above |
| Event bus and plugins (`client.rs`, `plugin.rs`) | subscribers, plugin chain, dedup window | `publish`, `subscribe`, `unsubscribe`, `use_plugin`, `filter_send` | callbacks; the FFI handle; `pc serve`'s bus bridge |
| FFI handle (`provider-ffi`) | runtime of one thread, registry, poll queue of 1024 | `pc_init`, `pc_send`, `pc_poll`, `pc_subscribe`, `pc_free` | embedded hosts, on any thread of theirs |
| TypeScript clients (`packages/core`, `plugins/opencode-plugin`) | pending requests, session map, recent sends | `request`, `deliver`, `sendMessage`, `shutdown` | a `pc` child process |

What is hard about it, and what each part must guarantee:

* **Registry.** `start_all` moves providers out of the registry into tasks and
  back; tasks fail and panic, the whole call can be dropped, loops die on their
  own. *No provider may be lost or run without an owner, books and reality must
  agree, and `Ok` must mean started.*
* **Dispatcher and mutex.** One lock is held across network calls by clients that
  may disappear, with Ctrl-C behind them. *Every request is answered, a dropped
  handler releases exactly what it held, pc exits, and leaves nothing running.*
* **Stdio and WebSocket.** Responses and events share a ring, or a queue behind a
  ring, that overruns; clients stop reading, half of a connection fails. *Order
  is kept, drops are announced where they happened with the right count, nothing
  queued is cut off at an orderly end, and one client's full queue does not hold
  up another's requests.*
* **Event log.** Wiring order, plugins, restarts, pruning, pages read while events
  come in, a stream opened at another moment than the replay. *Every event has a
  row; a cursor never overstates what its client has processed; nothing falls
  between replay and stream.*
* **Telegram.** Long polls are aborted, answers get lost, a sink panics, processes
  follow one another on the same bot. *At-least-once towards Telegram, once and
  in order within a process, no silent death; what a listener takes it shows.*
* **Discord.** RESUME against IDENTIFY, heartbeats against dispatch, sessions that
  survive stop, start and aborts. *A RESUME skips and repeats nothing, a dead
  session is left, a failing gateway is reported, and no check passes over it.*
* **Bus and FFI.** Callbacks after unsubscription, duplicate suppression with
  expiry and eviction, a bounded queue, several threads inside `block_on`. *Calls
  agree with subscriptions, exactly the repetitions are dropped, the queue loses
  its oldest only.*

`PROJECT.json` lists the hazards one by one, each at its line, with the
properties that would catch it.

## Modules

| Module | Models | State and actions |
| --- | --- | --- |
| `ProviderRegistry` | `registry.rs`, and `start`/`stop` and the background task of a provider | `registered`, `started`, `handle`, `loop`, `joinset`; one action per step between two awaits: `StartAllBegin`, `StartTaskOk`/`StartTaskFails`, `Join`, `StartAllEnd`, `StartAllDropped`, `StopAllBegin`, `StopBegin`, `StopEnd`, `StopAllEnd`, `LoopDies` |
| `AppServer` | `handle_request` behind the mutex, WebSocket and HTTP handlers, Ctrl-C | extends `ProviderRegistry` with `conn`, `req`, `lockq` (holder first, then waiters: tokio's mutex is fair) and `phase`; `HttpDisconnect` drops a handler wherever it waits, `WsDisconnect` only between requests |
| `OutboundRing` | the tokio broadcast channel, as the transports use it (external) | `sent`, of which the last `Capacity` frames are readable; receivers are cursors |
| `HonestStream` | the abstract promise of a transport: frames in order, gaps announced in place | `Produce`, `Deliver`, `Announce` |
| `StdioTransport` | `stdio.rs` | `reader` and `writer` as two processes over the ring; refines `HonestStream` |
| `EventLog` | `persist.rs` | `rows`, `lastCursor` (SQLite's `sqlite_sequence`) and its four operations |
| `EventReplay` | sinks, their wiring with log and plugin bus, `GET /api/events` with and without `since`, a client that comes and goes | extends `EventLog` and `OutboundRing`; `RegisterFirst` and `StreamFirst` choose the order of wiring and of catching up, `Filtered` the events a plugin drops |
| `TelegramPoller` | `poll_loop`, `get_updates`, `start`, `stop` of the Telegram provider against Telegram's queue (external) | `offset`, `loop`, `batch`, `errors`; `confirmed` is what Telegram has forgotten |
| `OneShot` | `pc send`, `listen` and `check` on Telegram, in both copies of the code, and daemons, one process after another | extends `TelegramPoller` with `op` and the listener's ring (`unread`, `missed`); `Launch`, `Receives`, `Lags`, `TimesOut`, `Concludes`, `Exit`, `Killed`. A listener that is done (`StopsTargets`) stops this provider at once, or is `leaving` while `stop_all` is busy with others and the loop polls on |
| `DiscordGateway` | `gateway_task`, `run_connection`, `read_hello`, heartbeats, `start`, `stop` of the Discord provider against Discord's sessions (external) | `cached`/`saved` (the session), `gateway`, `pos` and `request` of the connection, `beats`; one action per kind of frame or timer |
| `DiscordCheck` | `pc check` on Discord with its look at the error slot | extends `DiscordGateway` with `op` and `verdict` |
| `EventBus` | `client.rs` and `plugin.rs` | `subscribers`, `plugins`, `cache`/`order` (the dedup window); publishing in the steps `Chain`, `Snapshot`, `Call`, `Return`, subscribing in the two of its locks, `TakeId` and `Join` (with `taken` between them), of several threads |
| `EmbeddedHandle` | `provider-ffi/src/lib.rs`, on the bus | extends `EventBus` with the registry of aliases, `host`/`core` (who is in `block_on`, who drives the runtime) and the poll queue |
| `WsTransport` | `ws.rs` | per connection `reader`, `forwarder`, `queue`, `writer` over `OutboundRing`, and the `lock`; once a client's Close was read (`hungUp`) sends are refused (`WriteRefused`); an observed connection refines `HonestStream` |
| `Sublists` | `retain` of a vector or queue and `filter` of an iterator, for the three modules above | `Kept`, a recursive function |
| `*_proofs` | | the theorems about the module of the same name; `AppServer_proofs` also has those about `ProviderRegistry`, `OneShot_proofs` those about `TelegramPoller`, `EmbeddedHandle_proofs` those about `EventBus` |
| `MC*` | | the instances TLC checks |

A batch of updates is dispatched without an await, so it is one action; a panic
and a restart may cut it anywhere. `on_message` appends and broadcasts in one
synchronous step, so `Report` does, too. A request that fails validation changes
nothing and is an `info` request. Operators named as mutants in a comment are not
part of any specification: each is a plausible bug of the action below it, and
shows that a property of a run can fail.

## Runs

| Run | Expected | Shows |
| --- | --- | --- |
| `appserver` (`MCAppServer.cfg`) | pass | two providers, one WebSocket and one HTTP client, Ctrl-C: the books, the lock, answers and exit |
| `providers_held` (`MCProvidersHeld.cfg`) | violation | a disconnect in the middle of `listen` loses providers for all clients |
| `stdio` (`MCStdio.cfg`) | pass | stdout refines `HonestStream`, is drained at exit, and the sidecar ends |
| `event_replay` (`MCEventReplay.cfg`) | pass | log and bus in either order before the providers, stream first: no event is missed, also when `latest_cursor` cannot be read, a filtered one reaches nobody, and no cursor lies |
| `serve_wiring` (`MCServeWiring.cfg`) | violation | in `run_serve`'s order nothing is ever appended |
| `telegram` (`MCTelegram.cfg`) | pass | daemons and one-shot commands on one bot: at-least-once, in order, never silent, nothing forgotten that no sink was given, and progress |
| `sink_panics` (`MCSinkPanics.cfg`) | violation | the message whose `on_message` panics is acknowledged by the next start |
| `discord` (`MCDiscord.cfg`) | pass | a daemon or `pc check`: RESUME skips and repeats nothing, sessions are regained, silence is left, refusals are reported and fail the check |
| `embedded` (`MCEmbedded.cfg`) | pass | two threads on a handle: calls and subscriptions agree while others subscribe, in either order of their ids, and unsubscribe; the queue loses its oldest only; a series of repetitions: a message is dropped exactly if it was admitted less than the window ago, unless the capacity was used up since |
| `dedup_sliding` (`MCDedupSliding.cfg`) | violation | the documented sliding window: a repetition seen less than the window ago is admitted |
| `ffi_poll` (`MCEmbeddedPolling.cfg`) | violation | a host that only polls gets no inbound message: nobody drives the runtime |
| `fanout` (`MCWs.cfg`) | pass | two WebSocket connections, one that need not read, one that may hang up with an answer queued: `HonestStream` on the first, the lock comes back, the other client is answered, and what is closed in order loses nothing |

The five violations are described, with the lines of the documentation they
contradict, under `findings` in `PROJECT.json`. `serve_wiring` is a bug; in the
others code and documentation disagree.

Noticed while modelling, without a run of their own:

* *Catching up.* `docs/persistence.md:67-68` tells clients to replay with
  `GET /api/events?since=<cursor>` and "Then open the live `GET /api/events` SSE
  stream". An event reported between the two is in neither, and no frame of the
  stream has a cursor that would show it. With `StreamFirst = FALSE` and
  `RegisterFirst = FALSE` TLC refutes `NoGap`; the run has the other order.
* *A listener with several targets* stops them one after another (`stop_all`, up to
  500 ms each) while nobody reads its ring any more. A loop that is stopped later
  can poll again, which acknowledges what it has just dispatched to nobody: such a
  message is neither printed nor queued any more, while
  `docs/app-integration.md:275` calls messages "queued ~24 h by Telegram" and says
  that "catch-up delivers queued messages". It takes two rounds in that time: a
  `poll_interval_secs` of 0, or several targets to wait for. The model has these
  steps (`leaving`), and `NothingUnseen` excepts what is dispatched in them.
* *A dropped response.* Responses of the sidecar share the ring of 32 frames with
  events. Where events overrun the writer the response is dropped like any frame
  and only their number is announced (`stdio.rs:157-166`), while the doc of
  `serve_stdio` (`stdio.rs:16-18`) says that responses "are written to `stdout` in
  the order they were produced". The caller waits for its own timeout.
  `FramesAccounted` counts such a response as accounted for.
* `read_text` of the standalone CLI (`cli/src/main.rs:587-592`) discards the string
  it reads from `--text-file`, so that command sends an empty text although
  `cli/README.md:59-60` says it "reads a file" (`bin/pc/src/main.rs:563` assigns it).
* The branch of `listen` that waits for "the event channel" to close
  (`cli/src/ops.rs:237-240`) is never taken, since the state keeps a sender for as
  long as it lasts.

### Bounds

* `appserver`: two providers are enough for one to be started, failed or lost
  while the other is in another state, and for `stop_all` to wait for one while
  the other dies. Connections are unbounded in time: each may connect, ask and
  leave forever. More of them would only lengthen the lock queue; the Ctrl-C
  handler is already a second waiter behind each. `Unwinds = TRUE` includes
  panics; `providers_held` uses the release profile (`panic = "abort"`).
* `stdio`: a ring of two frames against two lines and three events overruns,
  wraps, and overruns again before a notice is written.
* `event_replay`: a ring of one frame, pages of up to two rows, four events of
  which a plugin drops the second, two faults (disconnect, restart or prune):
  multi-page replays, lag, a log emptied by a prune and a restart after it.
* `telegram`: four updates, the second without a message, answers of up to three,
  a ring of one frame, a threshold of two errors, two faults, two processes one
  after the other (a daemon starts and stops its provider as often as it likes):
  a listener that lags, ends in the middle of a
  batch, and hands over to the next. `send` is left out of `Ops`: it does what
  `check` does.
* `discord`: three events, the second without a message, one fault (fatal close,
  panic, silence, restart, expired session) beside any number of lost
  connections, a patience of one beat and a threshold of two: a session resumed
  twice, refused, begun anew, and a second RESUME from it.
* `sink_panics`: three updates and a daemon only, so that nothing but the panic can
  be the cause.
* `embedded`: two kinds of behaviour (`Sharing` and `InSeries` of `MCEmbedded`; the
  `CONSTRAINT` leaves out their mixtures, which would only multiply the two). In the
  first two threads, two publications, two subscriptions beside the bridge, made and
  dropped by both while the other publishes, a queue of two, and a clock that stands
  still; the threads are symmetric. In the second one thread and six messages of
  three ids, two entries and a window of two ticks of which the clock has two: an
  entry that expires beside one that does not, an eviction, a key that comes back
  after either. `dedup_sliding` has the second only. The run checks invariants, so
  the constraint hides no step of a behaviour within it.
* `ffi_poll` needs one thread and one message.
* `fanout`: two connections, a ring and a queue of one, two events, one line of
  each client and, of the one that reads, a close behind it. The observed
  connection is that of the client that need not read, and the first of two that
  share the ring; more of them would only add readers of the same ring and waiters
  for the same lock. Only the socket of the client that reads fails (`Faulty`), and
  no client sends a line without an id; the theorems are about any `Faulty` and
  `Says`.

`CHECK_DEADLOCK FALSE` is set where the bounds, or a dead loop that nobody stops,
leave nothing to do.

### Fairness

* `AppServer`: the runtime polls what is ready, jitter sleeps and grace windows
  end, and a send ends (both HTTP clients have a 60 s timeout). Nothing is
  assumed of clients, platforms and Ctrl-C.
* `StdioTransport`: both tasks are polled, and the pipe takes data or fails. The
  code has no timeout for a client that keeps stdout open and never reads; this
  is listed as a hazard.
* `EventReplay`: a daemon that is started comes up, and a client that goes on
  asking is answered. It asks until it is at `latest_cursor`, and takes a 0 beside
  rows for no answer and an empty page for the end. Disconnects and restarts are
  under no fairness.
* `OneShot`: weak fairness for the loop's own steps, the end of the grace window
  and a listener that reads what there is; strong fairness for an answer and its
  dispatch, because a round may fail any number of times but not for ever. None
  for launches, deadlines and kills.
* `DiscordCheck`: the task's timers fire (`Connect` after the back-off, `Beat`,
  the end of the grace window: weak), and a step of the protocol that can be taken
  again and again is taken (strong), since connections may be lost as often as
  they like. Nothing makes a HELLO come: `read_hello` has no timeout, and
  `SessionRegained` and `MessagesDispatched` except that state by name (`Hung`).
* `EmbeddedHandle`, in `ffi_poll` only: a host that polls again and again, calls
  that proceed, and in favour of the library sends that wait for what is there.
  The violation stands in spite of it.
* `WsTransport`: every task is polled, the mutex is fair (strong fairness of
  `Lock`), and only the clients in `Reading` read what they are sent. Sockets fail
  under no fairness.

## Proofs

All theorems hold for every value of the constants, under the named assumptions
of the modules (sizes are natural numbers, sets of actors are disjoint).

* **Registry** (`AppServer_proofs`). `Bookkeeping`, `ProvidersAccounted` and
  `NoUnownedLoop` are not inductive alone: what a task in the JoinSet says of its
  provider's handle (`TaskOutcome`), who may hold a handle at all, what
  `start_all` has achieved so far and what `stop_all` has still to do are added to
  form `RegistryInv`. The two action properties of `start_all` and `stop_all`
  follow from the last two.
* **Server** (`AppServer_proofs`). Every step of the server is a step or a stutter
  of the registry, so the server implements `Spec` and inherits `RegistryInv`;
  `ExitIsClean` is proved on top of it. `LockInv` adds that the queue of the mutex
  holds exactly those who asked and have not given the lock back, each once
  (`QueueInv`, which `ServerTypeOK` repeats for the runs); with three lemmas on what a reply, a request and a disconnect make
  of such a queue it gives `CallHeldUnderLock` and the types.
* **Stdio** (`StdioTransport_proofs`). `WriterInv` says what the writer can have in
  hand, `EndInv` what the end of the writer and of `serve_stdio` imply. From them:
  types, `DrainedOnExit`, and step by step the refinement of `HonestStream`.
* **Sublists** (`Sublists_proofs`). `Kept` is defined by recursion over the length
  of a sequence. The induction theorems of the library take an operator as a
  parameter; here induction is over sets instead (`SetOfAllNaturals`,
  `SetOfAllSequences`: a set that has the first and with each the next has all),
  from the well-foundedness of `<`. `RecurrenceHasSolution` and
  `RecurrenceDetermines` show that the recursion defines what it says,
  `KeptIsSublist` that there is an order-preserving map of the places of
  `Kept(s, U)` onto those of `s` whose elements are in `U` (`Places`); the rest says
  what appending, concatenating and cutting make of it.
* **WebSocket** (`WsTransport_proofs`). `WsInv` has, beside the types and the
  permits, for every connection: which phases of its read loop, forwarder and
  writer go together (`PhaseInv`); that behind a full queue there wait at most one
  item of the forwarder and the one notice of an overflow, never an answer
  (`BehindInv`); that every answer queued is on its way unless the writer failed,
  and only a notice stands for one that was not (`AnswerInv`); and that what is
  written, in hand and queued accounts, item by item, for the events as far as the
  forwarder has come (`ToldInv`, with the positions `pos` as witness). What is
  on its way is one sequence, `Stream`: a write or a receive moves its parts and
  leaves it as it is. Why a writer failed (`CauseInv`: its socket did, or its client
  had hung up) tells apart what `ClosedInOrder` excepts. `ClosedInOrder` is decided when an item is queued and comes
  true when the writer ends, so it needs `AnswerInv` for all the time between.
  `HonestEvents` follows from `ToldInv`: each write is a `Deliver` or an
  `Announce` of `HonestStream` or leaves it unchanged (`WsStepRefines`).
* **Replay** (`EventReplay_proofs`). `LogInv` (cursors are given out once, the
  newest row survives), `PageInv` (a page is dense behind the client's cursor) and
  `StreamInv`. `CursorHonest` holds for both wirings and both orders of catching
  up; `EveryEventAppended` is proved for `~RegisterFirst` (log and bus in either
  order) and `NoGap` for `StreamFirst`: TLC refutes both without. A
  `latest_cursor` of 0 may be a failed read, so what a client knows from an empty
  page alone is part of the invariant (`Covered`, `EmptyPage`).
* **Telegram** (`OneShot_proofs`). `CursorInv` (the cursor never passes an
  undispatched message) and `BatchInv` (an answer is the run of updates behind the
  confirmed ones) give `NothingLost`, `InOrderOnce` and `HostTold` of the poller.
  `OneShotInv` keeps them through a succession of processes and adds `SinkInv`,
  where each dispatched message is: printed, counted in a notice, unread, missed,
  or given to a sink nobody reads, that of a listener that is leaving included.
  What Telegram has forgotten cannot be unread, because a loop asks again only
  when its listener has read all there is, or reads no more; hence `NothingUnseen`.
* **Discord** (`DiscordCheck_proofs`). `LinkInv` says where a connection is with
  its session, `SessionInv` that the cached sequence number is the connection's
  and stands right behind what was dispatched (so it is never ahead, whatever
  aborts the task, and never behind), `ReportInv` what the host was told.
  From them `ResumeSkipsNothing`, `NeverTwice`, `HostTold`; with the contents of
  the error slot while a check polls it, `PassMeansNoRefusal`.
* **Handle and bus** (`EmbeddedHandle_proofs`). A step of the handle is at most one
  of the bus (`BusSteps`), so the bus is proved about once, under every caller.
  - *Whom publish calls.* Ids are handed out once: those of the list, of the
    handles and of the calls between their two locks differ (`IdsInv`), though
    the list need not be in their order. It is in the order of the pushes, `nth`
    (`SubscribersInv`). Of a publication under way `CallInv` says: what is still to
    be called was pushed later than what has been; both together are at most the
    callbacks wanted when the message passed and those pushed since, and at least
    those wanted then that still are. It is preserved by whatever other threads
    do, because what they push comes after all the call knows of (`CallStays`).
    When nothing is left to call it is `CallsMatchSubscriptions`.
  - *The deduplication.* `DedupExact` speaks of the verdicts alone and is not
    inductive: nothing in it ties the cache to them. `CacheInv` does, by a map from
    each key of the cache to the verdict that admitted it (`Admitted`). The queue
    is ranked by it, each entry has the time of that verdict, and an admission
    within the window that the cache has forgotten was followed by `MaxEntries`
    others. In the last clause lies the proof: the evicted key is the first of the
    queue, so the other keys of the full cache and the new one were admitted
    after it, and all are different (`PushedOut`, an injection). The ranking also
    shows that the queue has each key once (`RankedCount`), which the eviction
    loop of the code relies on.
  - *The poll queue* holds the newest pushes, numbered without a gap (`QueueInv`);
    that nobody is inside a call on a freed handle (`FreedInv`) is needed for what
    `pc_free` leaves. Together `OldestLost`.

Every invariant, action property and refinement that a passing run checks is also
a theorem. Only model-checked is what needs fairness (`RequestsAnswered`,
`ShutdownCompletes`, `FramesAccounted`, `SidecarExits`, `EventsArrive`,
`MessagesDispatched`, `SessionRegained`, `SilenceLeft`, `AnswersArrive`): TLAPS does
not reason about `ENABLED`.

## Not modelled

* Parsing, formatting, CORS, limits on bodies, configuration loading, argument
  parsing: pure functions or plain input and output.
* The outbound requests of both providers: one HTTP request per `send`, without a
  retry and without state. `AppServer` and `EmbeddedHandle` have the wait for it.
* The cache of guild names of the Discord provider: it only words a label.
* A power loss that rolls back committed rows (`synchronous=NORMAL`) and a
  negative `retry_after` are hazards noted without a model.
* Three parts of `pc`: `init` writes one file, `--watch` only prints, and the demo
  provider has neither task nor cursor. Of `pc check` on Telegram `OneShot` has the
  poll loop it starts and stops (`check` in `Ops`); its look at the error slot is
  the one `DiscordCheck` models for Discord.
* How long the forwarder and the writer that a read error leaves behind live on:
  nothing counts them. `WsTransport` has them, and `HonestEvents` holds of what
  they still write.
* The TypeScript core client and the OpenCode plugin: pending requests, timeouts,
  a session per chat and a map file, on one JavaScript thread. They are separate
  programs on the other end of the sidecar's pipe; the daemon came first.
* The Python bindings, the agent skill, the Pi plugin and the examples are thin
  callers.

## Plan

In order of what is most worth knowing next:

1. `PcClient` and `OpencodeRuntime`: pending requests against timeouts and process
   exit, session creation, echo suppression, the map file.
2. An end-to-end composition of poller, event log and client, from the platform's
   queue to a client's cursor.
3. Proofs: the refinements that compose, in particular that what a listener shows
   and what a client's cursor covers are projections of what the platforms queued.
