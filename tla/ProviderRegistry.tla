-------------------------- MODULE ProviderRegistry --------------------------
(***************************************************************************)
(* The runtime registry of providers (crates/provider-core/src/registry.rs)*)
(* together with the part of a provider it drives: the handle a provider   *)
(* keeps on its background task and that task itself (start and stop of    *)
(* the Telegram and Discord providers).                                    *)
(*                                                                         *)
(* Every method takes `&mut self`, so one call runs at a time: `call` names*)
(* it.  A call may wait, though: start_all joins one tokio task per        *)
(* provider, stop_all gives each provider a grace window.  Between those   *)
(* steps provider tasks run, and the future of start_all can be dropped.   *)
(***************************************************************************)
CONSTANTS
  Provider,  \* the ids of the providers the host has compiled in
  Unwinds    \* whether a panic unwinds its task (embedders and development
             \* builds) or aborts the process (the release profile)

ASSUME UnwindsType == Unwinds \in BOOLEAN

VARIABLES
  configured,   \* history: every provider ever registered
  registered,   \* ids of the boxes in registry.providers
  started,      \* registry.started
  handle,       \* providers whose own `task` field is Some
  loop,         \* state of each provider's spawned background task
  joinset,      \* state of each provider's start task in start_all's JoinSet
  call,         \* the registry method in progress
  failed,       \* start_all's first_error is Some
  toStop,       \* ids stop_all has still to stop
  grace,        \* the provider, if any, whose stop() waits for its loop
  lost          \* history: providers dropped with their start task

vars == <<configured, registered, started, handle, loop, joinset, call,
          failed, toStop, grace, lost>>

LoopState    == {"none", "running", "exited"}
JoinSetState == {"none", "jitter", "ok", "err", "panic"}
Call         == {"idle", "start_all", "stop_all"}

TypeOK ==
  /\ configured \subseteq Provider
  /\ registered \subseteq Provider
  /\ started \subseteq Provider
  /\ handle \subseteq Provider
  /\ loop \in [Provider -> LoopState]
  /\ joinset \in [Provider -> JoinSetState]
  /\ call \in Call
  /\ failed \in BOOLEAN
  /\ toStop \subseteq Provider
  /\ grace \subseteq Provider
  /\ lost \subseteq Provider

Init ==
  /\ configured = {}
  /\ registered = {}
  /\ started = {}
  /\ handle = {}
  /\ loop = [p \in Provider |-> "none"]
  /\ joinset = [p \in Provider |-> "none"]
  /\ call = "idle"
  /\ failed = FALSE
  /\ toStop = {}
  /\ grace = {}
  /\ lost = {}

InJoinSet == {p \in Provider : joinset[p] # "none"}

-----------------------------------------------------------------------------
(* The providers' own start and stop.                                      *)

\* start() refuses a provider that still holds a task; otherwise it spawns
\* the background task and keeps the handle.  It has no await point.
SpawnLoops(S) ==
  /\ S \cap handle = {}
  /\ handle' = handle \cup S
  /\ loop' = [p \in Provider |-> IF p \in S THEN "running" ELSE loop[p]]

\* A background task ends by itself on a fatal error: neither the handle nor
\* the registry hears of it.
LoopDies(p) ==
  /\ loop[p] = "running"
  /\ loop' = [loop EXCEPT ![p] = "exited"]
  /\ UNCHANGED <<configured, registered, started, handle, joinset, call,
                 failed, toStop, grace, lost>>

-----------------------------------------------------------------------------
(* Registry calls that finish without waiting.                             *)

\* A duplicate id is refused and changes nothing.  The host registers each
\* provider it builds once, before it serves.
Register(p) ==
  /\ call = "idle"
  /\ p \notin configured
  /\ p \notin registered
  /\ configured' = configured \cup {p}
  /\ registered' = registered \cup {p}
  /\ UNCHANGED <<started, handle, loop, joinset, call, failed, toStop,
                 grace, lost>>

\* start(id), or a list of them with no wait in between, when S is the set
\* of ids that were registered, not started, and whose start() succeeded.  An
\* id that is started or unknown, or whose start() fails, changes nothing.
Start(S) ==
  /\ call = "idle"
  /\ S # {}
  /\ S \subseteq registered \ started
  /\ SpawnLoops(S)
  /\ started' = started \cup S
  /\ UNCHANGED <<configured, registered, joinset, call, failed, toStop,
                 grace, lost>>

-----------------------------------------------------------------------------
(* start_all                                                               *)

\* Providers that are not started move from the registry into the JoinSet;
\* with none to start the call returns at once.
StartAllBegin ==
  /\ call = "idle"
  /\ registered \ started # {}
  /\ call' = "start_all"
  /\ failed' = FALSE
  /\ registered' = registered \cap started
  /\ joinset' = [p \in Provider |->
                   IF p \in registered \ started THEN "jitter" ELSE joinset[p]]
  /\ UNCHANGED <<configured, started, handle, loop, toStop, grace, lost>>

\* The task's jitter sleep is over and provider.start() succeeds ...
StartTaskOk(p) ==
  /\ joinset[p] = "jitter"
  /\ SpawnLoops({p})
  /\ joinset' = [joinset EXCEPT ![p] = "ok"]
  /\ UNCHANGED <<configured, registered, started, call, failed, toStop,
                 grace, lost>>

\* ... or fails, which it always does for a provider that holds a task, or
\* panics, which unwinds its task only and takes the boxed provider with it.
StartTaskFails(p) ==
  /\ joinset[p] = "jitter"
  /\ \E outcome \in IF Unwinds THEN {"err", "panic"} ELSE {"err"} :
       joinset' = [joinset EXCEPT ![p] = outcome]
  /\ UNCHANGED <<configured, registered, started, handle, loop, call, failed,
                 toStop, grace, lost>>

\* Mutants: a provider whose start failed is not put back; the last result
\* decides what start_all returns.
JoinForgets(p) ==
  /\ call = "start_all"
  /\ joinset[p] \in {"ok", "err", "panic"}
  /\ joinset' = [joinset EXCEPT ![p] = "none"]
  /\ started' = IF joinset[p] = "ok" THEN started \cup {p} ELSE started
  /\ registered' = IF joinset[p] = "ok" THEN registered \cup {p} ELSE registered
  /\ lost' = IF joinset[p] = "panic" THEN lost \cup {p} ELSE lost
  /\ failed' = (failed \/ joinset[p] # "ok")
  /\ UNCHANGED <<configured, handle, loop, call, toStop, grace>>

JoinLastResult(p) ==
  /\ call = "start_all"
  /\ joinset[p] \in {"ok", "err", "panic"}
  /\ joinset' = [joinset EXCEPT ![p] = "none"]
  /\ started' = IF joinset[p] = "ok" THEN started \cup {p} ELSE started
  /\ registered' = IF joinset[p] = "panic" THEN registered
                                           ELSE registered \cup {p}
  /\ lost' = IF joinset[p] = "panic" THEN lost \cup {p} ELSE lost
  /\ failed' = (joinset[p] # "ok")
  /\ UNCHANGED <<configured, handle, loop, call, toStop, grace>>

\* join_next: a provider that comes back is registered again, and started if
\* its start succeeded; a panicked task has no provider to give back.
Join(p) ==
  /\ call = "start_all"
  /\ joinset[p] \in {"ok", "err", "panic"}
  /\ joinset' = [joinset EXCEPT ![p] = "none"]
  /\ started' = IF joinset[p] = "ok" THEN started \cup {p} ELSE started
  /\ registered' = IF joinset[p] = "panic" THEN registered
                                           ELSE registered \cup {p}
  /\ lost' = IF joinset[p] = "panic" THEN lost \cup {p} ELSE lost
  /\ failed' = (failed \/ joinset[p] # "ok")
  /\ UNCHANGED <<configured, handle, loop, call, toStop, grace>>

StartAllEnd ==
  /\ call = "start_all"
  /\ InJoinSet = {}
  /\ call' = "idle"
  /\ UNCHANGED <<configured, registered, started, handle, loop, joinset,
                 failed, toStop, grace, lost>>

\* The future of start_all is dropped while it waits: the JoinSet aborts the
\* tasks that still sleep and drops every provider it holds.  Dropping the
\* handle of a spawned loop detaches the loop, it does not stop it.
StartAllDropped ==
  /\ call = "start_all"
  /\ InJoinSet # {}
  /\ call' = "idle"
  /\ joinset' = [p \in Provider |-> "none"]
  /\ lost' = lost \cup InJoinSet
  /\ handle' = handle \ InJoinSet
  /\ UNCHANGED <<configured, registered, started, loop, failed, toStop, grace>>

-----------------------------------------------------------------------------
(* stop and stop_all                                                       *)

StopAllBegin ==
  /\ call = "idle"
  /\ call' = "stop_all"
  /\ toStop' = started
  /\ UNCHANGED <<configured, registered, started, handle, loop, joinset,
                 failed, grace, lost>>

\* Mutant: stop() leaves the task handle where it is.
StopBeginKeepsHandle(p) ==
  /\ call = "stop_all"
  /\ grace = {}
  /\ p \in toStop
  /\ toStop' = toStop \ {p}
  /\ started' = started \ {p}
  /\ grace' = {p}
  /\ UNCHANGED <<configured, registered, handle, loop, joinset, call, failed,
                 lost>>

\* stop(id) first forgets the id, then stop() signals shutdown and takes the
\* task handle, and only then waits.
StopBegin(p) ==
  /\ call = "stop_all"
  /\ grace = {}
  /\ p \in toStop
  /\ toStop' = toStop \ {p}
  /\ started' = started \ {p}
  /\ handle' = handle \ {p}
  /\ grace' = {p}
  /\ UNCHANGED <<configured, registered, loop, joinset, call, failed, lost>>

\* Mutants: stop() gives up on a loop that outlives the grace window, or waits
\* for it without an end.
StopEndDetaches ==
  /\ grace # {}
  /\ grace' = {}
  /\ UNCHANGED <<configured, registered, started, handle, loop, joinset, call,
                 failed, toStop, lost>>

StopEndWaits ==
  /\ grace # {}
  /\ \A p \in grace : loop[p] = "exited"
  /\ grace' = {}
  /\ UNCHANGED <<configured, registered, started, handle, loop, joinset, call,
                 failed, toStop, lost>>

\* stop() returns once the loop has ended by itself or has been aborted at
\* the end of the grace window and reaped.
StopEnd ==
  /\ grace # {}
  /\ loop' = [p \in Provider |-> IF p \in grace THEN "exited" ELSE loop[p]]
  /\ grace' = {}
  /\ UNCHANGED <<configured, registered, started, handle, joinset, call,
                 failed, toStop, lost>>

\* Mutant: stop_all returns after the first provider.
StopAllEndEarly ==
  /\ call = "stop_all"
  /\ grace = {}
  /\ call' = "idle"
  /\ UNCHANGED <<configured, registered, started, handle, loop, joinset,
                 failed, toStop, grace, lost>>

StopAllEnd ==
  /\ call = "stop_all"
  /\ grace = {}
  /\ toStop = {}
  /\ call' = "idle"
  /\ UNCHANGED <<configured, registered, started, handle, loop, joinset,
                 failed, toStop, grace, lost>>

-----------------------------------------------------------------------------
StartTask(p) == StartTaskOk(p) \/ StartTaskFails(p)

Next ==
  \/ \E p \in Provider :
       \/ Register(p)
       \/ StartTask(p)
       \/ Join(p)
       \/ StopBegin(p)
       \/ LoopDies(p)
  \/ \E S \in SUBSET Provider : Start(S)
  \/ StartAllBegin
  \/ StartAllEnd
  \/ StartAllDropped
  \/ StopAllBegin
  \/ StopEnd
  \/ StopAllEnd

Spec == Init /\ [][Next]_vars
-----------------------------------------------------------------------------
(***************************************************************************)
(* What the registry promises.                                             *)
(***************************************************************************)

\* The registry and the providers agree on what is running: a registered
\* provider is in `started` exactly when it holds a task.  So start() never
\* meets its "already started" refusal (a task waiting in the JoinSet holds
\* no handle), and stop and send never fail on an id they know as started.
Bookkeeping ==
  /\ started \subseteq registered
  /\ registered \cap handle = started
  /\ \A p \in Provider : joinset[p] = "jitter" => p \notin handle

\* A provider the host registered is in the registry, in the JoinSet of the
\* start_all in progress, or was lost with a start task that panicked or was
\* dropped: a failed start alone never loses it, and it is never in two
\* places at once.
ProvidersAccounted ==
  /\ configured = registered \cup InJoinSet \cup lost
  /\ registered \cap InJoinSet = {}
  /\ registered \cap lost = {}
  /\ InJoinSet \cap lost = {}
  /\ call # "start_all" => InJoinSet = {}

\* A loop that runs has an owner who can stop it: it is started, about to be
\* joined, or being stopped.  Only the loops of lost providers are on their own.
NoUnownedLoop ==
  \A p \in Provider :
    loop[p] = "running" =>
      p \in started \cup grace \cup lost \/ joinset[p] = "ok"

\* "Ok" from start_all means what its caller takes it to mean: every provider
\* the host still has is started, whatever order the tasks ended in.
StartAllComplete ==
  [][(StartAllEnd /\ ~failed) => configured \ lost \subseteq started']_vars

\* When stop_all returns nothing is started and no loop runs but those of
\* lost providers, although loops run and die all through the grace windows.
StopAllComplete ==
  [][StopAllEnd =>
       /\ started' = {}
       /\ \A p \in Provider \ lost : loop'[p] # "running"]_vars
=============================================================================
