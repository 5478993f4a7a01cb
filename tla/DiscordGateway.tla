--------------------------- MODULE DiscordGateway ---------------------------
(***************************************************************************)
(* The inbound side of the Discord provider (crates/provider-discord/src/  *)
(* lib.rs): the gateway task with its cached session, IDENTIFY and RESUME, *)
(* heartbeats, back-off and the degradation signal, through stop and start,*)
(* panics of the sink and restarts of the process, against a gateway that  *)
(* keeps the events of a session and replays what a RESUME asks for.       *)
(***************************************************************************)
EXTENDS Integers

CONSTANTS
  Threshold,    \* TRANSIENT_ERROR_EVENT_THRESHOLD
  Patience,     \* beats without an ACK that are tolerated; 3 in the code
  Unwinds,      \* whether a panic unwinds its task or aborts the process
  MaxMessages,  \* bound: events posted at Discord
  Service,      \* those of them that are no messages
  MaxFaults     \* bound: fatal closes, panics, silences, restarts,
                \* and sessions that Discord gives up

ASSUME GatewayConstants ==
  /\ Threshold \in Nat \ {0}
  /\ Patience \in Nat
  /\ Unwinds \in BOOLEAN
  /\ MaxMessages \in Nat
  /\ MaxFaults \in Nat
  /\ Service \subseteq 1 .. MaxMessages

VARIABLES
  posted,      \* events posted so far, numbered in order
  base,        \* the last event posted before the session began
  valid,       \* the gateway would resume the session
  pos,         \* sequence number of the last frame read on this connection
  request,     \* what the client sent after connecting, until it is answered
  mute,        \* nothing more will come on this connection
  cached,      \* provider.session is Some
  saved,       \* its seq
  lastError,   \* provider.last_error is Some
  handle,      \* provider.task is Some
  shutdown,    \* the watch channel says stop
  gateway,     \* where gateway_task is; "none" before start and once reaped
  attempt,     \* failed attempts in a row, counted up to Threshold
  beats,       \* beats_since_ack
  healthy,     \* this connection has been acknowledged
  delivered,   \* history: messages given to on_message
  dropped,     \* history: messages whose on_message panicked
  told,        \* history: what on_error said since the last good connection
  faults

discordVars  == <<posted, base, valid>>
linkVars     == <<pos, request, mute>>
sessionVars  == <<cached, saved>>
taskVars     == <<handle, shutdown>>
beatVars     == <<beats, healthy>>
reportVars   == <<attempt, told, lastError>>
deliveryVars == <<delivered, dropped>>
gatewayVars  == <<discordVars, linkVars, sessionVars, taskVars, gateway, beatVars,
                  reportVars, deliveryVars, faults>>

Event == 1 .. MaxMessages

GatewayTypeOK ==
  /\ posted \in 0 .. MaxMessages
  /\ base \in 0 .. posted
  /\ valid \in BOOLEAN
  /\ pos \in 0 .. posted - base + 1
  /\ request \in {"none", "identify", "resume", "done"}
  /\ mute \in BOOLEAN
  /\ cached \in BOOLEAN
  /\ saved \in 0 .. MaxMessages + 1
  /\ lastError \in BOOLEAN
  /\ handle \in BOOLEAN
  /\ shutdown \in BOOLEAN
  /\ gateway \in {"none", "waiting", "connecting", "handshake", "live", "exited",
                  "panicked"}
  /\ attempt \in 0 .. Threshold
  /\ beats \in 0 .. Patience + 1
  /\ healthy \in BOOLEAN
  /\ delivered \subseteq 1 .. posted
  /\ dropped \subseteq 1 .. posted
  /\ told \in {"nothing", "degraded", "fatal"}
  /\ faults \in 0 .. MaxFaults

GatewayInit ==
  /\ posted = 0
  /\ base = 0
  /\ valid = FALSE
  /\ pos = 0
  /\ request = "none"
  /\ mute = FALSE
  /\ cached = FALSE
  /\ saved = 0
  /\ lastError = FALSE
  /\ handle = FALSE
  /\ shutdown = FALSE
  /\ gateway = "none"
  /\ attempt = 0
  /\ beats = 0
  /\ healthy = FALSE
  /\ delivered = {}
  /\ dropped = {}
  /\ told = "nothing"
  /\ faults = 0

Fault ==
  /\ faults < MaxFaults
  /\ faults' = faults + 1
-----------------------------------------------------------------------------
(* Discord.                                                                *)

Post ==
  /\ posted < MaxMessages
  /\ posted' = posted + 1
  /\ UNCHANGED <<base, valid, linkVars, sessionVars, taskVars, gateway, beatVars,
                 reportVars, deliveryVars, faults>>

\* Discord gives up the session: too long away, or for reasons of its own.
Expire ==
  /\ Fault
  /\ valid
  /\ valid' = FALSE
  /\ UNCHANGED <<posted, base, linkVars, sessionVars, taskVars, gateway, beatVars,
                 reportVars, deliveryVars>>

\* The connection is open, but its other end is gone.
GoesMute ==
  /\ Fault
  /\ gateway \in {"handshake", "live"}
  /\ ~mute
  /\ mute' = TRUE
  /\ UNCHANGED <<discordVars, pos, request, sessionVars, taskVars, gateway, beatVars,
                 reportVars, deliveryVars>>

\* An IDENTIFY begins a session with what is posted from now on.  HELLO comes
\* before every answer.
AcceptIdentify ==
  /\ gateway = "live"
  /\ ~mute
  /\ request = "identify"
  /\ request' = "done"
  /\ base' = posted
  /\ valid' = TRUE
  /\ pos' = 0
  /\ UNCHANGED <<posted, mute, sessionVars, taskVars, gateway, beatVars, reportVars,
                 deliveryVars, faults>>

\* A RESUME continues behind the sequence number it names.
AcceptResume ==
  /\ gateway = "live"
  /\ ~mute
  /\ request = "resume"
  /\ valid
  /\ request' = "done"
  /\ pos' = saved
  /\ UNCHANGED <<discordVars, mute, sessionVars, taskVars, gateway, beatVars,
                 reportVars, deliveryVars, faults>>
-----------------------------------------------------------------------------
(* gateway_task: connecting.                                               *)

\* The connection and what run_connection knew of it are gone.
LinkGone ==
  /\ pos' = 0
  /\ request' = "none"
  /\ mute' = FALSE
  /\ beats' = 0
  /\ healthy' = FALSE

NoticeShutdown ==
  /\ gateway \in {"waiting", "live"}
  /\ shutdown
  /\ gateway' = "exited"
  /\ LinkGone
  /\ UNCHANGED <<discordVars, sessionVars, taskVars, reportVars, deliveryVars, faults>>

\* The back-off sleep is over, or the task has just been spawned: the flag is
\* looked at and the connection begun.
Connect ==
  /\ gateway = "waiting"
  /\ ~shutdown
  /\ gateway' = "connecting"
  /\ UNCHANGED <<discordVars, linkVars, sessionVars, taskVars, beatVars, reportVars,
                 deliveryVars, faults>>

\* The handshake goes out before HELLO is read: RESUME if there is a session.
SendHandshake ==
  /\ gateway = "connecting"
  /\ gateway' = "handshake"
  /\ request' = IF cached THEN "resume" ELSE "identify"
  /\ mute' = FALSE
  /\ UNCHANGED <<discordVars, pos, sessionVars, taskVars, beatVars, reportVars,
                 deliveryVars, faults>>

\* read_hello finds HELLO.  It waits for it without a timeout.
Hello ==
  /\ gateway = "handshake"
  /\ ~mute
  /\ gateway' = "live"
  /\ beats' = 0
  /\ healthy' = FALSE
  /\ UNCHANGED <<discordVars, linkVars, sessionVars, taskVars, reportVars,
                 deliveryVars, faults>>

\* RunOutcome::Reconnect, and what gateway_task makes of it.
ReconnectSaying(good, say) ==
  /\ gateway' = "waiting"
  /\ attempt' = IF good THEN 0 ELSE IF attempt < Threshold THEN attempt + 1 ELSE attempt
  /\ told' = IF good THEN "nothing" ELSE IF say THEN "degraded" ELSE told
  /\ LinkGone
  /\ UNCHANGED <<discordVars, taskVars, lastError, deliveryVars, faults>>

\* Mutant: the signal comes with the attempt after the threshold.
ReconnectLate(good) == ReconnectSaying(good, attempt = Threshold)

\* The host hears of it once, when the count reaches the threshold.
Reconnect(good) == ReconnectSaying(good, attempt + 1 = Threshold)

\* connect_async, the handshake or read_hello fails; every close before HELLO
\* counts as such a failure.
ConnectFails ==
  /\ gateway \in {"connecting", "handshake"}
  /\ Reconnect(FALSE)
  /\ UNCHANGED sessionVars

-----------------------------------------------------------------------------
(* run_connection: the select loop.  Shutdown comes first in it.           *)

Selecting == gateway = "live" /\ ~shutdown

BeatWithin(limit) ==
  /\ Selecting
  /\ \/ /\ beats > limit
        /\ Reconnect(healthy)
        /\ UNCHANGED sessionVars
     \/ /\ beats <= limit
        /\ beats' = beats + 1
        /\ UNCHANGED <<discordVars, linkVars, sessionVars, taskVars, gateway, healthy,
                       reportVars, deliveryVars, faults>>

\* Mutants: one beat too many; a beat that goes out counts as a sign of life.
BeatLong == BeatWithin(Patience + 1)
BeatEndless ==
  /\ Selecting
  /\ beats' = 1
  /\ UNCHANGED <<discordVars, linkVars, sessionVars, taskVars, gateway, healthy,
                 reportVars, deliveryVars, faults>>

Beat == BeatWithin(Patience)

Reading == Selecting /\ ~mute

ReadAck ==
  /\ Reading
  /\ beats > 0
  /\ beats' = 0
  /\ healthy' = TRUE
  /\ UNCHANGED <<discordVars, linkVars, sessionVars, taskVars, gateway, reportVars,
                 deliveryVars, faults>>

ReadReady ==
  /\ Reading
  /\ request = "done"
  /\ pos = 0
  /\ pos' = 1
  /\ cached' = TRUE
  /\ saved' = 1
  /\ healthy' = TRUE
  /\ UNCHANGED <<discordVars, request, mute, taskVars, gateway, beats, reportVars,
                 deliveryVars, faults>>

\* The event behind sequence number pos; READY is the frame with number 1.
Upcoming == IF pos = 0 THEN base + 1 ELSE base + pos

NextFrame ==
  /\ Reading
  /\ request = "done"
  /\ pos > 0
  /\ Upcoming <= posted

\* The sequence number is recorded before the message is dispatched, without a
\* wait in between.
DispatchAs(seq) ==
  /\ NextFrame
  /\ pos' = pos + 1
  /\ saved' = IF cached THEN seq ELSE saved
  /\ delivered' = IF Upcoming \in Service THEN delivered ELSE delivered \cup {Upcoming}
  /\ UNCHANGED <<discordVars, request, mute, cached, taskVars, gateway, beatVars,
                 reportVars, dropped, faults>>

\* Mutants: the session remembers the frame after this one; it remembers only
\* what its connection began with.
DispatchAhead == DispatchAs(pos + 2)
DispatchBehind == DispatchAs(saved)

Dispatch == DispatchAs(pos + 1)

DispatchPanics ==
  /\ Unwinds
  /\ Fault
  /\ Upcoming \notin Service
  /\ NextFrame
  /\ saved' = IF cached THEN pos + 1 ELSE saved
  /\ dropped' = dropped \cup {Upcoming}
  /\ gateway' = "panicked"
  /\ LinkGone
  /\ UNCHANGED <<discordVars, cached, taskVars, reportVars, delivered>>

\* OP_RECONNECT.
ReadReconnect ==
  /\ Reading
  /\ Reconnect(TRUE)
  /\ UNCHANGED sessionVars

\* OP_INVALID_SESSION: an IDENTIFY or RESUME is refused, or the session is over.
Invalid(resumable, forget) ==
  /\ Reading
  /\ resumable \/ ~valid \/ request = "identify"
  /\ cached' = (cached /\ ~forget)
  /\ saved' = IF forget THEN 0 ELSE saved
  /\ Reconnect(TRUE)

\* Mutant: the session survives its end.
ReadInvalidKeeps(resumable) == Invalid(resumable, FALSE)

ReadInvalid(resumable) == Invalid(resumable, ~resumable)

\* A close frame whose code classify_close finds fatal.
ReadFatal ==
  /\ Fault
  /\ Reading
  /\ gateway' = "exited"
  /\ lastError' = TRUE
  /\ told' = "fatal"
  /\ LinkGone
  /\ UNCHANGED <<discordVars, sessionVars, taskVars, attempt, deliveryVars>>

\* The stream ends, with another close code or without one, or a send fails.
ConnectionLost ==
  /\ Selecting
  /\ Reconnect(healthy)
  /\ UNCHANGED sessionVars
-----------------------------------------------------------------------------
(* start, stop and the process.                                            *)

Start ==
  /\ ~handle
  /\ gateway = "none"
  /\ handle' = TRUE
  /\ shutdown' = FALSE
  /\ gateway' = "waiting"
  /\ attempt' = 0
  /\ told' = "nothing"
  /\ UNCHANGED <<discordVars, linkVars, sessionVars, beatVars, lastError, deliveryVars,
                 faults>>

StopBegin ==
  /\ handle
  /\ handle' = FALSE
  /\ shutdown' = TRUE
  /\ UNCHANGED <<discordVars, linkVars, sessionVars, gateway, beatVars, reportVars,
                 deliveryVars, faults>>

\* At the end of the grace window the task is aborted wherever it waits, and
\* reaped before stop returns.  The session stays with the provider.
StopEnd ==
  /\ ~handle
  /\ gateway # "none"
  /\ gateway' = "none"
  /\ LinkGone
  /\ UNCHANGED <<discordVars, sessionVars, taskVars, reportVars, deliveryVars, faults>>

\* The process dies and a new one begins: the session was only in memory.
Restart ==
  /\ Fault
  /\ cached' = FALSE
  /\ saved' = 0
  /\ lastError' = FALSE
  /\ handle' = FALSE
  /\ shutdown' = FALSE
  /\ gateway' = "none"
  /\ attempt' = 0
  /\ told' = "nothing"
  /\ LinkGone
  /\ UNCHANGED <<discordVars, deliveryVars>>
-----------------------------------------------------------------------------
DiscordStep ==
  \/ Post
  \/ Expire
  \/ GoesMute
  \/ AcceptIdentify
  \/ AcceptResume

TaskStep ==
  \/ NoticeShutdown
  \/ Connect
  \/ SendHandshake
  \/ Hello
  \/ ConnectFails
  \/ Beat
  \/ ReadAck
  \/ ReadReady
  \/ Dispatch
  \/ DispatchPanics
  \/ ReadReconnect
  \/ \E resumable \in BOOLEAN : ReadInvalid(resumable)
  \/ ReadFatal
  \/ ConnectionLost

GatewayNext ==
  \/ DiscordStep
  \/ TaskStep
  \/ Start
  \/ StopBegin
  \/ StopEnd
  \/ Restart

GatewaySpec == GatewayInit /\ [][GatewayNext]_gatewayVars

\* A client that resumes a lost session, or is in one, is told.
TellInvalid ==
  /\ request \in {"resume", "done"}
  /\ ~valid
  /\ ReadInvalid(FALSE)

(***************************************************************************)
(* The task's timers fire and stop's window ends.  Connections may fail and *)
(* be lost as often as they like, but a step of the protocol that can be    *)
(* taken again and again is (SF).  Nothing makes HELLO come where the other *)
(* end has gone mute.                                                       *)
(***************************************************************************)
GatewayFairness ==
  /\ WF_gatewayVars(NoticeShutdown)
  /\ WF_gatewayVars(Connect)
  /\ WF_gatewayVars(Beat)
  /\ WF_gatewayVars(StopEnd)
  /\ SF_gatewayVars(SendHandshake)
  /\ SF_gatewayVars(Hello)
  /\ SF_gatewayVars(AcceptIdentify)
  /\ SF_gatewayVars(AcceptResume)
  /\ SF_gatewayVars(TellInvalid)
  /\ SF_gatewayVars(ReadReady)
  /\ SF_gatewayVars(Dispatch)

FairGatewaySpec == GatewaySpec /\ GatewayFairness
-----------------------------------------------------------------------------
(***************************************************************************)
(* What the gateway task promises.                                         *)
(***************************************************************************)

Messages(S) == S \ Service

\* A RESUME never skips a message: what lies before the cached sequence number
\* was given to the sink, or panicked in it, whatever aborts, lost connections,
\* stops and starts came between.
ResumeSkipsNothing ==
  cached => Messages(base + 1 .. base + saved - 1) \subseteq delivered \cup dropped

\* What Discord sends next lies behind everything already dispatched: replays
\* after a RESUME, new sessions and new processes bring no message twice and
\* none out of order.
NeverTwice ==
  gateway = "live" /\ request = "done" => \A m \in delivered \cup dropped : m < Upcoming

\* The host is not left with silence: a gateway that has failed Threshold times
\* in a row, or is over, has been reported since its last good connection.
HostTold ==
  handle =>
    /\ attempt >= Threshold => told # "nothing"
    /\ gateway = "exited" => told = "fatal"

Over == ~handle \/ gateway \in {"exited", "panicked"}
Hung == gateway = "handshake" /\ mute

\* A provider that is not stopped gets into a session that Discord honours, and
\* back into one after every loss: refused resumes are followed by IDENTIFY, lost
\* connections by new ones.  (One that waits for a HELLO that never comes is not.)
SessionRegained ==
  handle ~> (cached /\ valid /\ request = "done") \/ Over \/ Hung

\* A message of a session that lives on is dispatched in the end, if need be
\* after a RESUME.
MessagesDispatched ==
  \A m \in Messages(Event) :
    cached /\ m \in base + 1 .. posted ~>
      m \in delivered \cup dropped \/ ~valid \/ m <= base \/ Over \/ Hung

\* A connection whose other end has gone silent is left ("reconnect on >3 missed
\* beats").
SilenceLeft == gateway = "live" /\ mute ~> ~mute
=============================================================================
