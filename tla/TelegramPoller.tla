--------------------------- MODULE TelegramPoller ---------------------------
(***************************************************************************)
(* The inbound side of the Telegram provider (crates/provider-telegram/    *)
(* src/lib.rs): the getUpdates poll loop with its offset cursor, through   *)
(* stop and start, aborted polls, panics of the event sink and restarts of *)
(* the process, against Telegram's queue of unconfirmed updates.           *)
(***************************************************************************)
EXTENDS Integers

CONSTANTS
  Threshold,   \* TRANSIENT_ERROR_EVENT_THRESHOLD
  Unwinds,     \* whether a panic unwinds its task or aborts the process
  MaxUpdates,  \* bound: updates that arrive at Telegram
  Service,     \* those of them that carry no message
  MaxBatch,    \* bound: updates of one answer
  MaxFaults    \* bound: stops, fatal answers, panics and restarts

ASSUME PollerConstants ==
  /\ Threshold \in Nat \ {0}
  /\ Unwinds \in BOOLEAN
  /\ MaxUpdates \in Nat
  /\ MaxBatch \in Nat \ {0}
  /\ MaxFaults \in Nat
  /\ Service \subseteq 1 .. MaxUpdates

VARIABLES
  arrived,     \* the last update_id at Telegram; ids are given in order
  confirmed,   \* Telegram has forgotten the updates up to this one
  offset,      \* provider.offset, the loop's own copy being equal
  loop,        \* where poll_loop is; "none" before start and once reaped
  batch,       \* the updates of an answer, on their way to the loop
  errors,      \* consecutive_errors, counted no further than Threshold + 1
  handle,      \* provider.task is Some
  shutdown,    \* the watch channel says stop
  dispatched,  \* history: updates given to on_message since the process began
  delivered,   \* history: updates ever given to on_message
  dropped,     \* history: updates whose on_message panicked
  told,        \* history: what on_error said since the last good answer
  faults

serverVars == <<arrived, confirmed>>
taskVars   == <<handle, shutdown>>
deliveryVars == <<dispatched, delivered, dropped>>
pollerVars == <<serverVars, offset, loop, batch, errors, taskVars, deliveryVars,
                told, faults>>

Update == 1 .. MaxUpdates
Loop   == {"none", "idle", "requesting", "answered", "exited", "panicked"}

PollerTypeOK ==
  /\ arrived \in 0 .. MaxUpdates
  /\ confirmed \in 0 .. arrived
  /\ offset \in 0 .. arrived + 1
  /\ loop \in Loop
  /\ batch \subseteq 1 .. arrived
  /\ errors \in 0 .. Threshold + 1
  /\ handle \in BOOLEAN
  /\ shutdown \in BOOLEAN
  /\ dispatched \subseteq delivered
  /\ delivered \subseteq 1 .. arrived
  /\ dropped \subseteq 1 .. arrived
  /\ told \in {"nothing", "degraded", "fatal"}
  /\ faults \in 0 .. MaxFaults

PollerInit ==
  /\ arrived = 0
  /\ confirmed = 0
  /\ offset = 0
  /\ loop = "none"
  /\ batch = {}
  /\ errors = 0
  /\ handle = FALSE
  /\ shutdown = FALSE
  /\ dispatched = {}
  /\ delivered = {}
  /\ dropped = {}
  /\ told = "nothing"
  /\ faults = 0

Messages(S) == S \ Service
-----------------------------------------------------------------------------
(* Telegram.                                                               *)

UpdateArrives ==
  /\ arrived < MaxUpdates
  /\ arrived' = arrived + 1
  /\ UNCHANGED <<confirmed, offset, loop, batch, errors, taskVars, deliveryVars,
                 told, faults>>

\* A getUpdates confirms every update before its offset ...
Confirm == IF offset > confirmed THEN offset - 1 ELSE confirmed

\* ... and is answered with the next ones, or with none at the end of a long
\* poll in which none came.
Serve(last) ==
  /\ loop = "requesting"
  /\ loop' = "answered"
  /\ confirmed' = Confirm
  /\ last \in Confirm .. Confirm + MaxBatch
  /\ last = Confirm => arrived = Confirm
  /\ batch' = Confirm + 1 .. last
  /\ UNCHANGED <<arrived, errors, taskVars, deliveryVars, told, faults>>

\* Mutant: the cursor moves when the answer arrives, not when it is dispatched.
AnswerAdvances ==
  \E last \in 0 .. arrived :
    /\ Serve(last)
    /\ offset' = IF last = Confirm THEN offset ELSE last + 1

Answer ==
  /\ \E last \in 0 .. arrived : Serve(last)
  /\ UNCHANGED offset

-----------------------------------------------------------------------------
(* poll_loop.                                                              *)

\* The flag is looked at between rounds only, after the sleep.
NoticeShutdown ==
  /\ loop = "idle"
  /\ shutdown
  /\ loop' = "exited"
  /\ UNCHANGED <<serverVars, offset, batch, errors, taskVars, deliveryVars, told,
                 faults>>

Request ==
  /\ loop = "idle"
  /\ ~shutdown
  /\ loop' = "requesting"
  /\ UNCHANGED <<serverVars, offset, batch, errors, taskVars, deliveryVars, told,
                 faults>>

\* The messages of the batch up to and without `end` reach the sink.
Deliver(end) ==
  LET given == {u \in Messages(batch) : u < end}
  IN  /\ dispatched' = dispatched \cup given
      /\ delivered' = delivered \cup given

\* The batch is dispatched without a wait: each message is a step of its own
\* only to a panic or a crash.
DispatchTo(cursor) ==
  /\ loop = "answered"
  /\ loop' = "idle"
  /\ batch' = {}
  /\ errors' = 0
  /\ told' = "nothing"
  /\ offset' = cursor
  /\ Deliver(arrived + 1)
  /\ UNCHANGED <<serverVars, taskVars, dropped, faults>>

Past(S) == IF S = {} THEN offset ELSE 1 + CHOOSE u \in S : \A v \in S : v <= u

\* Mutants: one update too far; only messages move the cursor.
DispatchSkips  == DispatchTo(IF batch = {} THEN offset ELSE Past(batch) + 1)
DispatchWedges == DispatchTo(Past(Messages(batch)))

\* Updates without a message move the cursor, too.
Dispatch == DispatchTo(Past(batch))

Fault ==
  /\ faults < MaxFaults
  /\ faults' = faults + 1

\* on_message panics: the cursor is already past the message it was given.
DispatchPanics ==
  /\ Unwinds
  /\ Fault
  /\ loop = "answered"
  /\ \E u \in Messages(batch) :
       /\ offset' = u + 1
       /\ Deliver(u)
       /\ dropped' = dropped \cup {u}
  /\ loop' = "panicked"
  /\ batch' = {}
  /\ UNCHANGED <<serverVars, errors, taskVars, told>>

\* A transport error, a 429, a server error or an unreadable answer.
FailedRound(say) ==
  /\ loop \in {"requesting", "answered"}
  /\ loop' = "idle"
  /\ batch' = {}
  /\ errors' = IF errors > Threshold THEN errors ELSE errors + 1
  /\ told' = IF say THEN "degraded" ELSE told
  /\ UNCHANGED <<serverVars, offset, taskVars, deliveryVars, faults>>

\* Mutant: the signal comes with the error after the threshold.
RoundFailsLate == FailedRound(errors = Threshold)

\* The host hears of it once, when the count reaches the threshold.
RoundFails == FailedRound(errors + 1 = Threshold)

\* 401 or 409: on_error, and the loop is over.
RoundFatal ==
  /\ Fault
  /\ loop = "requesting"
  /\ loop' = "exited"
  /\ told' = "fatal"
  /\ UNCHANGED <<serverVars, offset, batch, errors, taskVars, deliveryVars>>

-----------------------------------------------------------------------------
(* start, stop and the process.                                            *)

Spawn(cursor) ==
  /\ ~handle
  /\ loop = "none"
  /\ handle' = TRUE
  /\ shutdown' = FALSE
  /\ loop' = "idle"
  /\ errors' = 0
  /\ told' = "nothing"
  /\ offset' = cursor
  /\ UNCHANGED <<serverVars, batch, deliveryVars, faults>>

\* Mutant: every start begins from nothing.
StartForgets == Spawn(0)

\* The cursor survives stop and start, the error count does not.
Start == Spawn(offset)

Halt ==
  /\ handle
  /\ handle' = FALSE
  /\ shutdown' = TRUE
  /\ UNCHANGED <<serverVars, offset, loop, batch, errors, deliveryVars, told>>

StopBegin == Fault /\ Halt

\* At the end of the grace window the loop is aborted wherever it waits, and
\* reaped before stop returns.
StopEnd ==
  /\ ~handle
  /\ loop # "none"
  /\ loop' = "none"
  /\ batch' = {}
  /\ UNCHANGED <<serverVars, offset, errors, taskVars, deliveryVars, told, faults>>

\* The process is over, in the middle of a batch perhaps, and what it knew with it.
Renew ==
  /\ \E end \in 0 .. arrived + 1 :
       delivered' = delivered \cup {u \in Messages(batch) : u < end}
  /\ dispatched' = {}
  /\ offset' = 0
  /\ loop' = "none"
  /\ batch' = {}
  /\ errors' = 0
  /\ handle' = FALSE
  /\ shutdown' = FALSE
  /\ told' = "nothing"
  /\ UNCHANGED <<serverVars, dropped>>

Restart == Fault /\ Renew
-----------------------------------------------------------------------------
PollerNext ==
  \/ UpdateArrives
  \/ Answer
  \/ NoticeShutdown
  \/ Request
  \/ Dispatch
  \/ DispatchPanics
  \/ RoundFails
  \/ RoundFatal
  \/ Start
  \/ StopBegin
  \/ StopEnd
  \/ Restart

PollerSpec == PollerInit /\ [][PollerNext]_pollerVars

(***************************************************************************)
(* The loop's own steps are taken when they can be, and stop's window ends.*)
(* Rounds may fail as often as they like, but not forever: a round that can*)
(* succeed again and again does (SF).                                      *)
(***************************************************************************)
FairPollerSpec ==
  /\ PollerSpec
  /\ WF_pollerVars(NoticeShutdown)
  /\ WF_pollerVars(Request)
  /\ WF_pollerVars(StopEnd)
  /\ SF_pollerVars(Answer)
  /\ SF_pollerVars(Dispatch)
-----------------------------------------------------------------------------
(***************************************************************************)
(* What the poller promises.                                               *)
(***************************************************************************)

\* Telegram forgets a message only once on_message was called with it: a stop
\* that aborts a poll, an answer that never arrives and a process that dies in
\* the middle of a batch all lead to redelivery.  What a sink panicked on is
\* the one exception.
NothingLost == Messages(1 .. confirmed) \subseteq delivered \cup dropped

\* Within one process a message is dispatched once and in order, whatever stops
\* and starts lie in between ("the update offset cursor persists in-process
\* across restarts").
InOrderOnce == \A u \in dispatched, v \in batch : u < v

\* The host is not left with silence: a connection that has failed Threshold
\* times in a row, or is over, has been reported since it last worked, unless a
\* panic ended it.
HostTold ==
  handle =>
    /\ errors >= Threshold => told # "nothing"
    /\ loop = "exited" => told = "fatal"

\* A message that arrives at Telegram is dispatched in the end, unless the
\* provider is stopped or dead for good.
MessagesDispatched ==
  \A u \in Messages(Update) :
    [](arrived >= u =>
         <>(\/ u \in delivered \cup dropped
            \/ [](~handle \/ loop \in {"exited", "panicked"})))
=============================================================================
