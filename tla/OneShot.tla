------------------------------ MODULE OneShot ------------------------------
(***************************************************************************)
(* The one-shot commands `pc send`, `pc listen` and `pc check` on Telegram *)
(* (bin/pc/src/main.rs and its copy cli/src/ops.rs): processes that follow *)
(* one another, each with a provider of its own for as long as its         *)
(* operation takes.  A listener reads a ring of its own; the others let the*)
(* provider's events go where nobody listens, and so does a daemon here,   *)
(* whose clients are another module's.  One thread runs it all, so what    *)
(* operation and poll loop do is told apart only where one of them waits.  *)
(***************************************************************************)
EXTENDS TelegramPoller, FiniteSets

CONSTANTS
  Ops,       \* the commands that are run
  Capacity,  \* OUTBOUND_CAPACITY
  MaxRuns    \* bound: processes

ASSUME OneShotConstants ==
  /\ Ops \subseteq {"daemon", "send", "check", "listen", "once"}
  /\ Capacity \in Nat \ {0}
  /\ MaxRuns \in Nat

VARIABLES
  op,         \* the command of the process there is; "none" between processes,
              \* "leaving" once a listener no longer reads and stops its targets
  unread,     \* frames of the listener's ring: updates, and Err
  missed,     \* updates the ring has lost, and the listener not yet noticed
  printed,    \* history: updates printed
  announced,  \* history: updates counted in a printed notice of dropped frames
  elsewhere,  \* history: updates given to a sink that nobody reads
  runs

listenVars  == <<unread, missed, printed, announced>>
commandVars == <<op, listenVars, elsewhere, runs>>
oneShotVars == <<pollerVars, commandVars>>

Err       == 0
Listening == op \in {"listen", "once"}

OneShotTypeOK ==
  /\ PollerTypeOK
  /\ op \in Ops \cup {"none", "leaving"}
  /\ unread \subseteq 0 .. arrived /\ Cardinality(unread) <= Capacity
  /\ missed \subseteq 1 .. arrived
  /\ unread \cup missed # {} => Listening /\ loop # "requesting"
  /\ printed \cup announced \cup elsewhere \subseteq delivered
  /\ runs \in 0 .. MaxRuns

OneShotInit ==
  /\ PollerInit
  /\ op = "none"
  /\ unread = {}
  /\ missed = {}
  /\ printed = {}
  /\ announced = {}
  /\ elsewhere = {}
  /\ runs = 0
-----------------------------------------------------------------------------
(* A process and its operation.                                            *)

\* The listener subscribes before the provider is started.
Launch(command) ==
  /\ op = "none"
  /\ runs < MaxRuns
  /\ runs' = runs + 1
  /\ op' = command
  /\ IF command = "daemon" THEN UNCHANGED pollerVars ELSE Start
  /\ UNCHANGED <<listenVars, elsewhere>>

\* The receipt or the error of send; the verdict of check; stop_all of a listener
\* that comes to this provider after others.
Concludes ==
  /\ op \in {"send", "check", "leaving"}
  /\ Halt
  /\ UNCHANGED <<faults, commandVars>>

Drained == unread = {} /\ missed = {}

\* The listener reads no more, with `rest` in its ring.  stop_all stops one target
\* after another: this provider before its loop runs again, or after others, each
\* with a grace window in which this one polls on.
StopsTargets(rest) ==
  /\ handle
  /\ \/ Halt /\ unread' = rest /\ UNCHANGED <<op, elsewhere>>
     \/ /\ op' = "leaving"
        /\ unread' = {}
        /\ elsewhere' = elsewhere \cup (rest \ {Err})
        /\ UNCHANGED <<serverVars, offset, loop, batch, errors, taskVars,
                       deliveryVars, told>>
  /\ UNCHANGED <<faults, missed, announced, runs>>

\* listen --timeout: the ring is looked at before the clock.
TimesOut ==
  /\ Listening
  /\ Drained
  /\ StopsTargets({})
  /\ UNCHANGED printed

\* The oldest frame is printed, and with --once it is the last.
Receives(frame) ==
  /\ Listening
  /\ handle
  /\ missed = {}
  /\ frame \in unread
  /\ \A other \in unread : frame <= other
  /\ printed' = IF frame = Err THEN printed ELSE printed \cup {frame}
  /\ \/ op = "once" /\ StopsTargets(unread \ {frame})
     \/ /\ op = "listen"
        /\ unread' = unread \ {frame}
        /\ UNCHANGED <<pollerVars, op, missed, announced, elsewhere, runs>>

\* The notice is no event that --once would wait for.
Lagging(said) ==
  /\ Listening
  /\ handle
  /\ missed # {}
  /\ missed' = {}
  /\ announced' = announced \cup said
  /\ UNCHANGED <<pollerVars, op, unread, printed, elsewhere, runs>>

\* Mutant: the listener goes on as if nothing had happened.
LagsSilently == Lagging({})

Lags == Lagging(missed)

Leaves ==
  /\ op' = "none"
  /\ unread' = {}
  /\ missed' = {}
  /\ UNCHANGED <<printed, announced, elsewhere, runs>>

\* stop_quietly has returned.
Exit ==
  /\ op \notin {"none", "daemon"}
  /\ ~handle
  /\ loop = "none"
  /\ Renew
  /\ Leaves
  /\ UNCHANGED faults

Killed ==
  /\ op # "none"
  /\ Restart
  /\ Leaves
-----------------------------------------------------------------------------
(* The provider in it.                                                     *)

Newest(S) == {u \in S : Cardinality({v \in S : v > u}) < Capacity}

\* What of the batch the sink is given.
Given(end) == {u \in Messages(batch) : u < end}

Sink(end) ==
  LET ring == unread \cup Given(end)
  IN  /\ IF Listening
         THEN /\ unread' = Newest(ring)
              /\ missed' = missed \cup (ring \ Newest(ring))
              /\ UNCHANGED elsewhere
         ELSE /\ elsewhere' = elsewhere \cup Given(end)
              /\ UNCHANGED <<unread, missed>>
      /\ UNCHANGED <<op, printed, announced, runs>>

Reports(says) ==
  /\ unread' = IF Listening /\ says THEN unread \cup {Err} ELSE unread
  /\ UNCHANGED <<op, missed, printed, announced, elsewhere, runs>>

\* The listener has read all there is while the loop slept.
Requests ==
  /\ Listening => Drained
  /\ Request
  /\ UNCHANGED commandVars

\* No sink of a one-shot command panics.
Dispatches ==
  \/ Dispatch /\ Sink(offset')
  \/ op = "daemon" /\ DispatchPanics /\ Sink(offset' - 1)

Fails ==
  \/ RoundFails /\ Reports(errors + 1 = Threshold)
  \/ RoundFatal /\ Reports(TRUE)

Quietly(A) == A /\ UNCHANGED commandVars

LoopStep ==
  \/ Quietly(Answer)
  \/ Quietly(NoticeShutdown)
  \/ Quietly(StopEnd)
  \/ Requests
  \/ Dispatches
  \/ Fails

OneShotNext ==
  \/ Quietly(UpdateArrives)
  \/ LoopStep
  \/ op = "daemon" /\ Quietly(Start \/ StopBegin)
  \/ \E command \in Ops : Launch(command)
  \/ Concludes
  \/ TimesOut
  \/ \E frame \in 0 .. MaxUpdates : Receives(frame)
  \/ Lags
  \/ Exit
  \/ Killed

OneShotSpec == OneShotInit /\ [][OneShotNext]_oneShotVars

\* As in FairPollerSpec, and a listener reads what there is.
FairOneShotSpec ==
  /\ OneShotSpec
  /\ WF_oneShotVars(Quietly(NoticeShutdown))
  /\ WF_oneShotVars(Requests)
  /\ WF_oneShotVars(Quietly(StopEnd))
  /\ SF_oneShotVars(Quietly(Answer))
  /\ SF_oneShotVars(Dispatches)
  /\ WF_oneShotVars(\E frame \in 0 .. MaxUpdates : Receives(frame))
  /\ WF_oneShotVars(Lags)
-----------------------------------------------------------------------------
\* What a listener takes off Telegram's queue it prints, or counts in a notice of
\* dropped frames, before Telegram forgets it: an end by --timeout or --once, in
\* the middle of a batch, and a kill leave the rest to the next process.  Telegram
\* forgets the other messages only once a sink that nobody reads has had them: a
\* daemon's or another command's, that of a listener which is leaving, while its
\* other targets are stopped, or one that panicked (CrashRedelivers).
NothingUnseen ==
  Messages(1 .. confirmed) \subseteq printed \cup announced \cup elsewhere \cup dropped

\* "a crash between delivery and ack re-delivers instead of dropping" (README.md of
\* the provider): no message is acknowledged to Telegram whose on_message did not
\* return.  A panic of the sink that unwinds only the loop's task leaves the cursor
\* behind the message, and the next start acknowledges it.
CrashRedelivers == Messages(1 .. confirmed) \subseteq delivered
=============================================================================
