--------------------------- MODULE OneShot_proofs ---------------------------
(***************************************************************************)
(* At-least-once dispatch by the poll loop, for every batch size, threshold*)
(* and number of stops, panics and restarts; then what the processes on one*)
(* bot show of Telegram's queue, for every ring, set of commands and number*)
(* of processes and faults.                                                *)
(***************************************************************************)
EXTENDS OneShot, Sublists_proofs, FiniteSetTheorems

\* The cursor is behind what Telegram has confirmed only in a new process, and
\* never ahead of what was dispatched.
CursorInv ==
  /\ offset = 0 \/ confirmed < offset
  /\ \A u \in Messages(Update) : u < offset => u \in delivered \cup dropped
  /\ \A u \in dispatched : u < offset

\* An answer is the run of updates right behind the confirmed ones.
BatchInv ==
  /\ loop # "answered" => batch = {}
  /\ loop = "answered" =>
       /\ offset = 0 \/ offset = confirmed + 1
       /\ \E last \in confirmed .. arrived : batch = confirmed + 1 .. last

PollerInv ==
  /\ PollerTypeOK
  /\ CursorInv
  /\ BatchInv
  /\ NothingLost
  /\ HostTold
  /\ handle => ~shutdown

\* The initial state satisfies the invariant.
LEMMA PollerInitInv == PollerInit => PollerInv
<1> SUFFICES ASSUME PollerInit PROVE PollerInv
  OBVIOUS
<1> USE PollerConstants DEF PollerInit
<1>1. PollerTypeOK
  <2>1. /\ arrived \in 0 .. MaxUpdates /\ confirmed \in 0 .. arrived
        /\ offset \in 0 .. arrived + 1 /\ errors \in 0 .. Threshold + 1
        /\ faults \in 0 .. MaxFaults
    OBVIOUS
  <2> QED BY <2>1 DEF PollerTypeOK, Loop
<1>2. CursorInv
  BY DEF CursorInv, Messages, Update
<1>3. BatchInv /\ NothingLost /\ HostTold
  BY DEF BatchInv, NothingLost, HostTold, Messages
<1> QED BY <1>1, <1>2, <1>3 DEF PollerInv

\* Behind an answer the cursor stands right after its last update.
LEMMA PastAnswer ==
  ASSUME NEW last \in Nat, confirmed \in Nat, offset \in Nat,
         batch = confirmed + 1 .. last, confirmed <= last
  PROVE  Past(batch) = IF last = confirmed THEN offset ELSE last + 1
<1>1. CASE last = confirmed
  BY <1>1 DEF Past
<1>2. CASE last # confirmed
  <2>1. last \in batch /\ \A v \in batch : v <= last
    BY <1>2
  <2>2. \A w \in batch : (\A v \in batch : v <= w) => w = last
    BY <2>1
  <2>3. last = CHOOSE w \in batch : \A v \in batch : v <= w
    BY <2>1, <2>2
  <2>4. batch # {}
    BY <2>1
  <2>5. Past(batch) = 1 + last
    BY <2>3, <2>4, Zenon DEF Past
  <2> QED BY <1>2, <2>5
<1> QED BY <1>1, <1>2

\* The signal of stop keeps the invariant.
LEMMA HaltInv ==
  ASSUME PollerInv, Halt, faults' \in 0 .. MaxFaults
  PROVE  PollerInv'
<1> USE DEF PollerInv, PollerTypeOK
<1>1. /\ UNCHANGED <<arrived, confirmed, offset, loop, batch, errors, dispatched,
                     delivered, dropped, told>>
      /\ handle' = FALSE /\ shutdown' = TRUE
  BY DEF Halt, serverVars, deliveryVars
<1>2. PollerTypeOK'
  <2>1. handle' \in BOOLEAN /\ shutdown' \in BOOLEAN
    BY <1>1, Zenon
  <2> QED BY <1>1, <2>1
<1>3. CursorInv' /\ NothingLost' /\ BatchInv'
  BY <1>1 DEF CursorInv, NothingLost, BatchInv
<1>4. HostTold' /\ (handle => ~shutdown)'
  BY <1>1 DEF HostTold
<1> QED BY <1>2, <1>3, <1>4

\* A step of Telegram, of a round without a dispatch, of start or of stop keeps
\* the invariant.
LEMMA RoundInv ==
  ASSUME PollerInv,
         \/ UpdateArrives \/ NoticeShutdown \/ Request \/ RoundFails
         \/ RoundFatal \/ Start \/ StopBegin \/ StopEnd
  PROVE  PollerInv'
<1> USE PollerConstants
        DEF PollerInv, PollerTypeOK, CursorInv, BatchInv, NothingLost, HostTold,
            Messages, Loop, serverVars, taskVars, deliveryVars, Update, Fault
<1>1. CASE UpdateArrives
  BY <1>1 DEF UpdateArrives
<1>2. CASE NoticeShutdown
  BY <1>2 DEF NoticeShutdown
<1>7. CASE Request
  BY <1>7 DEF Request
<1>3. CASE RoundFails
  BY <1>3 DEF RoundFails, FailedRound
<1>4. CASE RoundFatal
  BY <1>4 DEF RoundFatal
<1>5. CASE Start
  <2>1. /\ UNCHANGED <<arrived, confirmed, offset, batch, dispatched, delivered,
                       dropped, faults>>
        /\ loop = "none" /\ loop' = "idle" /\ handle' = TRUE
        /\ shutdown' = FALSE /\ errors' = 0 /\ told' = "nothing"
    BY <1>5 DEF Start, Spawn
  <2>2. PollerTypeOK'
    <3>1. handle' \in BOOLEAN /\ shutdown' \in BOOLEAN
      BY <2>1, Zenon
    <3>2. errors' \in 0 .. Threshold + 1
      BY <2>1
    <3> QED BY <2>1, <3>1, <3>2
  <2>3. CursorInv' /\ NothingLost'
    BY <2>1
  <2>4. BatchInv'
    BY <2>1
  <2>5. HostTold' /\ (handle => ~shutdown)'
    BY <2>1
  <2> QED BY <2>2, <2>3, <2>4, <2>5
<1>6. CASE StopBegin
  BY SMTT(20), <1>6, HaltInv DEF StopBegin
<1>8. CASE StopEnd
  BY <1>8 DEF StopEnd
<1> QED BY <1>1, <1>2, <1>3, <1>4, <1>5, <1>6, <1>7, <1>8

\* An answer keeps the invariant: what it confirms was dispatched before.
LEMMA AnswerInv ==
  ASSUME PollerInv, Answer
  PROVE  PollerInv'
<1> USE PollerConstants
        DEF PollerInv, PollerTypeOK, CursorInv, BatchInv, NothingLost, HostTold,
            Messages, Loop, serverVars, taskVars, deliveryVars, Update
<1>1. PICK last \in 0 .. arrived : Serve(last)
  BY DEF Answer
<1>2. /\ confirmed' = Confirm /\ batch' = Confirm + 1 .. last
      /\ loop' = "answered" /\ last \in Confirm .. arrived
      /\ UNCHANGED <<arrived, offset, errors, taskVars, deliveryVars, told, faults>>
  BY <1>1 DEF Serve, Answer
<1>3. /\ Confirm \in confirmed .. arrived
      /\ offset = 0 \/ offset = Confirm + 1
      /\ Confirm = confirmed \/ Confirm < offset
  BY DEF Confirm
<1>4. NothingLost'
  BY <1>2, <1>3
<1>5. PollerTypeOK'
  BY <1>2, <1>3
<1>6. CursorInv' /\ BatchInv'
  BY <1>2, <1>3
<1> QED BY <1>2, <1>4, <1>5, <1>6

\* Dispatching a batch, in full or up to a panic, keeps the invariant.
LEMMA DispatchInv ==
  ASSUME PollerInv, Dispatch \/ DispatchPanics
  PROVE  PollerInv'
<1> USE PollerConstants
        DEF PollerInv, PollerTypeOK, HostTold, Loop, serverVars, taskVars, Fault
<1>1. loop = "answered"
  BY DEF Dispatch, DispatchTo, DispatchPanics
<1>2. PICK last \in confirmed .. arrived : batch = confirmed + 1 .. last
  BY <1>1 DEF BatchInv
<1>3. offset = 0 \/ offset = confirmed + 1
  BY <1>1 DEF BatchInv
<1>4. CASE Dispatch
  <2>1. /\ UNCHANGED <<arrived, confirmed, dropped, handle, shutdown, faults>>
        /\ batch' = {} /\ errors' = 0 /\ told' = "nothing" /\ loop' = "idle"
        /\ dispatched' = dispatched \cup Messages(batch)
        /\ delivered' = delivered \cup Messages(batch)
    BY <1>2, <1>4 DEF Dispatch, DispatchTo, Deliver, Messages
  <2>2. offset' = IF last = confirmed THEN offset ELSE last + 1
    BY <1>2, <1>4, PastAnswer DEF Dispatch, DispatchTo
  <2>3. PollerTypeOK'
    BY <1>2, <2>1, <2>2 DEF Messages
  <2>4. CursorInv'
    BY <1>2, <1>3, <2>1, <2>2 DEF CursorInv, NothingLost, Messages, Update
  <2>5. NothingLost' /\ BatchInv'
    BY <2>1 DEF NothingLost, BatchInv
  <2> QED BY <2>1, <2>3, <2>4, <2>5
<1>5. CASE DispatchPanics
  <2>1. PICK u \in Messages(batch) : /\ offset' = u + 1
                                     /\ Deliver(u)
                                     /\ dropped' = dropped \cup {u}
    BY <1>5 DEF DispatchPanics
  <2>2. /\ UNCHANGED <<arrived, confirmed, errors, told, handle, shutdown>>
        /\ batch' = {} /\ loop' = "panicked"
        /\ faults' = faults + 1 /\ faults < MaxFaults
    BY <1>5 DEF DispatchPanics
  <2>3. /\ dispatched' = dispatched \cup {v \in Messages(batch) : v < u}
        /\ delivered' = delivered \cup {v \in Messages(batch) : v < u}
    BY <2>1 DEF Deliver
  <2>4. u \in confirmed + 1 .. last
    BY <1>2, <2>1 DEF Messages
  <2>5. PollerTypeOK'
    <3>1. /\ offset' \in 0 .. arrived' + 1 /\ faults' \in 0 .. MaxFaults
          /\ confirmed' \in 0 .. arrived' /\ arrived' \in 0 .. MaxUpdates
      BY <2>1, <2>2, <2>4
    <3>2. /\ dispatched' \subseteq delivered' /\ delivered' \subseteq 1 .. arrived'
          /\ dropped' \subseteq 1 .. arrived'
      BY <2>1, <2>2, <2>3 DEF Messages
    <3> QED BY <2>2, <3>1, <3>2
  <2>6. CursorInv'
    BY <1>2, <1>3, <2>1, <2>2, <2>3, <2>4
       DEF CursorInv, NothingLost, Messages, Update
  <2>7. NothingLost' /\ BatchInv'
    BY <2>1, <2>2, <2>3 DEF NothingLost, BatchInv
  <2> QED BY <2>2, <2>5, <2>6, <2>7
<1> QED BY <1>4, <1>5

\* The end of the process keeps the invariant.
LEMMA RenewInv ==
  ASSUME PollerInv, Renew, faults' \in 0 .. MaxFaults
  PROVE  PollerInv'
<1> USE DEF PollerInv, PollerTypeOK
<1>1. PICK end \in 0 .. arrived + 1 :
        delivered' = delivered \cup {u \in Messages(batch) : u < end}
  BY DEF Renew
<1>2. /\ UNCHANGED <<arrived, confirmed, dropped>>
      /\ dispatched' = {} /\ offset' = 0 /\ loop' = "none" /\ batch' = {}
      /\ errors' = 0 /\ handle' = FALSE /\ shutdown' = FALSE
      /\ told' = "nothing"
  BY DEF Renew, serverVars
<1>3. PollerTypeOK'
  <2>1. delivered' \subseteq 1 .. arrived'
    BY <1>1, <1>2 DEF Messages
  <2>2. /\ offset' \in 0 .. arrived' + 1 /\ errors' \in 0 .. Threshold + 1
        /\ confirmed' \in 0 .. arrived' /\ arrived' \in 0 .. MaxUpdates
        /\ dropped' \subseteq 1 .. arrived'
    BY <1>2, PollerConstants
  <2> QED BY <1>2, <2>1, <2>2 DEF Loop
<1>4. CursorInv' /\ BatchInv' /\ NothingLost' /\ HostTold'
  BY <1>1, <1>2 DEF CursorInv, BatchInv, NothingLost, HostTold, Messages, Update
<1> QED BY <1>2, <1>3, <1>4

\* The invariant holds in every reachable state.
THEOREM PollerInvHolds == PollerSpec => []PollerInv
<1>1. PollerInv /\ [PollerNext]_pollerVars => PollerInv'
  <2> SUFFICES ASSUME PollerInv, [PollerNext]_pollerVars PROVE PollerInv'
    OBVIOUS
  <2>1. CASE PollerNext
    <3>1. CASE Restart
      <4>1. faults' \in 0 .. MaxFaults
        BY <3>1, PollerConstants DEF Restart, Fault, PollerInv, PollerTypeOK
      <4> QED BY <3>1, <4>1, RenewInv DEF Restart
    <3> QED BY <2>1, <3>1, RoundInv, AnswerInv, DispatchInv DEF PollerNext
  <2>2. CASE UNCHANGED pollerVars
    BY <2>2 DEF pollerVars, serverVars, taskVars, deliveryVars, PollerInv,
                PollerTypeOK, CursorInv, BatchInv, NothingLost, HostTold
  <2> QED BY <2>1, <2>2
<1> QED BY PollerInitInv, <1>1, PTL DEF PollerSpec

\* Every variable keeps its type.
THEOREM PollerTypeCorrect == PollerSpec => []PollerTypeOK
  BY PollerInvHolds, PTL DEF PollerInv

\* Telegram forgets no message before on_message was called with it.
THEOREM NothingLostHolds == PollerSpec => []NothingLost
  BY PollerInvHolds, PTL DEF PollerInv

\* A batch lies behind the cursor, and the cursor behind what was dispatched.
LEMMA BatchIsNew ==
  ASSUME PollerInv
  PROVE  InOrderOnce
<1> SUFFICES ASSUME NEW u \in dispatched, NEW v \in batch
             PROVE  u < v
  BY DEF InOrderOnce
<1>1. u < offset /\ offset \in Nat /\ u \in Nat
  BY DEF PollerInv, PollerTypeOK, CursorInv
<1>2. v > confirmed /\ (offset = 0 \/ offset = confirmed + 1)
  BY DEF PollerInv, PollerTypeOK, BatchInv
<1> QED BY <1>1, <1>2 DEF PollerInv, PollerTypeOK

\* Within a process no message is dispatched twice or out of order.
THEOREM InOrderOnceHolds == PollerSpec => []InOrderOnce
<1>1. PollerInv => InOrderOnce
  BY BatchIsNew
<1> QED BY <1>1, PollerInvHolds, PTL

\* A connection that fails for long or is over has been reported.
THEOREM HostToldHolds == PollerSpec => []HostTold
  BY PollerInvHolds, PTL DEF PollerInv
-----------------------------------------------------------------------------
(* The processes around the poll loop.                                     *)

\* What somebody was told of, or is lost to a panic.
Seen == printed \cup announced \cup elsewhere \cup dropped

\* The ring is drained before a poll, so nothing a poll confirms is still in it,
\* and everything behind the cursor has been in it.
RingInv ==
  /\ unread \cup missed # {} => Listening /\ loop \notin {"requesting", "answered"}
  /\ (unread \cup missed) \ {Err} \subseteq delivered
  /\ \A u \in Messages(Update) : u < offset => u \in Seen \cup unread \cup missed

OneShotInv ==
  /\ PollerInv
  /\ OneShotTypeOK
  /\ RingInv
  /\ NothingUnseen

\* The ring holds no more than its capacity.
LEMMA NewestFits ==
  ASSUME NEW S \in SUBSET Nat, IsFiniteSet(S)
  PROVE  /\ Newest(S) \subseteq S
         /\ IsFiniteSet(Newest(S))
         /\ Cardinality(Newest(S)) <= Capacity
<1>1. Newest(S) \in SUBSET S
  BY DEF Newest
<1>2. IsFiniteSet(Newest(S))
  BY <1>1, FS_Subset
<1>3. CASE Newest(S) = {}
  BY <1>1, <1>2, <1>3, FS_EmptySet, OneShotConstants
<1>4. CASE Newest(S) # {}
  <2>1. PICK u \in Newest(S) : \A v \in Newest(S) : u <= v
    BY <1>1, <1>2, <1>4, Smallest
  <2> DEFINE Above == {v \in S : v > u}
  <2>2. Cardinality(Above) < Capacity
    BY <2>1 DEF Newest
  <2>3. Newest(S) \ {u} \in SUBSET Above
    <3> SUFFICES ASSUME NEW v \in Newest(S), v # u PROVE v \in S /\ v > u
      OBVIOUS
    <3>1. u \in Nat /\ v \in Nat /\ v \in S
      BY <1>1
    <3> QED BY <2>1, <3>1
  <2>4. IsFiniteSet(Above)
    BY FS_Subset
  <2>5. Cardinality(Newest(S) \ {u}) <= Cardinality(Above)
    BY <2>3, <2>4, FS_Subset
  <2>6. Cardinality(Newest(S) \ {u}) = Cardinality(Newest(S)) - 1
    BY <1>2, <2>1, FS_RemoveElement
  <2>7. Cardinality(Newest(S)) \in Nat /\ Cardinality(Above) \in Nat
    BY <1>2, <2>4, FS_CardinalityType
  <2> QED BY <1>1, <1>2, <2>2, <2>5, <2>6, <2>7, OneShotConstants
<1> QED BY <1>3, <1>4

\* The initial state satisfies the invariant.
LEMMA OneShotInitInv == OneShotInit => OneShotInv
<1> SUFFICES ASSUME OneShotInit PROVE OneShotInv
  OBVIOUS
<1>1. PollerInv
  BY PollerInitInv DEF OneShotInit
<1>2. Cardinality(unread) <= Capacity
  BY FS_EmptySet, OneShotConstants DEF OneShotInit
<1>3. /\ offset = 0 /\ confirmed = 0 /\ arrived = 0 /\ delivered = {}
      /\ unread = {} /\ missed = {} /\ printed = {} /\ announced = {}
      /\ elsewhere = {} /\ op = "none" /\ runs = 0
  BY DEF OneShotInit, PollerInit
<1>4. RingInv
  BY <1>3 DEF RingInv, Messages, Update
<1>5. NothingUnseen
  BY <1>3 DEF NothingUnseen, Messages
<1>6. OneShotTypeOK
  BY <1>1, <1>2, <1>3, OneShotConstants DEF OneShotTypeOK, PollerInv
<1> QED
  BY <1>1, <1>4, <1>5, <1>6 DEF OneShotInv

\* A step that shows nobody anything, and confirms nothing unless the ring is
\* empty, keeps the invariant.
LEMMA QuietInv ==
  ASSUME OneShotInv, PollerInv',
         UNCHANGED <<unread, missed, printed, announced, elsewhere>>,
         UNCHANGED <<offset, delivered, dropped>>,
         arrived <= arrived',
         op' \in Ops \cup {"none", "leaving"}, runs' \in 0 .. MaxRuns,
         unread \cup missed # {} =>
           op' = op /\ loop' \notin {"requesting", "answered"},
         \/ confirmed' = confirmed
         \/ confirmed' < offset /\ unread = {} /\ missed = {}
  PROVE  OneShotInv'
<1> USE DEF OneShotInv, PollerInv, PollerTypeOK
<1>1. OneShotTypeOK'
  <2>1. unread \subseteq 0 .. arrived' /\ missed \subseteq 1 .. arrived'
    BY DEF OneShotTypeOK
  <2>2. (unread \cup missed # {} => Listening /\ loop # "requesting")'
    BY DEF OneShotTypeOK, Listening
  <2>3. printed \cup announced \cup elsewhere \subseteq delivered
    BY DEF OneShotTypeOK
  <2> QED BY <2>1, <2>2, <2>3 DEF OneShotTypeOK
<1>2. RingInv'
  BY DEF RingInv, Seen, Listening, Messages, Update
<1>3. NothingUnseen'
  <2> SUFFICES ASSUME NEW u \in 1 .. confirmed', u \notin Service PROVE u \in Seen
    BY DEF NothingUnseen, Seen, Messages
  <2>1. confirmed' \in 0 .. arrived' /\ arrived' \in 0 .. MaxUpdates
    OBVIOUS
  <2>2. u \in Messages(Update)
    BY <2>1, PollerConstants DEF Messages, Update
  <2>3. u <= confirmed => u \in Seen
    BY <2>2 DEF NothingUnseen, Seen, Messages, Update
  <2>4. u < offset /\ unread = {} /\ missed = {} => u \in Seen
    BY <2>2 DEF RingInv
  <2> QED BY <2>1, <2>3, <2>4
<1> QED BY <1>1, <1>2, <1>3

\* So do the steps of Telegram and the sleeping loop, which leave the ring alone.
LEMMA LoopQuietly ==
  ASSUME OneShotInv,
         \/ Quietly(UpdateArrives)
         \/ Quietly(Answer)
         \/ Quietly(NoticeShutdown)
         \/ Quietly(StopEnd)
         \/ Requests
  PROVE  OneShotInv'
<1>1. /\ PollerInv /\ arrived \in Nat
      /\ op \in Ops \cup {"none", "leaving"} /\ runs \in 0 .. MaxRuns
      /\ unread \cup missed # {} => loop \notin {"requesting", "answered"}
  BY DEF OneShotInv, OneShotTypeOK, RingInv, PollerInv, PollerTypeOK
<1>2. PollerInv'
  BY <1>1, RoundInv, AnswerInv DEF Quietly, Requests
<1>3. UNCHANGED <<op, unread, missed, printed, announced, elsewhere, runs>>
  BY DEF Quietly, Requests, commandVars, listenVars
<1>4. /\ UNCHANGED <<offset, delivered, dropped>>
      /\ arrived' = arrived \/ arrived' = arrived + 1
  BY DEF Quietly, Requests, UpdateArrives, Answer, Serve, NoticeShutdown, StopEnd,
         Request, serverVars, deliveryVars
<1>5. /\ unread \cup missed # {} => loop' \notin {"requesting", "answered"}
      /\ \/ confirmed' = confirmed
         \/ confirmed' < offset /\ unread = {} /\ missed = {}
  <2>1. CASE Quietly(Answer)
    <3>1. loop = "requesting" /\ confirmed' = Confirm
      BY <2>1 DEF Quietly, Answer, Serve
    <3>2. unread = {} /\ missed = {}
      BY <1>1, <3>1
    <3>3. confirmed' = confirmed \/ confirmed' < offset
      BY <1>1, <3>1 DEF Confirm, PollerInv, PollerTypeOK
    <3> QED BY <3>2, <3>3
  <2>2. CASE Requests
    <3>1. unread = {} /\ missed = {} /\ confirmed' = confirmed
      BY <2>2 DEF Requests, Request, Drained, serverVars, OneShotInv, RingInv
    <3> QED BY <3>1
  <2>3. CASE Quietly(UpdateArrives)
    BY <1>1, <2>3 DEF Quietly, UpdateArrives
  <2>4. CASE Quietly(NoticeShutdown)
    BY <1>1, <2>4 DEF Quietly, NoticeShutdown, serverVars
  <2>5. CASE Quietly(StopEnd)
    BY <1>1, <2>5 DEF Quietly, StopEnd, serverVars
  <2> QED BY <2>1, <2>2, <2>3, <2>4, <2>5
<1>6. arrived <= arrived'
  BY <1>1, <1>4
<1> QED BY <1>1, <1>2, <1>3, <1>4, <1>5, <1>6, QuietInv

\* So do the steps of a command that start and stop its provider.
LEMMA CommandQuietly ==
  ASSUME OneShotInv,
         \/ op = "daemon" /\ Quietly(Start \/ StopBegin)
         \/ Concludes
         \/ TimesOut
         \/ \E command \in Ops : Launch(command)
  PROVE  OneShotInv'
<1>1. /\ PollerInv /\ arrived \in Nat /\ faults \in 0 .. MaxFaults
      /\ op \in Ops \cup {"none", "leaving"} /\ runs \in 0 .. MaxRuns
      /\ unread \cup missed # {} => Listening /\ loop \notin {"requesting", "answered"}
  BY DEF OneShotInv, OneShotTypeOK, RingInv, PollerInv, PollerTypeOK
<1>2. /\ UNCHANGED <<unread, missed, printed, announced, elsewhere>>
      /\ op' \in Ops \cup {"none", "leaving"} /\ runs' \in 0 .. MaxRuns
      /\ op' = op \/ op = "none" \/ (unread = {} /\ missed = {})
      /\ \/ Start
         \/ StopBegin
         \/ Halt /\ UNCHANGED faults
         \/ UNCHANGED pollerVars
  BY <1>1, OneShotConstants
     DEF Quietly, Concludes, TimesOut, StopsTargets, Drained, Listening, Launch,
         commandVars, listenVars, pollerVars
<1>3. PollerInv'
  <2>1. CASE Start \/ StopBegin
    BY <1>1, <2>1, RoundInv
  <2>2. CASE Halt /\ UNCHANGED faults
    BY <1>1, <2>2, HaltInv
  <2>3. CASE UNCHANGED pollerVars
    BY <1>1, <2>3
       DEF pollerVars, serverVars, taskVars, deliveryVars, PollerInv, PollerTypeOK,
           CursorInv, BatchInv, NothingLost, HostTold
  <2> QED BY <1>2, <2>1, <2>2, <2>3
<1>4. /\ UNCHANGED <<arrived, confirmed, offset, delivered, dropped>>
      /\ loop' = loop \/ loop' = "idle"
  BY <1>2 DEF Start, Spawn, StopBegin, Halt, pollerVars, serverVars, deliveryVars
<1>5. unread \cup missed # {} =>
        op' = op /\ loop' \notin {"requesting", "answered"}
  BY <1>1, <1>2, <1>4 DEF Listening
<1> QED BY <1>1, <1>2, <1>3, <1>4, <1>5, QuietInv

\* A listener that prints a frame or the notice has seen what it takes.
LEMMA ListenerInv ==
  ASSUME OneShotInv, Lags \/ \E frame \in 0 .. MaxUpdates : Receives(frame)
  PROVE  OneShotInv'
<1> DEFINE Shows(said) ==
             /\ Listening
             /\ \/ op' = op
                \/ op' = "leaving" /\ unread' = {} /\ missed' = {}
             /\ UNCHANGED runs
             /\ unread' \subseteq unread
             /\ missed' \subseteq missed
             /\ unread \cup missed = unread' \cup missed' \cup said
             /\ printed \subseteq printed'
             /\ announced \subseteq announced'
             /\ elsewhere \subseteq elsewhere'
             /\ printed' \cup announced' \cup elsewhere'
                  = printed \cup announced \cup elsewhere \cup (said \ {Err})
             /\ \/ UNCHANGED pollerVars
                \/ Halt /\ UNCHANGED faults
<1>1. PICK said : Shows(said)
  <2>1. CASE Lags
    <3>1. missed \ {Err} = missed
      BY DEF OneShotInv, OneShotTypeOK, PollerInv, PollerTypeOK, Err
    <3>2. Shows(missed)
      BY <2>1, <3>1 DEF Lags, Lagging
    <3> QED BY <3>2
  <2>2. CASE \E frame \in 0 .. MaxUpdates : Receives(frame)
    <3>1. PICK frame \in 0 .. MaxUpdates : Receives(frame)
      BY <2>2
    <3>2. /\ Listening /\ UNCHANGED <<runs, missed, announced>>
          /\ missed = {} /\ frame \in unread
          /\ printed' = IF frame = Err THEN printed ELSE printed \cup {frame}
      BY <3>1 DEF Receives, StopsTargets
    <3>3. CASE op' = op /\ unread' = unread \ {frame} /\ UNCHANGED elsewhere
      <4>1. UNCHANGED pollerVars \/ (Halt /\ UNCHANGED faults)
        BY <3>1, <3>3 DEF Receives, StopsTargets, pollerVars
      <4>2. Shows({frame})
        BY <3>2, <3>3, <4>1
      <4> QED BY <4>2
    <3>4. CASE /\ op' = "leaving" /\ unread' = {} /\ UNCHANGED pollerVars
               /\ elsewhere' = elsewhere \cup ((unread \ {frame}) \ {Err})
      <4>1. Shows(unread)
        BY <3>2, <3>4
      <4> QED BY <4>1
    <3> QED BY <3>1, <3>3, <3>4 DEF Receives, StopsTargets, pollerVars
  <2> QED BY <2>1, <2>2
<1>2. PollerInv'
  <2>1. PollerInv /\ faults \in 0 .. MaxFaults
    BY DEF OneShotInv, PollerInv, PollerTypeOK
  <2>2. CASE Halt /\ UNCHANGED faults
    BY <2>1, <2>2, HaltInv
  <2>3. CASE UNCHANGED pollerVars
    BY <2>1, <2>3
       DEF pollerVars, serverVars, taskVars, deliveryVars, PollerInv, PollerTypeOK,
           CursorInv, BatchInv, NothingLost, HostTold
  <2> QED BY <1>1, <2>2, <2>3
<1>3. UNCHANGED <<arrived, confirmed, offset, loop, delivered, dropped>>
  BY <1>1 DEF Halt, pollerVars, serverVars, deliveryVars
<1>4. Cardinality(unread') <= Capacity /\ unread' \subseteq 0 .. arrived
  <2>1. unread \subseteq 0 .. arrived /\ Cardinality(unread) <= Capacity
    BY DEF OneShotInv, OneShotTypeOK
  <2>2. IsFiniteSet(unread)
    <3>1. IsFiniteSet(0 .. arrived)
      BY FS_Interval DEF OneShotInv, PollerInv, PollerTypeOK
    <3> QED BY <2>1, <3>1, FS_Subset
  <2>3. unread' \in SUBSET unread
    BY <1>1
  <2>4. /\ Cardinality(unread') <= Cardinality(unread)
        /\ Cardinality(unread') \in Nat /\ Cardinality(unread) \in Nat
    BY <2>2, <2>3, FS_Subset, FS_CardinalityType
  <2> QED BY <1>1, <2>1, <2>4, OneShotConstants
<1>5. said \ {Err} \subseteq delivered
  <2>1. said \subseteq unread \cup missed
    BY <1>1
  <2> QED BY <2>1 DEF OneShotInv, RingInv
<1>6. OneShotTypeOK'
  BY <1>1, <1>2, <1>3, <1>4, <1>5
     DEF OneShotInv, OneShotTypeOK, PollerInv, Listening
<1>7. RingInv'
  <2>1. \A u \in Messages(Update) : u < offset => u \in (Seen \cup unread \cup missed)'
    <3> SUFFICES ASSUME NEW u \in Messages(Update), u < offset
                 PROVE  u \in (Seen \cup unread \cup missed)'
      OBVIOUS
    <3>1. u \in Seen \cup unread \cup missed /\ u # Err
      BY DEF OneShotInv, RingInv, Messages, Update, Err
    <3> QED BY <1>1, <1>3, <3>1 DEF Seen
  <2> QED BY <1>1, <1>3, <2>1 DEF OneShotInv, RingInv, Listening, Update, Messages
<1>8. NothingUnseen'
  BY <1>1, <1>3 DEF OneShotInv, NothingUnseen, Messages
<1> QED BY <1>2, <1>6, <1>7, <1>8 DEF OneShotInv

\* A dispatch puts what it takes behind the cursor into the ring, or into the
\* sink that nobody reads.
LEMMA SinkInv ==
  ASSUME OneShotInv, Dispatches
  PROVE  OneShotInv'
<1> DEFINE end == IF loop' = "panicked" THEN offset' - 1 ELSE offset'
           new == Given(end)
<1>1. /\ PollerInv /\ PollerTypeOK /\ loop = "answered"
      /\ unread = {} /\ missed = {}
  BY DEF Dispatches, Dispatch, DispatchTo, DispatchPanics, OneShotInv, PollerInv,
         RingInv
<1>2. PollerInv'
  BY <1>1, DispatchInv DEF Dispatches
<1>3. /\ Sink(end)
      /\ loop' \in {"idle", "panicked"}
      /\ UNCHANGED <<arrived, confirmed>>
      /\ dropped \subseteq dropped'
      /\ delivered \subseteq delivered'
      /\ new \subseteq delivered'
      /\ \A u \in Messages(batch) : u < offset' => u \in new \cup dropped'
  <2>1. CASE Dispatch /\ Sink(offset')
    <3>1. /\ loop' = "idle" /\ UNCHANGED <<arrived, confirmed, dropped>>
          /\ Deliver(arrived + 1)
      BY <2>1 DEF Dispatch, DispatchTo, serverVars
    <3>2. \A u \in Messages(batch) : u < arrived + 1
      BY <1>1 DEF PollerTypeOK, Messages
    <3> QED BY <2>1, <3>1, <3>2 DEF Deliver, Given
  <2>2. CASE DispatchPanics /\ Sink(offset' - 1)
    <3>1. PICK p \in Messages(batch) : /\ offset' = p + 1
                                       /\ Deliver(p)
                                       /\ dropped' = dropped \cup {p}
      BY <2>2 DEF DispatchPanics
    <3>2. loop' = "panicked" /\ UNCHANGED <<arrived, confirmed>>
      BY <2>2 DEF DispatchPanics, serverVars
    <3>3. p \in Nat /\ \A u \in Messages(batch) : u \in Nat
      BY <1>1 DEF PollerTypeOK, Messages
    <3>4. end = p
      BY <3>1, <3>2, <3>3
    <3> QED BY <2>2, <3>1, <3>2, <3>3, <3>4 DEF Deliver, Given
  <2> QED BY <2>1, <2>2 DEF Dispatches
<1>4. /\ new \in SUBSET (1 .. arrived) /\ new \in SUBSET Nat /\ IsFiniteSet(new)
      /\ Err \notin new
  <2>1. new \in SUBSET (1 .. arrived) /\ arrived \in Nat
    <3>1. new \subseteq batch
      BY DEF Given, Messages
    <3>2. batch \subseteq 1 .. arrived /\ arrived \in Nat
      BY <1>1 DEF PollerTypeOK
    <3> QED BY <3>1, <3>2
  <2>2. IsFiniteSet(1 .. arrived)
    BY <2>1, FS_Interval
  <2> QED BY <2>1, <2>2, FS_Subset DEF Err
<1> HIDE DEF new, end
<1>5. /\ Newest(new) \subseteq new /\ Cardinality(Newest(new)) <= Capacity
  BY <1>4, NewestFits
<1>6. /\ UNCHANGED <<op, printed, announced, runs>>
      /\ unread' \subseteq new /\ missed' \subseteq new
      /\ elsewhere \subseteq elsewhere' /\ elsewhere' \subseteq elsewhere \cup new
      /\ new \subseteq unread' \cup missed' \cup elsewhere'
      /\ Cardinality(unread') <= Capacity
      /\ unread' \cup missed' # {} => Listening
  <2>1. unread \cup Given(end) = new
    BY <1>1 DEF new
  <2>2. CASE Listening
    BY <1>1, <1>3, <1>5, <2>1, <2>2 DEF Sink
  <2>3. CASE ~Listening
    <3>1. Cardinality(unread) <= Capacity
      BY DEF OneShotInv, OneShotTypeOK
    <3>2. Given(end) = new
      BY DEF new
    <3> QED BY <1>1, <1>3, <2>3, <3>1, <3>2 DEF Sink
  <2> QED BY <2>2, <2>3
<1>7. OneShotTypeOK'
  <2>1. /\ printed \cup announced \cup elsewhere \subseteq delivered
        /\ op \in Ops \cup {"none", "leaving"} /\ runs \in 0 .. MaxRuns
    BY DEF OneShotInv, OneShotTypeOK
  <2>2. unread' \subseteq 0 .. arrived' /\ missed' \subseteq 1 .. arrived'
    BY <1>3, <1>4, <1>6
  <2> QED
    BY <1>2, <1>3, <1>6, <2>1, <2>2 DEF OneShotTypeOK, PollerInv, Listening
<1>8. \A u \in Messages(Update) : u < offset' => u \in (Seen \cup unread \cup missed)'
  <2> SUFFICES ASSUME NEW u \in Messages(Update), u < offset'
               PROVE  u \in (Seen \cup unread \cup missed)'
    OBVIOUS
  <2>1. Seen \subseteq Seen'
    BY <1>3, <1>6 DEF Seen
  <2>2. CASE u <= confirmed
    BY <2>1, <2>2 DEF OneShotInv, NothingUnseen, Seen, Messages, Update
  <2>3. CASE u < offset
    BY <1>1, <2>1, <2>3 DEF OneShotInv, RingInv
  <2>4. CASE u > confirmed /\ ~(u < offset)
    <3>1. u \in batch
      <4>1. PICK last \in confirmed .. arrived : batch = confirmed + 1 .. last
        BY <1>1 DEF PollerInv, BatchInv
      <4>2. offset' <= offset \/ offset' <= last + 1
        <5>1. CASE Dispatch
          BY <1>1, <4>1, <5>1, PastAnswer DEF Dispatch, DispatchTo, PollerTypeOK
        <5>2. CASE DispatchPanics
          BY <1>1, <4>1, <5>2 DEF DispatchPanics, Messages, PollerTypeOK
        <5> QED BY <5>1, <5>2 DEF Dispatches
      <4>3. /\ u \in Nat /\ offset \in Nat /\ confirmed \in Nat /\ last \in Nat
            /\ offset' \in Nat
        BY <1>1, <1>2, <4>1 DEF PollerInv, PollerTypeOK, Messages, Update
      <4> QED BY <2>4, <4>1, <4>2, <4>3
    <3>2. u \in new \cup dropped'
      BY <1>3, <3>1 DEF Messages
    <3> QED BY <1>6, <3>2 DEF Seen
  <2>5. u \in Nat /\ confirmed \in Nat
    BY <1>1 DEF PollerTypeOK, Messages, Update
  <2> QED BY <2>2, <2>3, <2>4, <2>5
<1>9. RingInv'
  BY <1>3, <1>4, <1>6, <1>8 DEF RingInv, Listening
<1>10. NothingUnseen'
  BY <1>3, <1>6 DEF OneShotInv, NothingUnseen, Messages
<1> QED BY <1>2, <1>7, <1>9, <1>10 DEF OneShotInv

\* A round that fails leaves at most a report in the ring.
LEMMA FailsInv ==
  ASSUME OneShotInv, Fails
  PROVE  OneShotInv'
<1>1. /\ PollerInv /\ PollerTypeOK
      /\ loop \in {"requesting", "answered"}
      /\ unread = {} /\ missed = {}
  BY DEF Fails, RoundFails, FailedRound, RoundFatal, OneShotInv, PollerInv, RingInv
<1>2. PollerInv'
  BY <1>1, RoundInv DEF Fails
<1>3. /\ UNCHANGED <<arrived, confirmed, offset, delivered, dropped>>
      /\ loop' \in {"idle", "exited"}
  BY DEF Fails, RoundFails, FailedRound, RoundFatal, serverVars, deliveryVars
<1>4. /\ UNCHANGED <<op, missed, printed, announced, elsewhere, runs>>
      /\ \/ unread' = {}
         \/ unread' = {Err} /\ Listening
  <2>1. PICK says \in BOOLEAN : Reports(says)
    <3>1. (errors + 1 = Threshold) \in BOOLEAN
      OBVIOUS
    <3> QED BY <3>1, Zenon DEF Fails
  <2> QED BY <1>1, <2>1 DEF Reports
<1>5. Cardinality(unread') <= Capacity
  <2>1. Cardinality({}) = 0 /\ Cardinality({Err}) = 1
    BY FS_EmptySet, FS_Singleton
  <2> QED BY <1>4, <2>1, OneShotConstants
<1>6. OneShotTypeOK'
  <2>1. /\ printed \cup announced \cup elsewhere \subseteq delivered
        /\ op \in Ops \cup {"none", "leaving"} /\ runs \in 0 .. MaxRuns
        /\ unread' \subseteq 0 .. arrived
    BY <1>1, <1>4 DEF OneShotInv, OneShotTypeOK, PollerTypeOK, Err
  <2> QED
    BY <1>1, <1>2, <1>3, <1>4, <1>5, <2>1 DEF OneShotTypeOK, PollerInv, Listening
<1>7. RingInv'
  BY <1>1, <1>3, <1>4 DEF OneShotInv, RingInv, Seen, Listening
<1>8. NothingUnseen'
  BY <1>3, <1>4 DEF OneShotInv, NothingUnseen
<1> QED BY <1>2, <1>6, <1>7, <1>8 DEF OneShotInv

\* The end of a process takes the ring with it, and the cursor.
LEMMA LeaveInv ==
  ASSUME OneShotInv, Exit \/ Killed
  PROVE  OneShotInv'
<1>1. /\ Renew /\ Leaves /\ faults' \in 0 .. MaxFaults
  BY PollerConstants
     DEF Exit, Killed, Restart, Fault, OneShotInv, PollerInv, PollerTypeOK
<1>2. PollerInv'
  BY <1>1, RenewInv DEF OneShotInv
<1>3. /\ UNCHANGED <<arrived, confirmed, dropped>> /\ offset' = 0
      /\ delivered \subseteq delivered'
      /\ op' = "none" /\ unread' = {} /\ missed' = {}
      /\ UNCHANGED <<printed, announced, elsewhere, runs>>
  BY <1>1 DEF Renew, Leaves, serverVars
<1>4. OneShotTypeOK'
  <2>1. Cardinality(unread') <= Capacity
    BY <1>3, FS_EmptySet, OneShotConstants
  <2> QED
    BY <1>2, <1>3, <2>1 DEF OneShotInv, OneShotTypeOK, PollerInv
<1>5. RingInv'
  BY <1>3 DEF RingInv, Messages, Update
<1>6. NothingUnseen'
  BY <1>3 DEF OneShotInv, NothingUnseen
<1> QED BY <1>2, <1>4, <1>5, <1>6 DEF OneShotInv

\* The invariant holds in every reachable state.
THEOREM OneShotInvHolds == OneShotSpec => []OneShotInv
<1>1. OneShotInv /\ [OneShotNext]_oneShotVars => OneShotInv'
  <2> SUFFICES ASSUME OneShotInv, [OneShotNext]_oneShotVars PROVE OneShotInv'
    OBVIOUS
  <2>1. CASE OneShotNext
    BY <2>1, LoopQuietly, CommandQuietly, ListenerInv, SinkInv, FailsInv, LeaveInv
       DEF OneShotNext, LoopStep
  <2>2. CASE UNCHANGED oneShotVars
    <3>1. /\ UNCHANGED <<arrived, confirmed, offset, loop, batch, errors, handle,
                         shutdown, dispatched, delivered, dropped, told, faults>>
          /\ UNCHANGED <<op, unread, missed, printed, announced, elsewhere, runs>>
      BY <2>2 DEF oneShotVars, pollerVars, commandVars, listenVars, serverVars,
                  taskVars, deliveryVars
    <3>2. PollerInv'
      BY <3>1 DEF OneShotInv, PollerInv, PollerTypeOK, CursorInv, BatchInv,
                  NothingLost, HostTold
    <3> QED
      BY <3>1, <3>2
         DEF OneShotInv, OneShotTypeOK, PollerInv, RingInv, NothingUnseen, Seen,
             Listening
  <2> QED BY <2>1, <2>2
<1> QED BY OneShotInitInv, <1>1, PTL DEF OneShotSpec

\* Every variable keeps its type, and a listener's ring its capacity.
THEOREM OneShotTypeCorrect == OneShotSpec => []OneShotTypeOK
  BY OneShotInvHolds, PTL DEF OneShotInv

\* What Telegram has forgotten was printed, announced, taken by a command that
\* shows no events, or lost to a panic of the sink.
THEOREM NothingUnseenHolds == OneShotSpec => []NothingUnseen
  BY OneShotInvHolds, PTL DEF OneShotInv

\* In every process messages come once and in order, and a connection that is
\* dead has been reported.
THEOREM ProcessesKeepOrder == OneShotSpec => [](InOrderOnce /\ HostTold)
<1>1. OneShotInv => InOrderOnce /\ HostTold
  BY BatchIsNew DEF OneShotInv, PollerInv
<1> QED BY <1>1, OneShotInvHolds, PTL
=============================================================================
