------------------------ MODULE EmbeddedHandle_proofs ------------------------
(***************************************************************************)
(* The FFI handle and the event bus it stands on, for every number of      *)
(* threads, messages, subscriptions and cached keys: whom publish calls,   *)
(* what the deduplication lets pass, and what the poll queue keeps.        *)
(***************************************************************************)
EXTENDS EmbeddedHandle, Sublists_proofs, FiniteSetTheorems

-----------------------------------------------------------------------------
(* The poll queue.                                                         *)

\* The queue holds the newest pushes, numbered without a gap, and every older
\* one has been polled or lost.
QueueInv ==
  /\ pushes \in Nat
  /\ DOMAIN pending = 1 .. Len(pending)
  /\ Len(pending) \in 0 .. QueueMax
  /\ Len(pending) <= pushes
  /\ \E S : pending \in Seq(S)
  /\ \A i \in 1 .. Len(pending) : pending[i].n = pushes - Len(pending) + i
  /\ polled \cup lost \subseteq 1 .. pushes - Len(pending)
  /\ polled \cap lost = {}
  /\ \A n \in lost : n + QueueMax <= pushes
  /\ handle # "freed" => polled \cup lost = 1 .. pushes - Len(pending)

\* Nobody is inside a call on a handle that is freed.
FreedInv ==
  /\ host \in [Thread -> {"out", "init", "network"}]
  /\ handle = "freed" => \A t \in Thread : host[t] = "out"

\* Pushing keeps the invariant: what makes room is the oldest.
LEMMA PushInv ==
  ASSUME QueueInv, NEW m, Push(m), handle' = handle
  PROVE  QueueInv'
<1> DEFINE queue == Append(pending, [n |-> pushes + 1, msg |-> m])
<1>0. QueueMax \in Nat \ {0}
  BY HandleConstants
<1>1. PICK S : pending \in Seq(S)
  BY DEF QueueInv
<1> DEFINE T == S \cup {[n |-> pushes + 1, msg |-> m]}
<1>2. /\ pushes \in Nat /\ Len(pending) \in 0 .. QueueMax /\ Len(pending) <= pushes
      /\ \A i \in 1 .. Len(pending) : pending[i].n = pushes - Len(pending) + i
  BY DEF QueueInv
<1>3. /\ queue \in Seq(T) /\ Len(queue) = Len(pending) + 1
      /\ \A i \in 1 .. Len(pending) : queue[i] = pending[i]
      /\ queue[Len(pending) + 1] = [n |-> pushes + 1, msg |-> m]
  <2>1. pending \in Seq(T)
    BY <1>1
  <2> QED BY <2>1
<1>4. \A i \in 1 .. Len(queue) : queue[i].n = pushes - Len(pending) + i
  BY <1>2, <1>3
<1>5. pushes' = pushes + 1 /\ polled' = polled
  BY DEF Push, PushKeeping, Pushed
<1>6. pending' = IF Len(queue) > QueueMax
                 THEN SubSeq(queue, Len(queue) - QueueMax + 1, Len(queue)) ELSE queue
  BY DEF Push, PushKeeping, Pushed
<1>7. lost' = lost \cup ({queue[i].n : i \in DOMAIN queue}
                          \ {pending'[i].n : i \in DOMAIN pending'})
  BY DEF Push, PushKeeping, Pushed
<1> HIDE DEF queue, T
<1>8. DOMAIN queue = 1 .. Len(queue)
  BY <1>3
<1>9. CASE Len(pending) < QueueMax
  <2>1. pending' = queue
    BY <1>0, <1>2, <1>3, <1>9, <1>6
  <2>2. lost' = lost
    BY <1>7, <2>1
  <2>3. Len(pending') \in 0 .. QueueMax /\ pushes' - Len(pending') = pushes - Len(pending)
    BY <1>0, <1>2, <1>3, <1>5, <1>9, <2>1
  <2>4. \A i \in 1 .. Len(pending') : pending'[i].n = pushes' - Len(pending') + i
    BY <1>4, <2>1, <2>3
  <2>5. \A n \in lost' : n + QueueMax <= pushes'
    <3>1. \A n \in lost : n \in Nat /\ n + QueueMax <= pushes
      BY <1>2 DEF QueueInv
    <3> QED BY <1>0, <1>2, <1>5, <2>2, <3>1
  <2>6. /\ polled' \cup lost' \subseteq 1 .. pushes' - Len(pending')
        /\ polled' \cap lost' = {}
        /\ handle' # "freed" => polled' \cup lost' = 1 .. pushes' - Len(pending')
    BY <1>5, <2>2, <2>3 DEF QueueInv
  <2>7. pushes' \in Nat /\ Len(pending') <= pushes'
    BY <1>2, <1>3, <1>5, <2>1
  <2> QED BY <1>3, <1>8, <2>1, <2>3, <2>4, <2>5, <2>6, <2>7 DEF QueueInv
<1>10. CASE Len(pending) = QueueMax
  <2>1. pending' = SubSeq(queue, 2, Len(queue)) /\ Len(queue) = QueueMax + 1
    <3> DEFINE k == Len(queue)
    <3>1. k = QueueMax + 1 /\ QueueMax \in Nat
      BY <1>0, <1>3, <1>10
    <3>2. pending' = IF k > QueueMax THEN SubSeq(queue, k - QueueMax + 1, k) ELSE queue
      BY <1>6
    <3> HIDE DEF k
    <3>3. k > QueueMax /\ k - QueueMax + 1 = 2
      BY <3>1
    <3>4. pending' = SubSeq(queue, 2, k)
      BY <3>2, <3>3
    <3> QED BY <3>1, <3>4 DEF k
  <2>2. /\ pending' \in Seq(T) /\ Len(pending') = QueueMax
        /\ \A i \in 1 .. QueueMax : pending'[i] = queue[i + 1]
    BY <1>0, <1>3, <2>1
  <2>3. DOMAIN pending' = 1 .. QueueMax
    BY <2>2
  <2>4. \A i \in 1 .. QueueMax : pending'[i].n = pushes' - QueueMax + i
    <3> SUFFICES ASSUME NEW i \in 1 .. QueueMax
                 PROVE  pending'[i].n = pushes' - QueueMax + i
      OBVIOUS
    <3>1. pending'[i] = queue[i + 1] /\ i + 1 \in 1 .. Len(queue)
      BY <1>0, <2>1, <2>2
    <3>2. queue[i + 1].n = pushes - QueueMax + (i + 1)
      BY <1>4, <1>10, <3>1
    <3> QED BY <1>0, <1>2, <1>5, <3>1, <3>2
  <2>5. {pending'[i].n : i \in DOMAIN pending'} = pushes' - QueueMax + 1 .. pushes'
    <3>1. \A k \in pushes' - QueueMax + 1 .. pushes' :
            k - (pushes' - QueueMax) \in 1 .. QueueMax
            /\ pending'[k - (pushes' - QueueMax)].n = k
      BY <1>0, <1>2, <1>5, <2>4
    <3>2. \A i \in 1 .. QueueMax : pending'[i].n \in pushes' - QueueMax + 1 .. pushes'
      BY <1>0, <1>2, <1>5, <2>4
    <3> QED BY <2>3, <3>1, <3>2
  <2>6. {queue[i].n : i \in DOMAIN queue} = pushes - QueueMax + 1 .. pushes + 1
    <3>1. \A k \in pushes - QueueMax + 1 .. pushes + 1 :
            k - (pushes - QueueMax) \in 1 .. Len(queue)
            /\ queue[k - (pushes - QueueMax)].n = k
      BY <1>0, <1>2, <1>4, <1>10, <2>1
    <3>2. \A i \in 1 .. Len(queue) : queue[i].n \in pushes - QueueMax + 1 .. pushes + 1
      BY <1>0, <1>2, <1>4, <1>10, <2>1
    <3> QED BY <1>8, <3>1, <3>2
  <2>7. lost' = lost \cup {pushes - QueueMax + 1}
    <3>1. (pushes - QueueMax + 1 .. pushes + 1) \ (pushes' - QueueMax + 1 .. pushes')
            = {pushes - QueueMax + 1}
      BY <1>0, <1>2, <1>5, <1>10
    <3> QED BY <1>7, <2>5, <2>6, <3>1
  <2>8. /\ polled' \cup lost' \subseteq 1 .. pushes' - QueueMax
        /\ polled' \cap lost' = {}
        /\ \A n \in lost' : n + QueueMax <= pushes'
        /\ handle' # "freed" => polled' \cup lost' = 1 .. pushes' - QueueMax
    <3>1. /\ polled \cup lost \subseteq 1 .. pushes - QueueMax
          /\ polled \cap lost = {}
          /\ \A n \in lost : n \in Nat /\ n + QueueMax <= pushes
          /\ handle # "freed" => polled \cup lost = 1 .. pushes - QueueMax
      BY <1>0, <1>2, <1>10 DEF QueueInv
    <3>2. 1 .. pushes' - QueueMax = (1 .. pushes - QueueMax) \cup {pushes - QueueMax + 1}
      BY <1>0, <1>2, <1>5, <1>10
    <3>3. \A n \in lost' : n + QueueMax <= pushes'
      BY <1>0, <1>2, <1>5, <2>7, <3>1
    <3>4. pushes - QueueMax + 1 \notin 1 .. pushes - QueueMax
      BY <1>0, <1>2, <1>10
    <3> QED BY <1>5, <2>7, <3>1, <3>2, <3>3, <3>4
  <2>9. pushes' \in Nat /\ QueueMax \in 0 .. QueueMax /\ QueueMax <= pushes'
    BY <1>0, <1>2, <1>5, <1>10
  <2>10. \E R : pending' \in Seq(R)
    BY <2>2
  <2>11. /\ DOMAIN pending' = 1 .. Len(pending')
         /\ Len(pending') \in 0 .. QueueMax /\ Len(pending') <= pushes'
         /\ \A i \in 1 .. Len(pending') : pending'[i].n = pushes' - Len(pending') + i
    BY <2>2, <2>3, <2>4, <2>9
  <2>12. /\ polled' \cup lost' \subseteq 1 .. pushes' - Len(pending')
         /\ polled' \cap lost' = {}
         /\ \A n \in lost' : n + QueueMax <= pushes'
         /\ handle' # "freed" => polled' \cup lost' = 1 .. pushes' - Len(pending')
    BY <2>2, <2>8
  <2> QED BY <2>9, <2>10, <2>11, <2>12 DEF QueueInv
<1> QED BY <1>0, <1>2, <1>9, <1>10

\* pc_poll takes the oldest.
LEMMA PollInv == ASSUME QueueInv, Poll PROVE QueueInv'
<1>1. PICK S : pending \in Seq(S)
  BY DEF QueueInv
<1>2. /\ pending # <<>> /\ polled' = polled \cup {pending[1].n}
      /\ pending' = Tail(pending)
      /\ UNCHANGED <<handle, pushes, lost>>
  BY <1>1 DEF Poll, setupVars
<1>3. /\ pending' \in Seq(S) /\ Len(pending') = Len(pending) - 1 /\ Len(pending) \in Nat \ {0}
      /\ \A i \in 1 .. Len(pending) - 1 : pending'[i] = pending[i + 1]
  BY <1>1, <1>2
<1>4. DOMAIN pending' = 1 .. Len(pending')
  BY <1>3
<1>5. /\ pushes \in Nat /\ Len(pending) <= pushes
      /\ \A i \in 1 .. Len(pending) : pending[i].n = pushes - Len(pending) + i
  BY DEF QueueInv
<1>6. pending[1].n = pushes - Len(pending) + 1
  BY <1>3, <1>5
<1>7. \A i \in 1 .. Len(pending') : pending'[i].n = pushes - Len(pending') + i
  BY SMTT(20), <1>3, <1>5
<1>8. pushes - Len(pending') = pushes - Len(pending) + 1
  BY <1>3, <1>5
<1>9. /\ polled' \cup lost' \subseteq 1 .. pushes - Len(pending')
      /\ polled' \cap lost' = {}
      /\ handle # "freed" => polled' \cup lost' = 1 .. pushes - Len(pending')
  BY <1>2, <1>3, <1>5, <1>6, <1>8 DEF QueueInv
<1>10. Len(pending') \in 0 .. QueueMax /\ Len(pending') <= pushes
  BY <1>3, <1>5, HandleConstants DEF QueueInv
<1> QED BY <1>2, <1>3, <1>4, <1>5, <1>7, <1>9, <1>10 DEF QueueInv

\* No other call touches the queue, and no handle comes back from pc_free.
LEMMA OtherCalls ==
  ASSUME FreedInv, [HandleNext]_handleVars
  PROVE  \/ UNCHANGED queueVars /\ (handle = "freed" => handle' = "freed")
         \/ handle' = handle /\ \E m : Push(m)
         \/ Poll
         \/ Free
<1> DEFINE Leaves == UNCHANGED queueVars /\ (handle = "freed" => handle' = "freed")
           Pushes == handle' = handle /\ \E m : Push(m)
<1>1. ASSUME NEW t \in Thread, New(t) PROVE Leaves
  BY <1>1 DEF New, queueVars
<1>2. ASSUME NEW t \in Thread, Proceed(t) PROVE Leaves \/ Pushes
  <2>1. ASSUME NEW p \in Channel, StartProvider(t, p) PROVE Leaves
    BY <2>1 DEF StartProvider
  <2>2. CASE CallBack(t)
    BY <2>2 DEF CallBack, setupVars
  <2>3. CASE NewEnd(t)
    BY <2>3 DEF NewEnd, FreedInv
  <2>4. CASE TakeCore(t) \/ SendEnd(t)
    BY <2>4 DEF TakeCore, SendEnd, setupVars
  <2>5. ASSUME NEW m \in Feed, Inbound(t, m) PROVE Leaves
    BY <2>5 DEF Inbound, setupVars
  <2>6. CASE Quietly(Snapshot(t)) \/ Quietly(Return(t))
    BY <2>6 DEF Quietly, setupVars
  <2> QED BY <1>2, <2>1, <2>2, <2>3, <2>4, <2>5, <2>6 DEF Proceed
<1>3. ASSUME NEW t \in Thread, NEW p \in Channel, NEW room \in Room,
             SendDemo(t, p, room) \/ SendNetwork(t, p, room)
      PROVE  Leaves
  BY <1>3 DEF SendDemo, SendNetwork, setupVars
<1>4. ASSUME NEW t \in Thread, NEW m \in Feed, Bridge(t, m) PROVE Leaves
  BY <1>4 DEF Bridge, setupVars
<1>5. ASSUME NEW A, OnTheBus(A) PROVE Leaves
  BY <1>5 DEF OnTheBus, Quietly, setupVars
<1>8. UNCHANGED handleVars => Leaves
  BY DEF handleVars, setupVars
<1> HIDE DEF Leaves, Pushes
<1>9. Leaves \/ Pushes \/ Poll \/ Free
  BY <1>1, <1>2, <1>3, <1>4, <1>5, <1>8 DEF HandleNext
<1> QED BY <1>9 DEF Leaves, Pushes

\* pc_free waits for the calls, and no call begins after it.
LEMMA FreedAlone == ASSUME FreedInv, [HandleNext]_handleVars PROVE FreedInv'
<1> USE DEF FreedInv
<1> DEFINE Leaves == UNCHANGED <<handle, host>>
<1>1. ASSUME NEW t \in Thread, New(t) PROVE FreedInv'
  BY <1>1 DEF New, threadVars
<1>2. ASSUME NEW t \in Thread, Proceed(t) PROVE FreedInv'
  <2>1. ASSUME NEW p \in Channel, StartProvider(t, p) PROVE Leaves
    BY <2>1 DEF StartProvider, threadVars
  <2>2. CASE CallBack(t) \/ Quietly(Snapshot(t)) \/ Quietly(Return(t))
    BY <2>2 DEF CallBack, Quietly, setupVars, threadVars
  <2>3. CASE NewEnd(t)
    BY <2>3 DEF NewEnd, Leave
  <2>4. CASE SendEnd(t)
    BY <2>4 DEF SendEnd, Leave, setupVars
  <2>5. CASE TakeCore(t)
    BY <2>5 DEF TakeCore, setupVars
  <2>6. ASSUME NEW m \in Feed, Inbound(t, m) PROVE Leaves
    BY <2>6 DEF Inbound, setupVars, threadVars
  <2> QED BY <1>2, <2>1, <2>2, <2>3, <2>4, <2>5, <2>6 DEF Proceed
<1>3. ASSUME NEW t \in Thread, NEW p \in Channel, NEW room \in Room, SendDemo(t, p, room)
      PROVE  Leaves
  BY <1>3 DEF SendDemo, setupVars, threadVars
<1>4. ASSUME NEW t \in Thread, NEW p \in Channel, NEW room \in Room, SendNetwork(t, p, room)
      PROVE  FreedInv'
  BY <1>4 DEF SendNetwork, Sends, Calls, setupVars
<1>5. ASSUME NEW t \in Thread, NEW m \in Feed, Bridge(t, m) PROVE Leaves
  BY <1>5 DEF Bridge, setupVars, threadVars
<1>6. ASSUME NEW A, OnTheBus(A) PROVE Leaves
  BY <1>6 DEF OnTheBus, Quietly, setupVars, threadVars
<1>8. CASE Poll
  BY <1>8 DEF Poll, setupVars, threadVars
<1>9. CASE Free
  BY <1>9 DEF Free, threadVars
<1>10. CASE UNCHANGED handleVars
  BY <1>10 DEF handleVars, setupVars, threadVars
<1> QED
  BY <1>1, <1>2, <1>3, <1>4, <1>5, <1>6, <1>8, <1>9, <1>10 DEF HandleNext

\* The invariant of the queue holds of every handle.
THEOREM QueueInvHolds == HandleSpec => [](QueueInv /\ FreedInv)
<1>1. HandleInit => QueueInv /\ FreedInv
  <2> SUFFICES ASSUME HandleInit PROVE QueueInv /\ FreedInv
    OBVIOUS
  <2>1. pending = <<>> /\ pushes = 0 /\ polled = {} /\ lost = {}
    BY DEF HandleInit
  <2>2. pending \in Seq({}) /\ Len(pending) = 0
    BY <2>1
  <2>3. FreedInv
    BY DEF HandleInit, FreedInv
  <2> QED BY <2>1, <2>2, <2>3, HandleConstants DEF QueueInv
<1>2. QueueInv /\ FreedInv /\ [HandleNext]_handleVars => QueueInv' /\ FreedInv'
  <2> SUFFICES ASSUME QueueInv, FreedInv, [HandleNext]_handleVars
               PROVE  QueueInv' /\ FreedInv'
    OBVIOUS
  <2>1. FreedInv'
    BY FreedAlone
  <2>2. CASE UNCHANGED queueVars /\ (handle = "freed" => handle' = "freed")
    <3>1. /\ UNCHANGED <<pending, pushes, polled, lost>>
          /\ handle' # "freed" => handle # "freed"
      BY <2>2 DEF queueVars
    <3>2. \E S : pending' \in Seq(S)
      BY <3>1 DEF QueueInv
    <3> QED BY <2>1, <3>1, <3>2 DEF QueueInv
  <2>3. CASE Free
    <3>1. pending' = <<>> /\ handle' = "freed" /\ UNCHANGED <<pushes, polled, lost>>
      BY <2>3 DEF Free
    <3>2. pending' \in Seq({}) /\ Len(pending') = 0 /\ DOMAIN pending' = 1 .. 0
      BY <3>1
    <3>3. polled \cup lost \subseteq 1 .. pushes
      BY DEF QueueInv
    <3>4. \E S : pending' \in Seq(S)
      BY <3>2
    <3>5. /\ pushes' \in Nat /\ Len(pending') \in 0 .. QueueMax /\ Len(pending') <= pushes'
          /\ \A i \in 1 .. Len(pending') : pending'[i].n = pushes' - Len(pending') + i
      BY <3>1, <3>2, HandleConstants DEF QueueInv
    <3>6. /\ polled' \cup lost' \subseteq 1 .. pushes' - Len(pending')
          /\ polled' \cap lost' = {}
          /\ \A n \in lost' : n + QueueMax <= pushes'
      BY <3>1, <3>2, <3>3 DEF QueueInv
    <3> QED BY <2>1, <3>1, <3>2, <3>4, <3>5, <3>6 DEF QueueInv
  <2> QED BY <2>2, <2>3, <2>1, PushInv, PollInv, OtherCalls
<1> QED BY <1>1, <1>2, PTL DEF HandleSpec

\* pc_poll gets every push in order, except the oldest beyond the capacity.
THEOREM OldestLostHolds == HandleSpec => []OldestLost
<1>1. QueueInv => OldestLost
  <2> SUFFICES ASSUME QueueInv PROVE OldestLost
    OBVIOUS
  <2>1. /\ pushes \in Nat /\ Len(pending) \in 0 .. QueueMax /\ Len(pending) <= pushes
        /\ DOMAIN pending = 1 .. Len(pending)
        /\ \A i \in 1 .. Len(pending) : pending[i].n = pushes - Len(pending) + i
        /\ polled \cup lost \subseteq 1 .. pushes - Len(pending)
    BY DEF QueueInv
  <2>2. \A i, j \in DOMAIN pending : i < j => pending[i].n < pending[j].n
    BY <2>1
  <2>3. \A n \in polled \cup lost, i \in DOMAIN pending : n < pending[i].n
    BY <2>1
  <2>4. Numbers = pushes - Len(pending) + 1 .. pushes
    <3>1. \A k \in pushes - Len(pending) + 1 .. pushes :
            /\ k - (pushes - Len(pending)) \in 1 .. Len(pending)
            /\ pending[k - (pushes - Len(pending))].n = k
      BY <2>1
    <3>2. \A i \in 1 .. Len(pending) : pending[i].n \in pushes - Len(pending) + 1 .. pushes
      BY <2>1
    <3> QED BY <2>1, <3>1, <3>2 DEF Numbers
  <2>5. handle = "up" => 1 .. pushes = polled \cup lost \cup Numbers
    BY <2>1, <2>4 DEF QueueInv
  <2> QED BY <2>2, <2>3, <2>5 DEF QueueInv, OldestLost
<1> QED BY <1>1, QueueInvHolds, PTL

-----------------------------------------------------------------------------
(* Whom publish calls.                                                     *)

Subscription ==
  [id : Nat \ {0}, filter : Filter, sink : {"queue", "host"}, nth : Nat \ {0}]

Publication ==
  [phase : {"passed", "calling"}, msg : Message, wanted : SUBSET Nat, before : Nat,
   todo : Seq(Subscription), called : Seq(Nat)]

\* The subscriptions in force are those whose handles are held, in the order of
\* their pushes, which need not be that of their ids.
SubscribersInv ==
  /\ joined \in Nat
  /\ subscribers \in Seq(Subscription)
  /\ Range(subscribers) = held
  /\ \A i, j \in DOMAIN subscribers : i < j => subscribers[i].nth < subscribers[j].nth
  /\ \A s \in held : s.nth <= joined

\* An id is handed out once, to a call of subscribe that is still to push or to a
\* handle that is held: what a handle removes is its own subscription only.
IdsInv ==
  /\ made \in Nat
  /\ taken \subseteq [id : 1 .. made, filter : Filter, sink : {"queue", "host"}]
  /\ \A s \in held : s.id \in 1 .. made
  /\ \A s, r \in held : s.id = r.id => s = r
  /\ \A s, r \in taken : s.id = r.id => s = r
  /\ \A s \in held, r \in taken : s.id # r.id

Nths(s) == {s[i].nth : i \in DOMAIN s}

\* What is still to be called is newer than what has been; together they are the
\* callbacks wanted when the message had passed, but for those removed since, and
\* at most some that were added.
Passed(t) ==
  LET call == publish[t]
  IN /\ call.called = <<>>
     /\ Wanted(call.msg) \subseteq call.wanted \cup (call.before + 1 .. joined)

Calling(t) ==
  LET call == publish[t]
      due  == Range(call.called) \cup Nths(call.todo)
  IN /\ \A i, j \in DOMAIN call.called : i < j => call.called[i] < call.called[j]
     /\ \A i, j \in DOMAIN call.todo : i < j => call.todo[i].nth < call.todo[j].nth
     /\ \A i \in DOMAIN call.called, j \in DOMAIN call.todo : call.called[i] < call.todo[j].nth
     /\ due \subseteq call.wanted \cup (call.before + 1 .. joined)
     /\ call.wanted \cap Wanted(call.msg) \subseteq due

CallInv(t) ==
  publish[t].phase # "idle" =>
    /\ publish[t].wanted \subseteq 1 .. publish[t].before
    /\ publish[t].before <= joined
    /\ publish[t].phase = "passed" => Passed(t)
    /\ publish[t].phase = "calling" => Calling(t)

FanInv ==
  /\ SubscribersInv
  /\ IdsInv
  /\ publish \in [Thread -> {Idle} \cup Publication]
  /\ \A t \in Thread : CallInv(t)

\* What is kept of a sequence are its elements in the set, in their order.
LEMMA KeptElements ==
  ASSUME NEW S, NEW s \in Seq(S), NEW U, NEW f,
         \A i, j \in 1 .. Len(s) : i < j => f[s[i]] < f[s[j]]
  PROVE  LET k == Kept(s, U)
         IN /\ k \in Seq(S)
            /\ Range(k) = Range(s) \cap U
            /\ \A i, j \in 1 .. Len(k) : i < j => f[k[i]] < f[k[j]]
<1> DEFINE k == Kept(s, U)
<1>1. k \in Seq(S)
  BY KeptIsSublist
<1>2. PICK h : Places(h, k, s, U)
  BY KeptIsSublist
<1> HIDE DEF k
<1>3. DOMAIN k = 1 .. Len(k) /\ DOMAIN s = 1 .. Len(s) /\ Len(k) \in Nat /\ Len(s) \in Nat
  BY <1>1, LenProperties
<1>4. Range(k) \subseteq Range(s) \cap U
  <2> SUFFICES ASSUME NEW i \in 1 .. Len(k) PROVE k[i] \in Range(s) \cap U
    BY <1>3 DEF Range
  <2>1. k[i] = s[h[i]] /\ k[i] \in U /\ h[i] \in 1 .. Len(s)
    BY <1>2 DEF Places
  <2> QED BY <1>3, <2>1 DEF Range
<1>5. Range(s) \cap U \subseteq Range(k)
  <2> SUFFICES ASSUME NEW p \in 1 .. Len(s), s[p] \in U PROVE s[p] \in Range(k)
    BY <1>3 DEF Range
  <2>1. PICK i \in 1 .. Len(k) : h[i] = p
    BY <1>2 DEF Places
  <2>2. k[i] = s[p]
    BY <1>2, <2>1 DEF Places
  <2> QED BY <1>3, <2>1, <2>2 DEF Range
<1>6. \A i, j \in 1 .. Len(k) : i < j => f[k[i]] < f[k[j]]
  <2> SUFFICES ASSUME NEW i \in 1 .. Len(k), NEW j \in 1 .. Len(k), i < j PROVE f[k[i]] < f[k[j]]
    OBVIOUS
  <2>1. /\ h[i] \in 1 .. Len(s) /\ h[j] \in 1 .. Len(s) /\ h[i] < h[j]
        /\ k[i] = s[h[i]] /\ k[j] = s[h[j]]
    BY <1>2 DEF Places
  <2> QED BY <2>1
<1> QED BY <1>1, <1>4, <1>5, <1>6 DEF k

\* The same for subscriptions in the order of their pushes.
LEMMA KeptSubscriptions ==
  ASSUME SubscribersInv, NEW U
  PROVE  LET k == Kept(subscribers, U)
         IN /\ k \in Seq(Subscription)
            /\ Range(k) = held \cap U
            /\ \A i, j \in DOMAIN k : i < j => k[i].nth < k[j].nth
<1> DEFINE s == subscribers
           f == [x \in Subscription |-> x.nth]
           k == Kept(s, U)
<1>1. s \in Seq(Subscription) /\ DOMAIN s = 1 .. Len(s) /\ \A i \in 1 .. Len(s) : s[i] \in Subscription
  BY LenProperties, ElementOfSeq DEF SubscribersInv
<1>2. \A i, j \in 1 .. Len(s) : i < j => f[s[i]] < f[s[j]]
  BY <1>1 DEF SubscribersInv
<1> HIDE DEF f
<1>3. /\ k \in Seq(Subscription) /\ Range(k) = Range(s) \cap U
      /\ \A i, j \in 1 .. Len(k) : i < j => f[k[i]] < f[k[j]]
  BY <1>1, <1>2, KeptElements
<1> HIDE DEF k
<1>4. DOMAIN k = 1 .. Len(k) /\ \A i \in 1 .. Len(k) : k[i] \in Subscription
  BY <1>3, LenProperties, ElementOfSeq
<1>5. \A i, j \in DOMAIN k : i < j => k[i].nth < k[j].nth
  BY <1>3, <1>4 DEF f
<1> QED BY <1>3, <1>5 DEF SubscribersInv, k

\* What others do to the subscriptions leaves a call as it stood: those added are
\* newer than all it knows of.
LEMMA CallStays ==
  ASSUME FanInv, NEW t \in Thread, publish'[t] = publish[t],
         joined' \in Nat, joined <= joined',
         \A s \in held' : s \in held \/ s.nth \in joined + 1 .. joined'
  PROVE  CallInv(t)'
<1> DEFINE call == publish[t]
<1> SUFFICES ASSUME call.phase # "idle" PROVE CallInv(t)'
  BY DEF CallInv
<1>1. call \in Publication /\ joined \in Nat /\ CallInv(t)
  BY DEF FanInv, SubscribersInv, Idle
<1>2. call.wanted \subseteq 1 .. call.before /\ call.before <= joined /\ call.before \in Nat
  BY <1>1 DEF CallInv, Publication
<1>3. Wanted(call.msg)' \subseteq Wanted(call.msg) \cup (joined + 1 .. joined')
  BY <1>1 DEF Wanted
<1>4. call.before + 1 .. joined \subseteq call.before + 1 .. joined'
      /\ joined + 1 .. joined' \subseteq call.before + 1 .. joined'
      /\ call.wanted \cap (joined + 1 .. joined') = {}
  BY <1>1, <1>2
<1>5. CASE call.phase = "passed"
  <2>1. Passed(t)
    BY <1>1, <1>5 DEF CallInv
  <2>2. Passed(t)'
    BY <1>3, <1>4, <2>1 DEF Passed
  <2> QED BY <1>2, <1>5, <2>2, <1>1 DEF CallInv
<1>6. CASE call.phase = "calling"
  <2>1. Calling(t)
    BY <1>1, <1>6 DEF CallInv
  <2>2. Calling(t)'
    BY <1>3, <1>4, <2>1 DEF Calling
  <2> QED BY <1>2, <1>6, <2>2, <1>1 DEF CallInv
<1> QED BY <1>1, <1>5, <1>6 DEF Publication

-----------------------------------------------------------------------------
(* What a step of the handle is to its event bus.                          *)

\* Providers are started while the handle is made, and run until it is freed.
SetupInv ==
  /\ handle \in {"none", "init", "up", "freed"}
  /\ client \in BOOLEAN
  /\ starting \cup running \subseteq registered
  /\ handle # "init" => starting = {}
  /\ handle = "none" => running = {}
  /\ host \in [Thread -> {"out", "init", "network"}]
  /\ core \in Thread \cup {NoThread}
  /\ core # NoThread => host[core] \in {"init", "network"}
  /\ seq \in Nat
  /\ passes \in 0 .. MaxPasses
  /\ seq <= passes
  /\ waiting \subseteq Feed
  /\ pushes \in Nat
  /\ pending \in Seq([n : 1 .. pushes, msg : Message])

BusFreed ==
  /\ \A t \in Thread : IsIdle(t)
  /\ subscribers' = <<>>
  /\ held' = {}
  /\ UNCHANGED <<dedupVars, plugins, made, taken, joined, publish, passes>>

BusNext ==
  \/ \E t \in Thread, m \in Message : Chain(t, m)
  \/ \E t \in Thread : Snapshot(t) \/ Call(t) \/ Return(t)
  \/ \E filter \in Filter, sink \in {"queue", "host"} :
       SubscribeAlone(filter, sink) \/ TakeId(filter, sink)
  \/ \E s : Join(s)
  \/ \E s : Unsubscribe(s)
  \/ \E p : UsePlugin(p)
  \/ BusFreed

\* Each step is at most one of the bus, with a message or a filter of its types.
LEMMA BusSteps == ASSUME SetupInv, [HandleNext]_handleVars PROVE [BusNext]_busVars
<1>1. /\ Feed \subseteq Message /\ Filters \subseteq Filter /\ Demo \subseteq Channel
      /\ [channel |-> Whatever, room |-> Whatever] \in Filter
  BY HandleConstants DEF Filter
<1>2. ASSUME passes < MaxPasses, NEW p \in Channel, NEW room \in Room
      PROVE  [channel |-> p, id |-> seq, room |-> room] \in Message
  <2>1. seq \in 0 .. MaxPasses
    BY <1>2, BusConstants DEF SetupInv
  <2> QED BY <2>1 DEF Message
<1>3. ASSUME NEW t \in Thread, New(t) PROVE BusNext
  BY <1>1, <1>3 DEF New, BusNext
<1>4. ASSUME NEW t \in Thread, Proceed(t) PROVE [BusNext]_busVars
  <2>1. ASSUME NEW p \in Channel, StartProvider(t, p) PROVE [BusNext]_busVars
    <3>1. CASE p \in Demo
      <4> DEFINE m == [channel |-> p, id |-> seq, room |-> Lobby]
      <4>1. Chain(t, m)
        BY <2>1, <3>1 DEF StartProvider
      <4>2. m \in Message
        BY <1>2, <4>1, HandleConstants DEF Chain
      <4> HIDE DEF m
      <4> QED BY <4>1, <4>2 DEF BusNext
    <3>2. CASE p \notin Demo
      BY <2>1, <3>2 DEF StartProvider
    <3> QED BY <3>1, <3>2
  <2>2. CASE NewEnd(t) \/ TakeCore(t) \/ SendEnd(t)
    BY <2>2 DEF NewEnd, TakeCore, SendEnd
  <2>3. ASSUME NEW m \in Feed, Inbound(t, m) PROVE BusNext
    BY <1>1, <2>3 DEF Inbound, BusNext
  <2>4. CASE CallBack(t) \/ Quietly(Snapshot(t)) \/ Quietly(Return(t))
    BY <2>4 DEF CallBack, Quietly, BusNext
  <2> QED BY <1>4, <2>1, <2>2, <2>3, <2>4 DEF Proceed
<1>5. ASSUME NEW t \in Thread, NEW p \in Channel, NEW room \in Room, SendDemo(t, p, room)
      PROVE  BusNext
  <2> DEFINE m == [channel |-> p, id |-> seq, room |-> room]
  <2>1. Chain(t, m)
    BY <1>5 DEF SendDemo
  <2>2. m \in Message
    BY <1>2, <2>1 DEF Chain
  <2> HIDE DEF m
  <2> QED BY <2>1, <2>2 DEF BusNext
<1>6. ASSUME NEW t \in Thread, NEW p \in Channel, NEW room \in Room, SendNetwork(t, p, room)
      PROVE  UNCHANGED busVars
  BY <1>6 DEF SendNetwork
<1>7. ASSUME NEW t \in Thread, NEW m \in Feed, Bridge(t, m) PROVE BusNext
  BY <1>1, <1>7 DEF Bridge, BusNext
<1>8. ASSUME NEW filter \in Filters, OnTheBus(PcSubscribe(filter) \/ HostSubscribe(filter))
      PROVE  BusNext
  BY <1>1, <1>8 DEF OnTheBus, Quietly, PcSubscribe, HostSubscribe, BusNext
<1>9. ASSUME NEW s, OnTheBus(Join(s)) \/ OnTheBus(HostUnsubscribe(s)) PROVE BusNext
  BY <1>9 DEF OnTheBus, Quietly, HostUnsubscribe, BusNext
<1>10. CASE OnTheBus(HostPlugin)
  BY <1>10 DEF OnTheBus, Quietly, HostPlugin, BusNext
<1>11. CASE Free
  BY <1>11 DEF Free, BusFreed, BusNext
<1>12. CASE Poll \/ UNCHANGED handleVars
  BY <1>12 DEF Poll, handleVars
<1> QED
  BY <1>3, <1>4, <1>5, <1>6, <1>7, <1>8, <1>9, <1>10, <1>11, <1>12 DEF HandleNext

\* What the poll queue holds are numbered messages; a callback pushes what it is
\* called with.
LEMMA PendingTyped ==
  ASSUME SetupInv, NEW m \in Message, Push(m)
  PROVE  pushes' \in Nat /\ pending' \in Seq([n : 1 .. pushes', msg : Message])
<1> DEFINE P == [n : 1 .. pushes + 1, msg : Message]
           O == [n : 1 .. pushes, msg : Message]
           queue == Append(pending, [n |-> pushes + 1, msg |-> m])
<1>1. pushes \in Nat /\ QueueMax \in Nat \ {0} /\ pending \in Seq(O)
  BY HandleConstants DEF SetupInv
<1>2. O \subseteq P
  <2>1. 1 .. pushes \subseteq 1 .. pushes + 1
    BY <1>1
  <2> QED BY <2>1
<1>3. [n |-> pushes + 1, msg |-> m] \in P
  BY <1>1 DEF P
<1> HIDE DEF O, P
<1>4. pending \in Seq(P)
  BY <1>1, <1>2
<1>5. queue \in Seq(P) /\ Len(queue) = Len(pending) + 1 /\ Len(pending) \in Nat
  BY <1>3, <1>4
<1>6. /\ pushes' = pushes + 1
      /\ pending' = IF Len(queue) > QueueMax
                    THEN SubSeq(queue, Len(queue) - QueueMax + 1, Len(queue)) ELSE queue
  BY DEF Push, PushKeeping, Pushed
<1> HIDE DEF queue
<1>7. CASE Len(queue) > QueueMax
  <2> DEFINE k == Len(queue) - QueueMax + 1
  <2>1. k \in 1 .. Len(queue)
    BY <1>1, <1>5, <1>7
  <2>2. pending' = SubSeq(queue, k, Len(queue))
    BY <1>6, <1>7
  <2> HIDE DEF k
  <2>3. pending' \in Seq(P)
    BY <1>5, <2>1, <2>2
  <2> QED BY <1>1, <1>6, <2>3 DEF P
<1>8. CASE ~(Len(queue) > QueueMax)
  <2>1. pending' \in Seq(P)
    BY <1>5, <1>6, <1>8
  <2> QED BY <1>1, <1>6, <2>1 DEF P
<1> QED BY <1>7, <1>8

\* Starting, sending and leaving keep threads, runtime and providers in order.
LEMMA SetupStays ==
  ASSUME SetupInv, FanInv, [HandleNext]_handleVars
  PROVE  SetupInv'
<1> DEFINE Queue == UNCHANGED <<pending, pushes>>
           Same  == UNCHANGED <<handle, client, registered, starting, running, host, core>>
<1>1. /\ MaxPasses \in Nat /\ passes \in 0 .. MaxPasses /\ seq \in Nat /\ seq <= passes
  BY BusConstants DEF SetupInv
<1>2. ASSUME NEW t, NEW m, Chain(t, m)
      PROVE  passes' = passes + 1 /\ passes' \in 0 .. MaxPasses /\ seq + 1 <= passes'
  <2>1. passes < MaxPasses /\ passes' = passes + 1
    BY <1>2 DEF Chain
  <2> QED BY <1>1, <2>1
<1>3. ASSUME NEW t \in Thread, New(t) PROVE SetupInv'
  <2>1. /\ handle = "none" /\ starting' = registered' /\ client' \in BOOLEAN
        /\ client' = FALSE => registered' = {}
        /\ handle' \in {"init", "up"}
        /\ handle' = "up" => client' = FALSE
        /\ \/ host' = host /\ core' = core
           \/ host' = [host EXCEPT ![t] = "init"] /\ core' = t
        /\ UNCHANGED <<running, seq, waiting, pending, pushes, passes>>
    BY <1>3 DEF New, SubscribeAlone, Joins, threadVars, feedVars, queueVars
  <2>2. /\ host' \in [Thread -> {"out", "init", "network"}] /\ core' \in Thread \cup {NoThread}
        /\ core' # NoThread => host'[core'] \in {"init", "network"}
    BY <2>1 DEF SetupInv
  <2> QED BY <2>1, <2>2 DEF SetupInv
<1>4. ASSUME NEW t \in Thread, Proceed(t) PROVE SetupInv'
  <2>1. ASSUME NEW p \in Channel, StartProvider(t, p) PROVE SetupInv'
    <3>1. /\ p \in starting /\ starting' = starting \ {p} /\ running' \subseteq running \cup {p}
          /\ UNCHANGED <<handle, client, registered, host, core, waiting, pending, pushes>>
      BY <2>1 DEF StartProvider, threadVars, queueVars
    <3>2. seq' \in Nat /\ passes' \in 0 .. MaxPasses /\ seq' <= passes'
      <4>1. CASE p \in Demo
        <5>1. Chain(t, [channel |-> p, id |-> seq, room |-> Lobby]) /\ seq' = seq + 1
          BY <2>1, <4>1 DEF StartProvider
        <5> HIDE DEF SetupInv
        <5> QED BY <1>1, <1>2, <5>1
      <4>2. CASE p \notin Demo
        BY <1>1, <2>1, <4>2 DEF StartProvider, busVars
      <4> QED BY <4>1, <4>2
    <3>3. handle = "init"
      BY <3>1 DEF SetupInv
    <3> QED BY <3>1, <3>2, <3>3 DEF SetupInv
  <2>2. CASE NewEnd(t) \/ SendEnd(t)
    <3>1. /\ \/ handle' = handle
             \/ handle' = "up" /\ starting = {}
          /\ Leave(t)
          /\ UNCHANGED <<client, registered, starting, running, seq, waiting, pending, pushes,
                         passes>>
      BY <2>2 DEF NewEnd, SendEnd, busVars, setupVars, feedVars, queueVars
    <3>2. /\ host' \in [Thread -> {"out", "init", "network"}] /\ core' \in Thread \cup {NoThread}
          /\ core' # NoThread => host'[core'] \in {"init", "network"}
      BY <3>1 DEF SetupInv, Leave, NoThread
    <3> QED BY <3>1, <3>2 DEF SetupInv
  <2>3. CASE TakeCore(t)
    <3>1. /\ host[t] = "network" /\ core' = t
          /\ UNCHANGED <<handle, client, registered, starting, running, host, seq, waiting,
                         pending, pushes, passes>>
      BY <2>3 DEF TakeCore, busVars, setupVars, feedVars, queueVars
    <3> QED BY <3>1 DEF SetupInv
  <2>4. ASSUME NEW m \in Feed, Inbound(t, m) PROVE SetupInv'
    <3>1. Same /\ Queue /\ seq' = seq /\ waiting' \subseteq waiting /\ Chain(t, m)
      BY <2>4 DEF Inbound, setupVars, threadVars, queueVars
    <3>2. passes' \in 0 .. MaxPasses /\ seq' <= passes'
      BY <1>1, <1>2, <3>1
    <3> QED BY <3>1, <3>2 DEF SetupInv
  <2>5. CASE CallBack(t)
    <3>1. Same /\ UNCHANGED <<seq, waiting, passes>> /\ Call(t)
          /\ (UNCHANGED queueVars \/ Push(publish[t].msg))
      BY <2>5 DEF CallBack, Call, setupVars, threadVars, feedVars
    <3>2. publish[t].msg \in Message
      BY <3>1 DEF FanInv, Call, Idle, Publication
    <3>3. pushes' \in Nat /\ pending' \in Seq([n : 1 .. pushes', msg : Message])
      <4>1. CASE UNCHANGED queueVars
        BY <4>1 DEF queueVars, SetupInv
      <4> QED BY <3>1, <3>2, <4>1, PendingTyped
    <3> QED BY <3>1, <3>3 DEF SetupInv
  <2>6. CASE Quietly(Snapshot(t)) \/ Quietly(Return(t))
    <3>1. Same /\ Queue /\ UNCHANGED <<seq, waiting, passes>>
      BY <2>6 DEF Quietly, Snapshot, Taking, Return, setupVars, threadVars, feedVars, queueVars
    <3> QED BY <3>1 DEF SetupInv
  <2> QED BY <1>4, <2>1, <2>2, <2>3, <2>4, <2>5, <2>6 DEF Proceed
<1>5. ASSUME NEW t \in Thread, NEW p \in Channel, NEW room \in Room, SendDemo(t, p, room)
      PROVE  SetupInv'
  <2>1. /\ Same /\ Queue /\ seq' = seq + 1 /\ waiting' = waiting
        /\ Chain(t, [channel |-> p, id |-> seq, room |-> room])
    BY <1>5 DEF SendDemo, setupVars, threadVars, queueVars
  <2>2. passes' \in 0 .. MaxPasses /\ seq' <= passes' /\ seq' \in Nat
    BY <1>1, <1>2, <2>1
  <2> QED BY <2>1, <2>2 DEF SetupInv
<1>6. ASSUME NEW t \in Thread, NEW p \in Channel, NEW room \in Room, SendNetwork(t, p, room)
      PROVE  SetupInv'
  <2>1. /\ host' = [host EXCEPT ![t] = "network"]
        /\ core' = IF core = NoThread THEN t ELSE core
        /\ UNCHANGED <<handle, client, registered, starting, running, seq, waiting, pending,
                       pushes, passes>>
    BY <1>6 DEF SendNetwork, busVars, setupVars, feedVars, queueVars
  <2>2. /\ host' \in [Thread -> {"out", "init", "network"}] /\ core' \in Thread \cup {NoThread}
        /\ core' # NoThread => host'[core'] \in {"init", "network"}
    BY <2>1 DEF SetupInv
  <2> QED BY <2>1, <2>2 DEF SetupInv
<1>7. ASSUME NEW t \in Thread, NEW m \in Feed, Bridge(t, m) PROVE SetupInv'
  <2>1. Same /\ Queue /\ UNCHANGED <<seq, waiting>> /\ Chain(t, m)
    BY <1>7 DEF Bridge, setupVars, threadVars, feedVars, queueVars
  <2>2. passes' \in 0 .. MaxPasses /\ seq' <= passes'
    BY <1>1, <1>2, <2>1
  <2> QED BY <2>1, <2>2 DEF SetupInv
<1>8. ASSUME NEW filter \in Filters, OnTheBus(PcSubscribe(filter) \/ HostSubscribe(filter))
      PROVE  SetupInv'
  <2>1. Same /\ Queue /\ UNCHANGED <<seq, waiting>>
    BY <1>8 DEF OnTheBus, Quietly, setupVars, threadVars, feedVars, queueVars
  <2>2. UNCHANGED passes
    BY <1>8 DEF OnTheBus, Quietly, PcSubscribe, HostSubscribe, TakeId, TakingId
  <2> QED BY <2>1, <2>2 DEF SetupInv
<1>9. ASSUME NEW s, OnTheBus(Join(s)) \/ OnTheBus(HostUnsubscribe(s)) PROVE SetupInv'
  <2>1. Same /\ Queue /\ UNCHANGED <<seq, waiting>>
    BY <1>9 DEF OnTheBus, Quietly, setupVars, threadVars, feedVars, queueVars
  <2>2. UNCHANGED passes
    BY <1>9 DEF OnTheBus, Quietly, Join, Joins, HostUnsubscribe, Unsubscribe, Dropping
  <2> QED BY <2>1, <2>2 DEF SetupInv
<1>10. CASE OnTheBus(HostPlugin)
  <2>1. Same /\ Queue /\ UNCHANGED <<seq, waiting>>
    BY <1>10 DEF OnTheBus, Quietly, setupVars, threadVars, feedVars, queueVars
  <2>2. UNCHANGED passes
    BY <1>10 DEF OnTheBus, Quietly, HostPlugin, UsePlugin
  <2> QED BY <2>1, <2>2 DEF SetupInv
<1>11. CASE Free
  <2>1. /\ handle = "up" /\ handle' = "freed" /\ client' = FALSE /\ registered' = {}
        /\ running' = {} /\ pending' = <<>>
        /\ UNCHANGED <<starting, host, core, seq, waiting, passes, pushes>>
    BY <1>11 DEF Free, threadVars, feedVars
  <2>2. pending' \in Seq([n : 1 .. pushes', msg : Message])
    BY <2>1
  <2> QED BY <2>1, <2>2 DEF SetupInv
<1>12. CASE Poll
  <2>1. Same /\ UNCHANGED <<seq, waiting, passes, pushes>> /\ pending # <<>> /\ pending' = Tail(pending)
    BY <1>12 DEF Poll, busVars, setupVars, threadVars, feedVars
  <2>2. pending' \in Seq([n : 1 .. pushes', msg : Message])
    BY <2>1 DEF SetupInv
  <2> QED BY <2>1, <2>2 DEF SetupInv
<1>13. CASE UNCHANGED handleVars
  <2>1. Same /\ Queue /\ UNCHANGED <<seq, waiting, passes>>
    BY <1>13 DEF handleVars, busVars, setupVars, threadVars, feedVars, queueVars
  <2> QED BY <2>1 DEF SetupInv
<1> QED
  BY <1>3, <1>4, <1>5, <1>6, <1>7, <1>8, <1>9, <1>10, <1>11, <1>12, <1>13 DEF HandleNext

-----------------------------------------------------------------------------
(* The steps of a publication, and of the subscriptions meanwhile.         *)

\* A message that has passed the chain knows who is subscribed.
LEMMA FanKeeps ==
  ASSUME FanInv, NEW t \in Thread, NEW m \in Message, Fan(t, m), UNCHANGED subscribeVars
  PROVE  FanInv'
<1> DEFINE call == [phase |-> "passed", msg |-> m, wanted |-> Wanted(m), before |-> joined,
                    todo |-> <<>>, called |-> <<>>]
<1>1. /\ UNCHANGED <<subscribers, made, taken, joined, held>>
      /\ publish' = [publish EXCEPT ![t] = call]
      /\ publish \in [Thread -> {Idle} \cup Publication] /\ SubscribersInv /\ joined \in Nat
  BY DEF Fan, subscribeVars, FanInv, SubscribersInv
<1>2. Wanted(m) \subseteq 1 .. joined
  <2>1. \A s \in held : s \in Subscription /\ s.nth <= joined
    <3>1. \A i \in DOMAIN subscribers : subscribers[i] \in Subscription
      BY <1>1, LenProperties, ElementOfSeq DEF SubscribersInv
    <3> QED BY <1>1, <3>1 DEF SubscribersInv, Range
  <2>2. \A s \in held : s.nth \in 1 .. joined
    BY <1>1, <2>1 DEF Subscription
  <2> QED BY <2>2 DEF Wanted
<1>3. call \in Publication
  BY <1>1, <1>2 DEF Publication
<1>4. publish' \in [Thread -> {Idle} \cup Publication]
  BY <1>1, <1>3
<1>5. Wanted(m)' = Wanted(m)
  BY <1>1 DEF Wanted
<1>6. CallInv(t)'
  <2>1. publish'[t] = call
    BY <1>1
  <2>2. Passed(t)'
    BY <1>5, <2>1 DEF Passed
  <2> QED BY <1>1, <1>2, <2>1, <2>2 DEF CallInv
<1>7. ASSUME NEW u \in Thread, u # t PROVE CallInv(u)'
  <2>1. publish'[u] = publish[u] /\ joined' \in Nat /\ joined <= joined'
        /\ \A s \in held' : s \in held
    BY <1>1, <1>7
  <2> QED BY <2>1, CallStays
<1>8. SubscribersInv' /\ IdsInv'
  BY <1>1 DEF FanInv, SubscribersInv, IdsInv
<1> QED BY <1>4, <1>6, <1>7, <1>8 DEF FanInv

\* The snapshot has the callbacks that match, in the order of the subscriptions.
LEMMA SnapshotKeeps == ASSUME FanInv, NEW t \in Thread, Snapshot(t) PROVE FanInv'
<1> DEFINE call == publish[t]
           m    == call.msg
           U    == {s \in Range(subscribers) : Matches(s.filter, m)}
           todo == Kept(subscribers, U)
           next == [call EXCEPT !.phase = "calling", !.todo = todo]
<1>1. /\ call.phase = "passed" /\ UNCHANGED <<subscribers, made, taken, joined, held>>
      /\ publish' = [publish EXCEPT ![t] = next]
      /\ publish \in [Thread -> {Idle} \cup Publication] /\ SubscribersInv /\ joined \in Nat
      /\ CallInv(t)
  BY DEF Snapshot, Taking, subscribeVars, FanInv, SubscribersInv
<1>2. call \in Publication /\ call.called = <<>>
  BY <1>1 DEF Idle, CallInv, Passed
<1>3. /\ todo \in Seq(Subscription) /\ Range(todo) = held \cap U
      /\ \A i, j \in DOMAIN todo : i < j => todo[i].nth < todo[j].nth
  BY <1>1, KeptSubscriptions
<1>4. held = Range(subscribers)
  BY <1>1 DEF SubscribersInv
<1>5. Nths(todo) = Wanted(m)
  <2>1. Nths(todo) = {s.nth : s \in Range(todo)}
    BY DEF Nths, Range
  <2>2. Range(todo) = {s \in held : Matches(s.filter, m)}
    BY <1>3, <1>4
  <2> QED BY <2>1, <2>2 DEF Wanted
<1> HIDE DEF todo
<1>6. next \in Publication
  BY <1>2, <1>3 DEF Publication
<1>7. publish' \in [Thread -> {Idle} \cup Publication]
  BY <1>1, <1>6
<1>8. CallInv(t)'
  <2>1. /\ publish'[t] = next /\ next.phase = "calling" /\ next.msg = m
        /\ next.called = <<>> /\ next.todo = todo /\ next.wanted = call.wanted
        /\ next.before = call.before
    BY <1>1, <1>2 DEF Publication
  <2> HIDE DEF next
  <2>2. \A x : Wanted(x)' = Wanted(x)
    BY <1>1 DEF Wanted
  <2>3. Range(next.called) = {}
    BY <2>1 DEF Range
  <2>4. Wanted(m) \subseteq call.wanted \cup (call.before + 1 .. joined)
    BY <1>1 DEF CallInv, Passed
  <2>5. Calling(t)'
    <3>1. Range(next.called) \cup Nths(next.todo) = Wanted(m)
      BY <1>5, <2>1, <2>3
    <3>2. DOMAIN next.called = {}
      BY <2>1
    <3> QED BY <1>1, <1>3, <2>1, <2>2, <2>4, <3>1, <3>2 DEF Calling
  <2> QED BY <1>1, <2>1, <2>5 DEF CallInv
<1>9. ASSUME NEW u \in Thread, u # t PROVE CallInv(u)'
  <2>1. publish'[u] = publish[u] /\ joined' \in Nat /\ joined <= joined'
        /\ \A s \in held' : s \in held
    BY <1>1, <1>9
  <2> QED BY <2>1, CallStays
<1>10. SubscribersInv' /\ IdsInv'
  BY <1>1 DEF FanInv, SubscribersInv, IdsInv
<1> QED BY <1>7, <1>8, <1>9, <1>10 DEF FanInv

\* The next of those to be called becomes the last of those that have been.
LEMMA CallKeeps == ASSUME FanInv, NEW t \in Thread, Call(t) PROVE FanInv'
<1> DEFINE call   == publish[t]
           todo   == call.todo
           called == call.called
           first  == Head(todo)
           next   == [call EXCEPT !.todo = Tail(todo), !.called = Append(called, first.nth)]
<1>1. /\ call.phase = "calling" /\ todo # <<>> /\ UNCHANGED <<subscribers, made, taken, joined, held>>
      /\ publish' = [publish EXCEPT ![t] = next]
      /\ publish \in [Thread -> {Idle} \cup Publication] /\ SubscribersInv /\ joined \in Nat
      /\ CallInv(t)
  BY DEF Call, subscribeVars, FanInv, SubscribersInv
<1>2. call \in Publication /\ todo \in Seq(Subscription) /\ called \in Seq(Nat)
  BY <1>1 DEF Idle, Publication
<1>3. /\ first \in Subscription /\ first = todo[1] /\ first.nth \in Nat
      /\ Tail(todo) \in Seq(Subscription) /\ Append(called, first.nth) \in Seq(Nat)
  <2>1. todo # <<>> /\ todo \in Seq(Subscription)
    BY <1>1, <1>2
  <2> HIDE DEF todo
  <2>2. first = todo[1] /\ first \in Subscription /\ Tail(todo) \in Seq(Subscription)
    BY <2>1
  <2>3. first.nth \in Nat
    BY <2>2 DEF Subscription
  <2> HIDE DEF first
  <2>4. Append(called, first.nth) \in Seq(Nat)
    BY <1>2, <2>3
  <2> QED BY <2>2, <2>3, <2>4
<1>4. next \in Publication
  BY <1>2, <1>3 DEF Publication
<1>5. publish' \in [Thread -> {Idle} \cup Publication]
  BY <1>1, <1>4
<1>6. Calling(t)
  BY <1>1 DEF CallInv
<1>7. /\ publish'[t] = next /\ next.phase = "calling" /\ next.msg = call.msg
      /\ next.called = Append(called, first.nth) /\ next.todo = Tail(todo)
      /\ next.wanted = call.wanted /\ next.before = call.before
  BY <1>1, <1>2 DEF Publication
<1> DEFINE todo2   == Tail(todo)
           called2 == Append(called, first.nth)
<1>8. /\ DOMAIN todo = 1 .. Len(todo) /\ Len(todo) \in Nat \ {0}
      /\ DOMAIN todo2 = 1 .. Len(todo) - 1
      /\ \A i \in 1 .. Len(todo) - 1 : todo2[i] = todo[i + 1]
  BY <1>1, <1>2
<1>9. /\ DOMAIN called = 1 .. Len(called) /\ Len(called) \in Nat
      /\ DOMAIN called2 = 1 .. Len(called) + 1
      /\ \A i \in 1 .. Len(called) : called2[i] = called[i]
      /\ called2[Len(called) + 1] = first.nth
  BY <1>2, <1>3
<1>10. /\ \A i, j \in DOMAIN called : i < j => called[i] < called[j]
       /\ \A i, j \in DOMAIN todo : i < j => todo[i].nth < todo[j].nth
       /\ \A i \in DOMAIN called, j \in DOMAIN todo : called[i] < todo[j].nth
       /\ Range(called) \cup Nths(todo) \subseteq call.wanted \cup (call.before + 1 .. joined)
       /\ call.wanted \cap Wanted(call.msg) \subseteq Range(called) \cup Nths(todo)
  BY <1>6 DEF Calling
<1> DEFINE n == Len(todo)
           c == Len(called)
<1> HIDE DEF todo2, called2, next, todo, called, call, first, n, c
<1>11. /\ n \in Nat \ {0} /\ c \in Nat /\ DOMAIN todo = 1 .. n /\ DOMAIN called = 1 .. c
       /\ DOMAIN todo2 = 1 .. n - 1 /\ \A i \in 1 .. n - 1 : todo2[i] = todo[i + 1]
       /\ DOMAIN called2 = 1 .. c + 1 /\ \A i \in 1 .. c : called2[i] = called[i]
       /\ called2[c + 1] = todo[1].nth
  BY <1>3, <1>8, <1>9 DEF n, c
<1>12. \A i, j \in DOMAIN called2 : i < j => called2[i] < called2[j]
  <2> SUFFICES ASSUME NEW i \in 1 .. c + 1, NEW j \in 1 .. c + 1, i < j
               PROVE  called2[i] < called2[j]
    BY <1>11
  <2>1. i \in 1 .. c /\ called2[i] = called[i]
    BY <1>11
  <2>2. CASE j = c + 1
    <3>1. 1 \in 1 .. n
      BY <1>11
    <3> QED BY <1>10, <1>11, <2>1, <2>2, <3>1
  <2>3. CASE j \in 1 .. c
    BY <1>10, <1>11, <2>1, <2>3
  <2> QED BY <1>11, <2>2, <2>3
<1>13. \A i \in 1 .. n - 1 : i + 1 \in 1 .. n /\ 1 \in 1 .. n /\ 1 < i + 1
  BY <1>11
<1>14. \A i, j \in DOMAIN todo2 : i < j => todo2[i].nth < todo2[j].nth
  <2> SUFFICES ASSUME NEW i \in 1 .. n - 1, NEW j \in 1 .. n - 1, i < j
               PROVE  todo2[i].nth < todo2[j].nth
    BY <1>11
  <2>1. i + 1 < j + 1 /\ i + 1 \in 1 .. n /\ j + 1 \in 1 .. n
    BY <1>11
  <2>2. todo[i + 1].nth < todo[j + 1].nth
    BY <1>10, <1>11, <2>1
  <2>3. todo2[i] = todo[i + 1] /\ todo2[j] = todo[j + 1]
    BY <1>11
  <2> QED BY <2>2, <2>3
<1>15. \A i \in DOMAIN called2, j \in DOMAIN todo2 : called2[i] < todo2[j].nth
  <2> SUFFICES ASSUME NEW i \in 1 .. c + 1, NEW j \in 1 .. n - 1
               PROVE  called2[i] < todo2[j].nth
    BY <1>11
  <2>1. todo2[j].nth = todo[j + 1].nth
    BY <1>11
  <2>2. CASE i \in 1 .. c
    BY <1>10, <1>11, <1>13, <2>1, <2>2
  <2>3. CASE i = c + 1
    BY <1>10, <1>11, <1>13, <2>1, <2>3
  <2> QED BY <1>11, <2>2, <2>3
<1>16. Range(called2) \cup Nths(todo2) = Range(called) \cup Nths(todo)
  <2>1. Range(called2) = Range(called) \cup {todo[1].nth}
    <3>1. \A i \in 1 .. c + 1 : i \in 1 .. c \/ i = c + 1
      BY <1>11
    <3>2. \A i \in 1 .. c : i \in 1 .. c + 1
      BY <1>11
    <3>3. c + 1 \in 1 .. c + 1
      BY <1>11
    <3> QED BY <1>11, <3>1, <3>2, <3>3 DEF Range
  <2>2. Nths(todo) = Nths(todo2) \cup {todo[1].nth}
    <3>1. \A i \in 1 .. n : i = 1 \/ (i - 1 \in 1 .. n - 1 /\ todo2[i - 1] = todo[i])
      BY <1>11
    <3>2. \A i \in 1 .. n : todo[i].nth \in Nths(todo2) \cup {todo[1].nth}
      <4> SUFFICES ASSUME NEW i \in 1 .. n, i # 1 PROVE todo[i].nth \in Nths(todo2)
        OBVIOUS
      <4>1. i - 1 \in DOMAIN todo2 /\ todo2[i - 1] = todo[i]
        BY <1>11, <3>1
      <4>2. \A k \in DOMAIN todo2 : todo2[k].nth \in Nths(todo2)
        BY DEF Nths
      <4>3. todo2[i - 1].nth \in Nths(todo2)
        BY <4>1, <4>2
      <4> QED BY <4>1, <4>3
    <3>3. \A i \in 1 .. n - 1 : todo2[i].nth \in Nths(todo)
      BY <1>11, <1>13 DEF Nths
    <3>4. todo[1].nth \in Nths(todo)
      BY <1>11 DEF Nths
    <3>5. Nths(todo) \subseteq Nths(todo2) \cup {todo[1].nth}
      <4>1. \A i \in DOMAIN todo : todo[i].nth \in Nths(todo2) \cup {todo[1].nth}
        BY <1>11, <3>2
      <4> QED BY <4>1 DEF Nths
    <3>6. Nths(todo2) \subseteq Nths(todo)
      <4>1. \A i \in DOMAIN todo2 : todo2[i].nth \in Nths(todo)
        BY <1>11, <3>3
      <4> QED BY <4>1 DEF Nths
    <3> QED BY <3>4, <3>5, <3>6
  <2> QED BY <2>1, <2>2
<1>17. \A x : Wanted(x)' = Wanted(x)
  BY <1>1 DEF Wanted
<1>19. Calling(t)'
  BY <1>1, <1>7, <1>10, <1>12, <1>14, <1>15, <1>16, <1>17 DEF Calling, todo2, called2
<1>20. CallInv(t)'
  BY <1>1, <1>7, <1>19 DEF CallInv, call
<1>21. ASSUME NEW u \in Thread, u # t PROVE CallInv(u)'
  <2>1. publish'[u] = publish[u] /\ joined' \in Nat /\ joined <= joined'
        /\ \A s \in held' : s \in held
    BY <1>1, <1>21
  <2> QED BY <2>1, CallStays
<1>22. SubscribersInv' /\ IdsInv'
  BY <1>1 DEF FanInv, SubscribersInv, IdsInv
<1> QED BY <1>5, <1>20, <1>21, <1>22 DEF FanInv

\* A subscription that is pushed is the newest of all.
LEMMA JoinsKeeps ==
  ASSUME FanInv, NEW id \in Nat \ {0}, NEW filter \in Filter, NEW sink \in {"queue", "host"},
         Joins(id, filter, sink)
  PROVE  SubscribersInv' /\ \A t \in Thread : CallInv(t)'
<1> DEFINE new  == [id |-> id, filter |-> filter, sink |-> sink, nth |-> joined + 1]
           subs == Append(subscribers, new)
           n    == Len(subscribers)
<1>1. /\ joined' = joined + 1 /\ subscribers' = subs /\ held' = held \cup {new} /\ publish' = publish
      /\ SubscribersInv /\ joined \in Nat /\ subscribers \in Seq(Subscription)
  BY DEF Joins, FanInv, SubscribersInv
<1>2. new \in Subscription /\ new.nth = joined + 1
  BY <1>1 DEF Subscription
<1> HIDE DEF new
<1>3. /\ subs \in Seq(Subscription) /\ n \in Nat
      /\ DOMAIN subscribers = 1 .. n /\ DOMAIN subs = 1 .. n + 1
      /\ \A i \in 1 .. n : subs[i] = subscribers[i] /\ subscribers[i] \in Subscription
      /\ subs[n + 1] = new
  BY <1>1, <1>2
<1>4. /\ Range(subscribers) = held
      /\ \A i, j \in 1 .. n : i < j => subscribers[i].nth < subscribers[j].nth
      /\ \A s \in held : s.nth <= joined
  BY <1>1, <1>3 DEF SubscribersInv
<1> HIDE DEF n, subs
<1>5. SubscribersInv'
  <2>1. Range(subs) = held \cup {new}
    <3>1. \A i \in 1 .. n + 1 : i \in 1 .. n \/ i = n + 1
      BY <1>3
    <3>2. n + 1 \in 1 .. n + 1 /\ \A i \in 1 .. n : i \in 1 .. n + 1
      BY <1>3
    <3> QED BY <1>3, <1>4, <3>1, <3>2 DEF Range
  <2>2. \A i, j \in 1 .. n + 1 : i < j => subs[i].nth < subs[j].nth
    <3> SUFFICES ASSUME NEW i \in 1 .. n + 1, NEW j \in 1 .. n + 1, i < j
                 PROVE  subs[i].nth < subs[j].nth
      OBVIOUS
    <3>1. i \in 1 .. n
      BY <1>3
    <3>2. CASE j \in 1 .. n
      BY <1>3, <1>4, <3>1, <3>2
    <3>3. CASE j = n + 1
      <4>1. subscribers[i] \in held
        BY <1>3, <1>4, <3>1 DEF Range
      <4>2. subscribers[i].nth \in Nat /\ subscribers[i].nth <= joined
        BY <1>3, <1>4, <3>1, <4>1 DEF Subscription
      <4> QED BY <1>1, <1>2, <1>3, <3>1, <3>3, <4>2
    <3> QED BY <1>3, <3>2, <3>3
  <2>3. \A s \in held : s.nth \in Nat
    <3>1. \A i \in 1 .. n : subscribers[i].nth \in Nat
      BY <1>3 DEF Subscription
    <3> QED BY <1>3, <1>4, <3>1 DEF Range
  <2>4. \A s \in held \cup {new} : s.nth <= joined + 1
    BY <1>1, <1>2, <1>4, <2>3
  <2> QED BY <1>1, <1>3, <2>1, <2>2, <2>4 DEF SubscribersInv
<1>6. ASSUME NEW t \in Thread PROVE CallInv(t)'
  <2>1. /\ publish'[t] = publish[t] /\ joined' \in Nat /\ joined <= joined'
        /\ \A s \in held' : s \in held \/ s.nth \in joined + 1 .. joined'
    BY <1>1, <1>2
  <2> QED BY <2>1, CallStays
<1> QED BY <1>5, <1>6

\* An id that is taken is new.
LEMMA TakeKeeps ==
  ASSUME FanInv, NEW filter \in Filter, NEW sink \in {"queue", "host"}, TakeId(filter, sink)
  PROVE  FanInv'
<1> DEFINE new == [id |-> made + 1, filter |-> filter, sink |-> sink]
<1>1. /\ made' = made + 1 /\ taken' = taken \cup {new}
      /\ UNCHANGED <<subscribers, joined, held, publish>>
      /\ made \in Nat /\ taken \subseteq [id : 1 .. made, filter : Filter, sink : {"queue", "host"}]
      /\ IdsInv
  BY DEF TakeId, TakingId, FanInv, IdsInv
<1>2. /\ new \in [id : 1 .. made', filter : Filter, sink : {"queue", "host"}] /\ new.id = made + 1
      /\ \A x \in 1 .. made : x \in 1 .. made' /\ x # made + 1
  BY <1>1
<1> HIDE DEF new
<1>3. \A r \in taken : r.id \in 1 .. made /\ r \in [id : 1 .. made', filter : Filter, sink : {"queue", "host"}]
  BY <1>1, <1>2
<1>4. IdsInv'
  BY <1>1, <1>2, <1>3 DEF IdsInv
<1>5. SubscribersInv' /\ publish' \in [Thread -> {Idle} \cup Publication]
  BY <1>1 DEF FanInv, SubscribersInv
<1>6. ASSUME NEW t \in Thread PROVE CallInv(t)'
  BY <1>1, CallStays DEF FanInv, SubscribersInv
<1> QED BY <1>4, <1>5, <1>6 DEF FanInv

\* The push of a call of subscribe, and of the first one in pc_init.
LEMMA JoinKeeps == ASSUME FanInv, NEW s, Join(s) PROVE FanInv'
<1>1. /\ s \in taken /\ taken' = taken \ {s} /\ made' = made
      /\ Joins(s.id, s.filter, s.sink)
      /\ s \in [id : 1 .. made, filter : Filter, sink : {"queue", "host"}]
  BY DEF Join, FanInv, IdsInv
<1>2. s.id \in Nat \ {0} /\ s.id \in 1 .. made /\ s.filter \in Filter /\ s.sink \in {"queue", "host"}
  BY <1>1 DEF FanInv, IdsInv
<1>3. SubscribersInv' /\ \A t \in Thread : CallInv(t)'
  BY <1>1, <1>2, JoinsKeeps
<1>4. PICK new : held' = held \cup {new} /\ new.id = s.id /\ publish' = publish
  BY <1>1 DEF Joins
<1>5. IdsInv'
  BY <1>1, <1>2, <1>4 DEF FanInv, IdsInv
<1> QED BY <1>3, <1>4, <1>5 DEF FanInv

LEMMA SubscribeAloneKeeps ==
  ASSUME FanInv, NEW filter \in Filter, NEW sink \in {"queue", "host"},
         SubscribeAlone(filter, sink)
  PROVE  FanInv'
<1>1. made' = made + 1 /\ taken' = taken /\ Joins(made + 1, filter, sink) /\ made \in Nat
  BY DEF SubscribeAlone, FanInv, IdsInv
<1>2. SubscribersInv' /\ \A t \in Thread : CallInv(t)'
  BY <1>1, JoinsKeeps
<1>3. PICK new : held' = held \cup {new} /\ new.id = made + 1 /\ publish' = publish
  BY <1>1 DEF Joins
<1>4. /\ \A x \in 1 .. made : x \in 1 .. made' /\ x # made + 1
      /\ made + 1 \in 1 .. made' /\ made' \in Nat
  BY <1>1
<1>5. \A r \in taken : r.id \in 1 .. made /\ r \in [id : 1 .. made', filter : Filter, sink : {"queue", "host"}]
  BY <1>1, <1>4 DEF FanInv, IdsInv
<1>6. IdsInv'
  BY <1>1, <1>3, <1>4, <1>5 DEF FanInv, IdsInv
<1> QED BY <1>2, <1>3, <1>6 DEF FanInv

\* Removing one leaves the others in their order.
LEMMA UnsubscribeKeeps == ASSUME FanInv, NEW s, Unsubscribe(s) PROVE FanInv'
<1> DEFINE U    == {r \in Range(subscribers) : r.id # s.id}
           subs == Kept(subscribers, U)
<1>1. /\ subscribers' = subs /\ held' = held \ {s} /\ s \in held
      /\ UNCHANGED <<made, taken, joined, publish>> /\ joined \in Nat
      /\ SubscribersInv /\ Range(subscribers) = held /\ \A r \in held : r.nth <= joined
  BY DEF Unsubscribe, Dropping, FanInv, SubscribersInv
<1>2. held \cap U = held \ {s}
  BY <1>1 DEF FanInv, IdsInv
<1>3. /\ subs \in Seq(Subscription) /\ Range(subs) = held \cap U
      /\ \A i, j \in DOMAIN subs : i < j => subs[i].nth < subs[j].nth
  BY <1>1, KeptSubscriptions
<1> HIDE DEF subs, U
<1>4. SubscribersInv'
  BY <1>1, <1>2, <1>3 DEF SubscribersInv
<1>5. IdsInv'
  BY <1>1 DEF FanInv, IdsInv
<1>6. ASSUME NEW t \in Thread PROVE CallInv(t)'
  <2>1. /\ publish'[t] = publish[t] /\ joined' \in Nat /\ joined <= joined'
        /\ \A r \in held' : r \in held
    BY <1>1
  <2> QED BY <2>1, CallStays
<1> QED BY <1>1, <1>4, <1>5, <1>6 DEF FanInv

\* Every step of the bus keeps the order of subscriptions and calls.
LEMMA FanStep == ASSUME FanInv, [BusNext]_busVars PROVE FanInv'
<1>1. ASSUME NEW t \in Thread, NEW m \in Message, Chain(t, m) PROVE FanInv'
  <2>1. UNCHANGED subscribeVars /\ (publish' = publish \/ Fan(t, m))
    BY <1>1 DEF Chain
  <2>2. CASE publish' = publish
    <3>1. UNCHANGED <<subscribers, made, taken, joined, held>>
      BY <2>1 DEF subscribeVars
    <3>2. SubscribersInv' /\ IdsInv' /\ publish' \in [Thread -> {Idle} \cup Publication]
      BY <2>2, <3>1 DEF FanInv, SubscribersInv, IdsInv
    <3>3. ASSUME NEW u \in Thread PROVE CallInv(u)'
      BY <2>2, <3>1, CallStays DEF FanInv, SubscribersInv
    <3> QED BY <3>2, <3>3 DEF FanInv
  <2> QED BY <2>1, <2>2, FanKeeps
<1>2. ASSUME NEW t \in Thread, Return(t) PROVE FanInv'
  <2>1. UNCHANGED <<subscribers, made, taken, joined, held>> /\ publish' = [publish EXCEPT ![t] = Idle]
    BY <1>2 DEF Return, subscribeVars
  <2>2. SubscribersInv' /\ IdsInv' /\ publish' \in [Thread -> {Idle} \cup Publication]
    BY <2>1 DEF FanInv, SubscribersInv, IdsInv
  <2>3. ASSUME NEW u \in Thread PROVE CallInv(u)'
    <3>1. CASE u = t
      BY <2>1, <3>1 DEF CallInv, Idle, FanInv
    <3>2. CASE u # t
      BY <2>1, <3>2, CallStays DEF FanInv, SubscribersInv
    <3> QED BY <3>1, <3>2
  <2> QED BY <2>2, <2>3 DEF FanInv
<1>3. CASE BusFreed
  <2>1. /\ subscribers' = <<>> /\ held' = {} /\ UNCHANGED <<made, taken, joined, publish>>
        /\ \A t \in Thread : publish[t].phase = "idle"
    BY <1>3 DEF BusFreed, IsIdle
  <2>2. /\ subscribers' \in Seq(Subscription) /\ DOMAIN subscribers' = {}
        /\ Range(subscribers') = {}
    BY <2>1 DEF Range
  <2>3. SubscribersInv' /\ IdsInv'
    BY <2>1, <2>2 DEF FanInv, SubscribersInv, IdsInv
  <2>4. \A t \in Thread : CallInv(t)'
    BY <2>1 DEF CallInv
  <2> QED BY <2>1, <2>3, <2>4 DEF FanInv
<1>4. ASSUME UNCHANGED <<subscribers, made, taken, joined, held, publish>> PROVE FanInv'
  <2>1. SubscribersInv' /\ IdsInv' /\ publish' \in [Thread -> {Idle} \cup Publication]
    BY <1>4 DEF FanInv, SubscribersInv, IdsInv
  <2>2. ASSUME NEW u \in Thread PROVE CallInv(u)'
    BY <1>4, CallStays DEF FanInv, SubscribersInv
  <2> QED BY <2>1, <2>2 DEF FanInv
<1>5. ASSUME NEW p, UsePlugin(p) PROVE FanInv'
  BY <1>4, <1>5 DEF UsePlugin, subscribeVars
<1>6. CASE UNCHANGED busVars
  BY <1>4, <1>6 DEF busVars, subscribeVars
<1> QED
  BY <1>1, <1>2, <1>3, <1>5, <1>6, SnapshotKeeps, CallKeeps, SubscribeAloneKeeps,
     TakeKeeps, JoinKeeps, UnsubscribeKeeps
     DEF BusNext

LEMMA SetupInit == HandleInit => SetupInv /\ FanInv
<1> SUFFICES ASSUME HandleInit PROVE SetupInv /\ FanInv
  OBVIOUS
<1>1. /\ pending = <<>> /\ pushes = 0 /\ seq = 0 /\ passes = 0 /\ handle = "none" /\ client = FALSE
      /\ registered = {} /\ starting = {} /\ running = {} /\ host = [t \in Thread |-> "out"]
      /\ core = NoThread /\ waiting = Feed /\ subscribers = <<>> /\ held = {}
      /\ made = 0 /\ taken = {} /\ joined = 0
      /\ publish = [t \in Thread |-> Idle]
  BY DEF HandleInit, BusInit
<1>2. pending \in Seq([n : 1 .. pushes, msg : Message])
  BY <1>1
<1>3. SetupInv
  <2>1. /\ seq \in Nat /\ passes \in 0 .. MaxPasses /\ seq <= passes /\ pushes \in Nat
        /\ waiting \subseteq Feed
    BY <1>1, BusConstants
  <2>2. /\ handle \in {"none", "init", "up", "freed"} /\ client \in BOOLEAN
        /\ starting \cup running \subseteq registered
        /\ starting = {} /\ running = {}
        /\ host \in [Thread -> {"out", "init", "network"}]
        /\ core \in Thread \cup {NoThread} /\ core = NoThread
    BY <1>1
  <2> QED BY <1>2, <2>1, <2>2 DEF SetupInv
<1>4. subscribers \in Seq(Subscription) /\ Range(subscribers) = {} /\ DOMAIN subscribers = {}
  BY <1>1 DEF Range
<1>5. FanInv
  BY <1>1, <1>4 DEF FanInv, SubscribersInv, IdsInv, CallInv, Idle
<1> QED BY <1>3, <1>5

\* Subscriptions, calls and the handle's own state, in every reachable state.
THEOREM FanInvHolds == HandleSpec => [](SetupInv /\ FanInv)
<1>1. SetupInv /\ FanInv /\ [HandleNext]_handleVars => SetupInv' /\ FanInv'
  BY BusSteps, SetupStays, FanStep
<1> QED BY <1>1, SetupInit, PTL DEF HandleSpec

\* A publication that has made its calls has called, once each and in their
\* order, the callbacks subscribed throughout, and none removed before it.
THEOREM CallsMatchSubscriptionsHolds == HandleSpec => []CallsMatchSubscriptions
<1>1. FanInv => CallsMatchSubscriptions
  <2> SUFFICES ASSUME FanInv, NEW t \in Thread, publish[t].phase = "calling", publish[t].todo = <<>>
               PROVE  LET call   == publish[t]
                          called == Range(call.called)
                      IN /\ call.wanted \cap Wanted(call.msg) \subseteq called
                         /\ called \subseteq call.wanted \cup (call.before + 1 .. joined)
                         /\ \A i, j \in DOMAIN call.called :
                              i < j => call.called[i] < call.called[j]
    BY DEF CallsMatchSubscriptions
  <2>1. Calling(t)
    BY DEF FanInv, CallInv
  <2>2. Nths(publish[t].todo) = {}
    BY DEF Nths
  <2> QED BY <2>1, <2>2 DEF Calling
<1> QED BY <1>1, FanInvHolds, PTL

-----------------------------------------------------------------------------
(* What the deduplication lets pass.                                       *)

Keys == Channel \X (0 .. MaxPasses)
Said == [key : Keys, at : Nat, admitted : BOOLEAN]

\* A sequence in the order of what f says of its elements.
Ranked(f, s) ==
  /\ \A i \in DOMAIN s : f[s[i]] \in Nat
  /\ \A i, j \in DOMAIN s : i < j => f[s[i]] < f[s[j]]

\* The admissions among the verdicts after the i-th and before the j-th.
Between(said, i, j) == {k \in i + 1 .. j - 1 : said[k].admitted}
Since(i) == Between(verdicts, i, Len(verdicts) + 1)

\* The admissions of the same key within the window of the j-th verdict.
Earlier(said, j) ==
  {i \in 1 .. j - 1 : /\ said[i].admitted
                      /\ said[i].key = said[j].key
                      /\ said[j].at - said[i].at < Window}

\* adm tells when each key of the cache was admitted; the queue has the keys in
\* that order, and what was admitted within the window and is not in the cache any
\* more has been pushed out by MaxEntries others.
Admitted(adm) ==
  /\ adm \in [DOMAIN cache -> DOMAIN verdicts]
  /\ \A k \in DOMAIN cache :
       verdicts[adm[k]].admitted /\ verdicts[adm[k]].key = k /\ verdicts[adm[k]].at = cache[k]
  /\ Ranked(adm, order)
  /\ \A i \in DOMAIN verdicts : verdicts[i].admitted /\ now - verdicts[i].at < Window =>
       \/ verdicts[i].key \in DOMAIN cache /\ adm[verdicts[i].key] = i
       \/ Cardinality(Since(i)) >= MaxEntries

CacheTypes ==
  /\ now \in 0 .. MaxTime
  /\ DOMAIN cache \subseteq Keys
  /\ IsFiniteSet(DOMAIN cache)
  /\ Cardinality(DOMAIN cache) <= MaxEntries
  /\ cache \in [DOMAIN cache -> 0 .. now]
  /\ order \in Seq(Keys)
  /\ Range(order) = DOMAIN cache
  /\ verdicts \in Seq(Said)

CacheInv ==
  /\ CacheTypes
  /\ \E adm : Admitted(adm)
  /\ DedupExact

\* A ranked sequence has as many elements as places.
LEMMA RankedCount ==
  ASSUME NEW S, NEW s \in Seq(S), NEW f, Ranked(f, s)
  PROVE  IsFiniteSet(Range(s)) /\ Cardinality(Range(s)) = Len(s)
<1> DEFINE n == Len(s)
           D == 1 .. n
           R == Range(s)
<1>1. n \in Nat /\ DOMAIN s = D /\ s \in [D -> R]
  BY LenProperties DEF Range
<1>2. \A i, j \in D : i # j => s[i] # s[j]
  <2> SUFFICES ASSUME NEW i \in D, NEW j \in D, i < j PROVE s[i] # s[j]
    BY <1>1
  <2>1. f[s[i]] \in Nat /\ f[s[j]] \in Nat /\ f[s[i]] < f[s[j]]
    BY <1>1 DEF Ranked
  <2> QED BY <2>1
<1>3. s \in Bijection(D, R)
  <2>1. IsInjective(s)
    BY <1>1, <1>2 DEF IsInjective
  <2>2. \A x \in R : \E i \in D : s[i] = x
    BY <1>1 DEF Range
  <2> QED BY <1>1, <2>1, <2>2 DEF Bijection, Injection, Surjection
<1>4. ExistsBijection(D, R)
  BY <1>3 DEF ExistsBijection
<1>5. IsFiniteSet(D) /\ Cardinality(D) = n
  BY <1>1, FS_Interval
<1> HIDE DEF D, R
<1>6. IsFiniteSet(R) /\ Cardinality(R) = Cardinality(D)
  BY <1>4, <1>5, FS_Bijection
<1> QED BY <1>5, <1>6 DEF R

\* Without its first element it is still ranked.
LEMMA RankedRest ==
  ASSUME NEW S, NEW s \in Seq(S), NEW f, Ranked(f, s), Len(s) > 0
  PROVE  LET r == SubSeq(s, 2, Len(s))
         IN r \in Seq(S) /\ Range(r) = Range(s) \ {s[1]} /\ Ranked(f, r)
<1> DEFINE n == Len(s)
           r == SubSeq(s, 2, n)
<1>1. n \in Nat /\ n > 0 /\ DOMAIN s = 1 .. n
  BY LenProperties
<1>2. r \in Seq(S) /\ Len(r) = n - 1 /\ \A i \in 1 .. n - 1 : r[i] = s[i + 1]
  BY <1>1
<1>3. DOMAIN r = 1 .. n - 1
  BY <1>2
<1> HIDE DEF r, n
<1>4. \A i \in 1 .. n - 1 : i + 1 \in 1 .. n
  BY <1>1
<1>5. Ranked(f, r)
  <2>1. \A i \in DOMAIN r : f[r[i]] \in Nat
    BY <1>1, <1>2, <1>3, <1>4 DEF Ranked
  <2>2. ASSUME NEW i \in DOMAIN r, NEW j \in DOMAIN r, i < j PROVE f[r[i]] < f[r[j]]
    <3>1. i + 1 \in DOMAIN s /\ j + 1 \in DOMAIN s /\ i + 1 < j + 1
      BY <1>1, <1>3, <1>4, <2>2
    <3>2. f[s[i + 1]] < f[s[j + 1]]
      BY <3>1 DEF Ranked
    <3> QED BY <1>2, <1>3, <3>2
  <2> QED BY <2>1, <2>2 DEF Ranked
<1>6. Range(r) = Range(s) \ {s[1]}
  <2>1. ASSUME NEW i \in 1 .. n - 1 PROVE r[i] \in Range(s) /\ r[i] # s[1]
    <3>1. i + 1 \in DOMAIN s /\ 1 \in DOMAIN s /\ 1 < i + 1 /\ r[i] = s[i + 1]
      BY <1>1, <1>2, <1>4
    <3>2. f[s[1]] \in Nat /\ f[s[i + 1]] \in Nat /\ f[s[1]] < f[s[i + 1]]
      BY <3>1 DEF Ranked
    <3>3. s[i + 1] # s[1]
      BY <3>2
    <3> QED BY <3>1, <3>3 DEF Range
  <2>2. ASSUME NEW p \in 1 .. n, s[p] # s[1] PROVE s[p] \in Range(r)
    <3>1. p - 1 \in 1 .. n - 1 /\ p - 1 + 1 = p
      BY <1>1, <2>2
    <3>2. r[p - 1] = s[p]
      BY <1>2, <3>1
    <3> QED BY <1>3, <3>1, <3>2 DEF Range
  <2> QED BY <1>1, <1>3, <2>1, <2>2 DEF Range
<1> QED BY <1>2, <1>5, <1>6 DEF r, n

\* With one more of a higher rank at its end too.
LEMMA RankedAppend ==
  ASSUME NEW S, NEW s \in Seq(S), NEW f, Ranked(f, s), NEW e \in S, NEW g,
         \A x \in Range(s) : g[x] = f[x] /\ g[x] < g[e], g[e] \in Nat
  PROVE  LET r == Append(s, e)
         IN r \in Seq(S) /\ Range(r) = Range(s) \cup {e} /\ Ranked(g, r)
<1> DEFINE n == Len(s)
           r == Append(s, e)
<1>1. n \in Nat /\ DOMAIN s = 1 .. n
  BY LenProperties
<1>2. /\ r \in Seq(S) /\ DOMAIN r = 1 .. n + 1 /\ \A i \in 1 .. n : r[i] = s[i]
      /\ r[n + 1] = e
  BY <1>1
<1> HIDE DEF r, n
<1>3. \A i \in 1 .. n + 1 : i \in 1 .. n \/ i = n + 1
  BY <1>1
<1>4. n + 1 \in 1 .. n + 1 /\ \A i \in 1 .. n : i \in 1 .. n + 1
  BY <1>1
<1>5. Range(r) = Range(s) \cup {e}
  BY <1>1, <1>2, <1>3, <1>4 DEF Range
<1>6. \A i \in 1 .. n : g[s[i]] = f[s[i]] /\ g[s[i]] < g[e] /\ f[s[i]] \in Nat
  BY <1>1 DEF Range, Ranked
<1>7. \A i \in DOMAIN r : g[r[i]] \in Nat
  BY <1>2, <1>3, <1>6
<1>8. ASSUME NEW i \in 1 .. n + 1, NEW j \in 1 .. n + 1, i < j PROVE g[r[i]] < g[r[j]]
  <2>1. i \in 1 .. n
    BY <1>1, <1>8
  <2>2. CASE j \in 1 .. n
    <3>1. f[s[i]] < f[s[j]]
      BY <1>1, <1>8, <2>1, <2>2 DEF Ranked
    <3> QED BY <1>2, <1>6, <2>1, <2>2, <3>1
  <2>3. CASE j = n + 1
    BY <1>2, <1>6, <2>1, <2>3
  <2> QED BY <1>3, <2>2, <2>3
<1> QED BY <1>2, <1>5, <1>7, <1>8 DEF Ranked, r

\* What is kept of it too.
LEMMA RankedKept ==
  ASSUME NEW S, NEW s \in Seq(S), NEW f, Ranked(f, s), NEW U
  PROVE  LET r == Kept(s, U)
         IN r \in Seq(S) /\ Range(r) = Range(s) \cap U /\ Ranked(f, r)
<1> DEFINE r == Kept(s, U)
<1>1. DOMAIN s = 1 .. Len(s)
  BY LenProperties
<1>2. \A i, j \in 1 .. Len(s) : i < j => f[s[i]] < f[s[j]]
  BY <1>1 DEF Ranked
<1>3. /\ r \in Seq(S) /\ Range(r) = Range(s) \cap U
      /\ \A i, j \in 1 .. Len(r) : i < j => f[r[i]] < f[r[j]]
  BY <1>2, KeptElements
<1> HIDE DEF r
<1>4. DOMAIN r = 1 .. Len(r)
  BY <1>3, LenProperties
<1>5. \A x \in Range(s) : f[x] \in Nat
  BY DEF Ranked, Range
<1>6. \A i \in DOMAIN r : f[r[i]] \in Nat
  BY <1>3, <1>5 DEF Range
<1> QED BY <1>3, <1>4, <1>6 DEF Ranked, r

\* Whoever leaves first makes room for as many admissions as there were keys.
LEMMA PushedOut ==
  ASSUME NEW D, NEW n \in Nat, NEW f \in [D -> 1 .. n], NEW q \in D,
         \A x, y \in D : f[x] = f[y] => x = y,
         NEW W \in SUBSET (1 .. n + 1), n + 1 \in W, \A x \in D \ {q} : f[x] \in W
  PROVE  Cardinality(D) <= Cardinality(W) /\ Cardinality(W) \in Nat
<1> DEFINE g == [x \in D |-> IF x = q THEN n + 1 ELSE f[x]]
<1>1. IsFiniteSet(1 .. n + 1)
  BY FS_Interval
<1>2. IsFiniteSet(W)
  BY <1>1, FS_Subset
<1>3. \A x \in D : f[x] # n + 1
  OBVIOUS
<1>4. g \in Injection(D, W)
  <2>1. g \in [D -> W]
    OBVIOUS
  <2>2. \A x, y \in D : g[x] = g[y] => x = y
    BY <1>3
  <2> HIDE DEF g
  <2>3. IsInjective(g)
    BY <2>1, <2>2 DEF IsInjective
  <2> QED BY <2>1, <2>3 DEF Injection
<1> HIDE DEF g
<1>5. Cardinality(D) <= Cardinality(W)
  BY <1>2, <1>4, FS_Injection
<1> QED BY <1>2, <1>5, FS_CardinalityType

\* The queue without the keys that have expired has those that have not.
LEMMA PrunedRanked ==
  ASSUME CacheTypes, NEW adm, Admitted(adm), NEW at
  PROVE  /\ Pruned(at) \in Seq(Keys)
         /\ Range(Pruned(at)) = Unexpired(at)
         /\ Ranked(adm, Pruned(at))
<1> DEFINE live == Unexpired(at)
<1>1. order \in Seq(Keys) /\ Range(order) = DOMAIN cache /\ Ranked(adm, order)
  BY DEF CacheTypes, Admitted
<1>2. live \subseteq DOMAIN cache
  BY DEF Unexpired
<1>3. CASE live = DOMAIN cache
  BY <1>1, <1>3 DEF Pruned
<1>4. CASE live # DOMAIN cache
  <2>1. Pruned(at) = Kept(order, live)
    BY <1>4 DEF Pruned
  <2> HIDE DEF live
  <2>2. /\ Kept(order, live) \in Seq(Keys) /\ Range(Kept(order, live)) = Range(order) \cap live
        /\ Ranked(adm, Kept(order, live))
    BY <1>1, RankedKept
  <2>3. Range(order) \cap live = live
    BY <1>1, <1>2
  <2> QED BY <2>1, <2>2, <2>3 DEF live
<1> QED BY <1>3, <1>4

\* DedupExact of one verdict.
Exact(said, j) ==
  /\ ~said[j].admitted => Earlier(said, j) # {}
  /\ said[j].admitted => \A i \in Earlier(said, j) : Cardinality(Between(said, i, j)) >= MaxEntries

LEMMA DedupExactIs == DedupExact <=> \A j \in DOMAIN verdicts : Exact(verdicts, j)
BY DEF DedupExact, Exact, Earlier, Between

\* A further verdict changes none of what was said before it.
LEMMA ExactStep ==
  ASSUME CacheTypes, DedupExact, NEW v \in Said, verdicts' = Append(verdicts, v),
         ~v.admitted =>
           \E i \in DOMAIN verdicts : /\ verdicts[i].admitted /\ verdicts[i].key = v.key
                                      /\ v.at - verdicts[i].at < Window,
         v.admitted =>
           \A i \in DOMAIN verdicts : /\ verdicts[i].admitted /\ verdicts[i].key = v.key
                                      /\ v.at - verdicts[i].at < Window
                                      => Cardinality(Since(i)) >= MaxEntries
  PROVE  DedupExact'
<1> DEFINE w  == verdicts
           w2 == Append(w, v)
           n  == Len(w)
<1>1. w \in Seq(Said) /\ n \in Nat /\ DOMAIN w = 1 .. n
  BY LenProperties DEF CacheTypes
<1>2. /\ DOMAIN w2 = 1 .. n + 1 /\ \A i \in 1 .. n : w2[i] = w[i]
      /\ w2[n + 1] = v
  BY <1>1
<1>3. /\ ~v.admitted => \E i \in 1 .. n : /\ w[i].admitted /\ w[i].key = v.key
                                          /\ v.at - w[i].at < Window
      /\ v.admitted => \A i \in 1 .. n : /\ w[i].admitted /\ w[i].key = v.key
                                         /\ v.at - w[i].at < Window
                                         => Cardinality(Between(w, i, n + 1)) >= MaxEntries
  BY <1>1 DEF Since
<1>4. \A j \in 1 .. n : Exact(w, j)
  BY <1>1, DedupExactIs
<1>5. verdicts' = w2
  OBVIOUS
<1> HIDE DEF w, w2, n
<1>6. ASSUME NEW j \in 1 .. n + 1, NEW i \in 1 .. j - 1 PROVE Between(w2, i, j) = Between(w, i, j)
  <2>1. \A k \in i + 1 .. j - 1 : k \in 1 .. n
    BY <1>1, <1>6
  <2> QED BY <1>2, <2>1 DEF Between
<1>7. ASSUME NEW j \in 1 .. n PROVE Exact(w2, j)
  <2>1. \A i \in 1 .. j - 1 : i \in 1 .. n
    BY <1>1, <1>7
  <2>2. Earlier(w2, j) = Earlier(w, j)
    BY <1>2, <1>7, <2>1 DEF Earlier
  <2>3. Earlier(w, j) \subseteq 1 .. j - 1
    BY DEF Earlier
  <2>4. j \in 1 .. n + 1
    BY <1>1, <1>7
  <2>5. \A i \in Earlier(w, j) : Between(w2, i, j) = Between(w, i, j)
    BY <1>6, <2>3, <2>4
  <2> QED BY <1>2, <1>4, <1>7, <2>2, <2>5 DEF Exact
<1>8. Exact(w2, n + 1)
  <2> DEFINE j == n + 1
  <2>1. /\ j - 1 = n /\ j \in 1 .. n + 1 /\ w2[j] = v
    BY <1>1, <1>2
  <2> HIDE DEF j
  <2>2. Earlier(w2, j) = {i \in 1 .. n : /\ w[i].admitted /\ w[i].key = v.key
                                         /\ v.at - w[i].at < Window}
    BY <1>2, <2>1 DEF Earlier
  <2>3. \A i \in 1 .. n : Between(w2, i, j) = Between(w, i, j)
    BY <1>6, <2>1
  <2>4. v.admitted => \A i \in 1 .. n : /\ w[i].admitted /\ w[i].key = v.key
                                         /\ v.at - w[i].at < Window
                                         => Cardinality(Between(w, i, j)) >= MaxEntries
    BY <1>3 DEF j
  <2>5. Exact(w2, j)
    BY <1>3, <2>1, <2>2, <2>3, <2>4 DEF Exact
  <2> QED BY <2>5 DEF j
<1>9. \A j \in 1 .. n + 1 : j \in 1 .. n \/ j = n + 1
  BY <1>1
<1>10. \A j \in DOMAIN w2 : Exact(w2, j)
  BY <1>2, <1>7, <1>8, <1>9
<1>11. (\A j \in DOMAIN verdicts : Exact(verdicts, j))'
  BY <1>5, <1>10
<1>12. DedupExact' <=> (\A j \in DOMAIN verdicts : Exact(verdicts, j))'
  BY DEF DedupExact, Exact, Earlier, Between
<1> QED BY <1>11, <1>12

LEMMA RankedSame ==
  ASSUME NEW f, NEW s, Ranked(f, s), NEW g, \A x \in Range(s) : g[x] = f[x]
  PROVE  Ranked(g, s)
<1>1. \A i \in DOMAIN s : g[s[i]] = f[s[i]]
  BY DEF Range
<1> QED BY <1>1 DEF Ranked

\* What was admitted within the window is in the cache, or pushed out by others.
LEMMA StillLive ==
  ASSUME CacheTypes, NEW adm, Admitted(adm), now' \in now .. MaxTime,
         NEW i \in DOMAIN verdicts, verdicts[i].admitted, now' - verdicts[i].at < Window
  PROVE  \/ verdicts[i].key \in Unexpired(now') /\ adm[verdicts[i].key] = i
         \/ Cardinality(Since(i)) >= MaxEntries
<1>1. verdicts[i].at \in Nat /\ now \in Nat /\ now' \in Nat /\ now <= now' /\ Window \in Nat
  <2>1. verdicts[i] \in Said
    BY LenProperties, ElementOfSeq DEF CacheTypes
  <2> QED BY <2>1, BusConstants DEF CacheTypes, Said
<1>2. now - verdicts[i].at < Window
  BY <1>1
<1>3. CASE Cardinality(Since(i)) >= MaxEntries
  BY <1>3
<1>4. CASE verdicts[i].key \in DOMAIN cache /\ adm[verdicts[i].key] = i
  <2>1. cache[verdicts[i].key] = verdicts[i].at
    BY <1>4 DEF Admitted
  <2> QED BY <1>4, <2>1 DEF Unexpired
<1> QED BY <1>2, <1>3, <1>4 DEF Admitted

\* A further verdict counts if it is an admission.
LEMMA SinceStep ==
  ASSUME CacheTypes, NEW v, verdicts' = Append(verdicts, v), NEW i \in DOMAIN verdicts
  PROVE  /\ Since(i)' = Since(i) \cup (IF v.admitted THEN {Len(verdicts) + 1} ELSE {})
         /\ Cardinality(Since(i)) \in Nat /\ Cardinality(Since(i)') \in Nat
         /\ Cardinality(Since(i)) <= Cardinality(Since(i)')
<1> DEFINE w == verdicts
           n == Len(w)
           w2 == Append(w, v)
<1>1. w \in Seq(Said) /\ n \in Nat /\ DOMAIN w = 1 .. n
  BY LenProperties DEF CacheTypes
<1>2. /\ w2 \in Seq(Said \cup {v}) /\ Len(w2) = n + 1
      /\ \A k \in 1 .. n : w2[k] = w[k]
      /\ w2[n + 1] = v
  <2>1. w \in Seq(Said \cup {v})
    BY <1>1
  <2> QED BY <1>1, <2>1
<1>3. Since(i) = Between(w, i, n + 1) /\ Since(i)' = Between(w2, i, n + 2)
  BY <1>1, <1>2 DEF Since, Between
<1> HIDE DEF w, n, w2
<1>4. i \in 1 .. n
  BY <1>1 DEF w
<1>5. /\ Between(w2, i, n + 2) = {k \in i + 1 .. n + 1 : w2[k].admitted}
      /\ Between(w, i, n + 1) = {k \in i + 1 .. n : w[k].admitted}
  <2>1. (n + 2) - 1 = n + 1 /\ (n + 1) - 1 = n
    BY <1>1
  <2> QED BY <2>1 DEF Between
<1>6. Between(w2, i, n + 2) = Between(w, i, n + 1) \cup (IF v.admitted THEN {n + 1} ELSE {})
  <2>1. /\ \A k \in i + 1 .. n + 1 : k \in i + 1 .. n \/ k = n + 1
        /\ \A k \in i + 1 .. n : k \in 1 .. n /\ k \in i + 1 .. n + 1
        /\ n + 1 \in i + 1 .. n + 1
    BY <1>1, <1>4
  <2> QED BY <1>2, <1>5, <2>1
<1>7. IsFiniteSet(i + 1 .. n + 1)
  BY <1>1, <1>4, FS_Interval
<1>8. IsFiniteSet(Between(w2, i, n + 2))
  BY <1>5, <1>7, FS_Subset
<1>9. Between(w, i, n + 1) \subseteq Between(w2, i, n + 2)
  BY <1>6
<1>10. /\ IsFiniteSet(Between(w, i, n + 1))
       /\ Cardinality(Between(w, i, n + 1)) <= Cardinality(Between(w2, i, n + 2))
  BY <1>8, <1>9, FS_Subset
<1>11. Cardinality(Between(w, i, n + 1)) \in Nat /\ Cardinality(Between(w2, i, n + 2)) \in Nat
  BY <1>8, <1>10, FS_CardinalityType
<1> QED BY <1>3, <1>6, <1>10, <1>11 DEF n, w

\* A repetition leaves the admissions as they were, less those that have expired.
LEMMA RepeatKeeps ==
  ASSUME CacheInv, NEW m \in Message, now' \in now .. MaxTime,
         Repeat(m, Live(now'))
  PROVE  CacheInv'
<1> DEFINE live == Unexpired(now')
           K    == Key(m)
           v    == [key |-> K, at |-> now', admitted |-> FALSE]
           n    == Len(verdicts)
<1>1. CacheTypes /\ DedupExact
  BY DEF CacheInv
<1>2. PICK adm : Admitted(adm)
  BY DEF CacheInv
<1>3. /\ now \in Nat /\ now' \in 0 .. MaxTime /\ now <= now' /\ live \subseteq DOMAIN cache
      /\ verdicts \in Seq(Said) /\ n \in Nat /\ DOMAIN verdicts = 1 .. n
  BY <1>1, BusConstants, LenProperties DEF CacheTypes, Unexpired
<1>4. K \in live /\ cache' = Live(now') /\ order' = Pruned(now')
      /\ verdicts' = Append(verdicts, v)
  BY DEF Repeat, Verdict, Live
<1>5. cache' = [k \in live |-> cache[k]]
  BY <1>4 DEF Live
<1>6. K \in Keys /\ v \in Said
  BY <1>3, BusConstants DEF Key, Keys, Message, Said
<1>7. verdicts[adm[K]].key = K /\ adm[K] \in 1 .. n /\ verdicts[adm[K]].admitted
      /\ verdicts[adm[K]].at = cache[K] /\ now' - cache[K] < Window
  BY <1>2, <1>3, <1>4 DEF Admitted, Unexpired
<1>8. /\ Pruned(now') \in Seq(Keys) /\ Range(Pruned(now')) = live /\ Ranked(adm, Pruned(now'))
  BY <1>1, <1>2, PrunedRanked
<1>9. PICK adm2 : adm2 = [k \in live |-> adm[k]]
  OBVIOUS
<1>10. /\ DOMAIN verdicts' = 1 .. n + 1 /\ \A i \in 1 .. n : verdicts'[i] = verdicts[i]
       /\ verdicts'[n + 1] = v /\ verdicts' \in Seq(Said)
  BY <1>3, <1>4, <1>6
<1>11. CacheTypes'
  <2>1. IsFiniteSet(live) /\ Cardinality(live) <= Cardinality(DOMAIN cache)
    BY <1>1, <1>3, FS_Subset DEF CacheTypes
  <2>2. Cardinality(live) \in Nat /\ Cardinality(DOMAIN cache) \in Nat
    BY <1>1, <2>1, FS_CardinalityType DEF CacheTypes
  <2>3. Cardinality(live) <= MaxEntries
    BY <1>1, <2>1, <2>2, BusConstants DEF CacheTypes
  <2>4. DOMAIN cache' = live
    BY <1>5
  <2> HIDE DEF live
  <2>5. \A k \in live : cache[k] \in 0 .. now'
    BY <1>1, <1>3 DEF CacheTypes
  <2>6. cache' \in [live -> 0 .. now']
    BY <1>5, <2>5
  <2> QED BY <1>1, <1>3, <1>4, <1>8, <1>10, <2>1, <2>3, <2>4, <2>6 DEF CacheTypes
<1>12. Admitted(adm2)'
  <2>1. DOMAIN cache' = live /\ \A k \in live : cache'[k] = cache[k] /\ adm2[k] = adm[k]
    BY <1>5, <1>9
  <2>2. \A k \in live : adm[k] \in 1 .. n
    BY <1>2, <1>3 DEF Admitted
  <2>3. adm2 \in [live -> 1 .. n + 1]
    BY <1>3, <1>9, <2>2
  <2>4. \A k \in live : /\ verdicts'[adm2[k]].admitted /\ verdicts'[adm2[k]].key = k
                        /\ verdicts'[adm2[k]].at = cache'[k]
    BY <1>2, <1>3, <1>10, <2>1, <2>2 DEF Admitted
  <2>5. Ranked(adm2, order')
    BY <1>4, <1>8, <2>1, RankedSame
  <2>6. ASSUME NEW i \in 1 .. n + 1, verdicts'[i].admitted, now' - verdicts'[i].at < Window
        PROVE  \/ verdicts'[i].key \in DOMAIN cache' /\ adm2[verdicts'[i].key] = i
               \/ Cardinality(Since(i)') >= MaxEntries
    <3>1. i \in 1 .. n
      BY <1>3, <1>10, <2>6
    <3>2. \/ verdicts[i].key \in live /\ adm[verdicts[i].key] = i
          \/ Cardinality(Since(i)) >= MaxEntries
      BY <1>1, <1>2, <1>3, <1>10, <2>6, <3>1, StillLive
    <3>3. /\ Cardinality(Since(i)) \in Nat /\ Cardinality(Since(i)') \in Nat
          /\ Cardinality(Since(i)) <= Cardinality(Since(i)')
      BY <1>1, <1>3, <1>4, <3>1, SinceStep
    <3>4. Cardinality(Since(i)) >= MaxEntries => Cardinality(Since(i)') >= MaxEntries
      BY <3>3, BusConstants
    <3> QED BY <1>10, <2>1, <3>1, <3>2, <3>4
  <2> HIDE DEF live
  <2> QED BY <1>10, <2>1, <2>3, <2>4, <2>5, <2>6 DEF Admitted
<1>13. DedupExact'
  <2>1. ~v.admitted /\ v.key = K /\ v.at = now'
    OBVIOUS
  <2>2. \E i \in DOMAIN verdicts : /\ verdicts[i].admitted /\ verdicts[i].key = v.key
                                   /\ v.at - verdicts[i].at < Window
    BY <1>3, <1>7, <2>1
  <2> HIDE DEF v
  <2> QED BY <1>1, <1>4, <1>6, <2>1, <2>2, ExactStep
<1> QED BY <1>11, <1>12, <1>13 DEF CacheInv

\* When the cache is full nothing of it has expired, and its first entry goes.
LEMMA AdmitMakesRoom ==
  ASSUME CacheTypes, NEW adm, Admitted(adm), NEW m, now' \in now .. MaxTime,
         Admit(m, Pruned(now'))
  PROVE  LET live == Unexpired(now')
             K    == Key(m)
         IN \E stays \in SUBSET live, rest \in Seq(Keys) :
              /\ cache' = [k \in stays \cup {K} |-> IF k = K THEN now' ELSE cache[k]]
              /\ order' = Append(rest, K)
              /\ Range(rest) = stays
              /\ Ranked(adm, rest)
              /\ IsFiniteSet(stays) /\ Cardinality(stays) <= MaxEntries - 1
              /\ \/ stays = live
                 \/ \E q \in live : /\ stays = live \ {q} /\ Cardinality(live) >= MaxEntries
                                    /\ \A k \in stays : adm[q] < adm[k]
<1> DEFINE live   == Unexpired(now')
           K      == Key(m)
           queue  == Pruned(now')
           full   == Cardinality(live) >= MaxEntries
           oldest == CHOOSE i \in DOMAIN queue :
                       queue[i] \in live /\ \A j \in 1 .. i - 1 : queue[j] \notin live
           stays  == IF full THEN live \ {queue[oldest]} ELSE live
           rest   == IF full THEN SubSeq(queue, oldest + 1, Len(queue)) ELSE queue
<1>1. /\ cache' = [k \in stays \cup {K} |-> IF k = K THEN now' ELSE cache[k]]
      /\ order' = Append(rest, K)
  BY DEF Admit
<1>2. queue \in Seq(Keys) /\ Range(queue) = live /\ Ranked(adm, queue)
  BY PrunedRanked
<1>3. /\ IsFiniteSet(live) /\ Cardinality(live) <= MaxEntries /\ Cardinality(live) \in Nat
      /\ MaxEntries \in Nat \ {0}
  <2>1. live \subseteq DOMAIN cache
    BY DEF Unexpired
  <2>2. /\ IsFiniteSet(live) /\ Cardinality(live) <= Cardinality(DOMAIN cache)
        /\ Cardinality(DOMAIN cache) <= MaxEntries /\ IsFiniteSet(DOMAIN cache)
    BY <2>1, FS_Subset DEF CacheTypes
  <2>3. Cardinality(live) \in Nat /\ Cardinality(DOMAIN cache) \in Nat
    BY <2>2, FS_CardinalityType
  <2> HIDE DEF live
  <2> QED BY <2>2, <2>3, BusConstants
<1> HIDE DEF live, queue, K
<1>4. CASE ~full
  <2>1. stays = live /\ rest = queue
    BY <1>4
  <2>2. Cardinality(live) <= MaxEntries - 1
    BY <1>3, <1>4
  <2> HIDE DEF stays, rest, full
  <2> QED BY <1>1, <1>2, <1>3, <2>1, <2>2 DEF live, K
<1>5. CASE full
  <2>1. Cardinality(live) # 0
    BY <1>3, <1>5
  <2>2. live # {}
    BY <2>1, FS_EmptySet
  <2>3. Len(queue) \in Nat /\ DOMAIN queue = 1 .. Len(queue)
    BY <1>2, LenProperties
  <2>4. Len(queue) > 0 /\ 1 \in DOMAIN queue /\ queue[1] \in live
    <3>1. PICK x \in live : TRUE
      BY <2>2
    <3>2. PICK i \in DOMAIN queue : queue[i] = x
      BY <1>2 DEF Range
    <3>3. Len(queue) > 0
      BY <2>3, <3>2
    <3>4. 1 \in DOMAIN queue
      BY <2>3, <3>3
    <3> QED BY <1>2, <3>3, <3>4 DEF Range
  <2>5. oldest = 1
    <3>1. \A j \in 1 .. 1 - 1 : queue[j] \notin live
      OBVIOUS
    <3>2. ASSUME NEW i \in DOMAIN queue, \A j \in 1 .. i - 1 : queue[j] \notin live PROVE i = 1
      <4>1. i > 1 => 1 \in 1 .. i - 1
        BY <2>3
      <4> QED BY <2>3, <2>4, <3>2, <4>1
    <3> QED BY <2>4, <3>1, <3>2
  <2>6. stays = live \ {queue[1]}
    BY <1>5, <2>5
  <2>7. rest = SubSeq(queue, 2, Len(queue))
    <3> HIDE DEF oldest
    <3>1. oldest + 1 = 2
      BY <2>5
    <3> QED BY <1>5, <3>1
  <2> DEFINE s == SubSeq(queue, 2, Len(queue))
  <2>8. s \in Seq(Keys) /\ Range(s) = Range(queue) \ {queue[1]} /\ Ranked(adm, s)
    BY <1>2, <2>4, RankedRest
  <2>9. \A k \in stays : adm[queue[1]] < adm[k]
    <3> SUFFICES ASSUME NEW k \in live, k # queue[1] PROVE adm[queue[1]] < adm[k]
      BY <2>6
    <3>1. PICK i \in DOMAIN queue : queue[i] = k
      BY <1>2 DEF Range
    <3>2. 1 < i
      BY <2>3, <3>1
    <3> QED BY <1>2, <2>4, <3>1, <3>2 DEF Ranked
  <2>10. IsFiniteSet(live \ {queue[1]}) /\ Cardinality(live \ {queue[1]}) = Cardinality(live) - 1
    BY <1>3, <2>4, FS_RemoveElement
  <2>11. Cardinality(stays) <= MaxEntries - 1
    BY <1>3, <2>6, <2>10
  <2>12. rest \in Seq(Keys) /\ Range(rest) = stays /\ Ranked(adm, rest)
    BY <1>2, <2>6, <2>7, <2>8
  <2> DEFINE q == queue[1]
  <2>13. q \in live /\ stays = live \ {q} /\ Cardinality(live) >= MaxEntries
         /\ \A k \in stays : adm[q] < adm[k]
    BY <1>5, <2>4, <2>6, <2>9
  <2>14. stays \in SUBSET live /\ IsFiniteSet(stays)
    BY <2>6, <2>10
  <2> HIDE DEF stays, rest, full, q, s
  <2> QED BY <1>1, <2>11, <2>12, <2>13, <2>14 DEF live, K
<1> QED BY <1>4, <1>5

\* An admission is the last one; the one it pushes out was followed by as many as
\* the cache has room for.
LEMMA AdmitKeeps ==
  ASSUME CacheInv, NEW m \in Message, now' \in now .. MaxTime, Admit(m, Pruned(now'))
  PROVE  CacheInv'
<1> DEFINE live == Unexpired(now')
           K    == Key(m)
           v    == [key |-> K, at |-> now', admitted |-> TRUE]
           n    == Len(verdicts)
<1>1. CacheTypes /\ DedupExact
  BY DEF CacheInv
<1>2. PICK adm : Admitted(adm)
  BY DEF CacheInv
<1>3. /\ now \in Nat /\ now' \in 0 .. MaxTime /\ now <= now' /\ live \subseteq DOMAIN cache
      /\ verdicts \in Seq(Said) /\ n \in Nat /\ DOMAIN verdicts = 1 .. n
      /\ now' \in Nat
  BY <1>1, BusConstants, LenProperties DEF CacheTypes, Unexpired
<1>4. K \notin live /\ verdicts' = Append(verdicts, v)
  BY DEF Admit, Verdict
<1>5. PICK stays \in SUBSET live, rest \in Seq(Keys) :
              /\ cache' = [k \in stays \cup {K} |-> IF k = K THEN now' ELSE cache[k]]
              /\ order' = Append(rest, K)
              /\ Range(rest) = stays
              /\ Ranked(adm, rest)
              /\ IsFiniteSet(stays) /\ Cardinality(stays) <= MaxEntries - 1
              /\ \/ stays = live
                 \/ \E q \in live : /\ stays = live \ {q} /\ Cardinality(live) >= MaxEntries
                                    /\ \A k \in stays : adm[q] < adm[k]
  BY <1>1, <1>2, AdmitMakesRoom
<1>6. K \in Keys /\ v \in Said
  BY <1>3, BusConstants DEF Key, Keys, Message, Said
<1>7. /\ DOMAIN verdicts' = 1 .. n + 1 /\ \A i \in 1 .. n : verdicts'[i] = verdicts[i]
      /\ verdicts'[n + 1] = v /\ verdicts' \in Seq(Said)
  BY <1>3, <1>4, <1>6
<1>8. PICK adm2 : adm2 = [k \in stays \cup {K} |-> IF k = K THEN n + 1 ELSE adm[k]]
  OBVIOUS
<1>9. /\ K \notin stays /\ stays \subseteq DOMAIN cache
      /\ \A k \in stays : adm2[k] = adm[k] /\ adm[k] \in 1 .. n /\ cache'[k] = cache[k]
      /\ adm2[K] = n + 1 /\ cache'[K] = now' /\ DOMAIN cache' = stays \cup {K}
  BY <1>2, <1>3, <1>4, <1>5, <1>8 DEF Admitted
<1>10. v.admitted /\ v.key = K /\ v.at = now'
  OBVIOUS
<1> HIDE DEF live, v, n, K
<1>11. order' \in Seq(Keys) /\ Range(order') = stays \cup {K} /\ Ranked(adm2, order')
  <2>1. \A x \in Range(rest) : adm2[x] = adm[x] /\ adm2[x] < adm2[K]
    BY <1>3, <1>5, <1>9
  <2>2. adm2[K] \in Nat
    BY <1>3, <1>9
  <2> QED BY <1>5, <1>6, <2>1, <2>2, RankedAppend
<1>12. CacheTypes'
  <2>1. IsFiniteSet(stays \cup {K}) /\ Cardinality(stays \cup {K}) = Cardinality(stays) + 1
    BY <1>5, <1>9, FS_AddElement
  <2>2. Cardinality(stays) \in Nat
    BY <1>5, FS_CardinalityType
  <2>3. Cardinality(stays \cup {K}) <= MaxEntries
    BY <1>5, <2>1, <2>2, BusConstants
  <2>4. \A k \in stays \cup {K} : cache'[k] \in 0 .. now'
    <3>1. \A k \in stays : cache[k] \in 0 .. now
      BY <1>1, <1>9 DEF CacheTypes
    <3>2. \A k \in stays : cache[k] \in 0 .. now'
      BY <1>3, <3>1
    <3>3. now' \in 0 .. now'
      BY <1>3
    <3> QED BY <1>9, <3>2, <3>3
  <2>5. cache' \in [stays \cup {K} -> 0 .. now']
    BY <1>5, <2>4
  <2>6. stays \cup {K} \subseteq Keys
    BY <1>1, <1>6, <1>9 DEF CacheTypes
  <2> QED BY <1>3, <1>7, <1>9, <1>11, <2>1, <2>3, <2>5, <2>6 DEF CacheTypes
<1>13. Admitted(adm2)'
  <2>1. adm2 \in [stays \cup {K} -> 1 .. n + 1]
    <3>1. \A k \in stays : adm[k] \in 1 .. n + 1
      BY <1>3, <1>9
    <3>2. n + 1 \in 1 .. n + 1
      BY <1>3
    <3> QED BY <1>8, <3>1, <3>2
  <2>2. \A k \in stays \cup {K} : /\ verdicts'[adm2[k]].admitted /\ verdicts'[adm2[k]].key = k
                                  /\ verdicts'[adm2[k]].at = cache'[k]
    <3>1. \A k \in stays : /\ verdicts[adm[k]].admitted /\ verdicts[adm[k]].key = k
                           /\ verdicts[adm[k]].at = cache[k]
      BY <1>2, <1>9 DEF Admitted
    <3> QED BY <1>7, <1>9, <1>10, <3>1
  <2>3. ASSUME NEW i \in 1 .. n + 1, verdicts'[i].admitted, now' - verdicts'[i].at < Window
        PROVE  \/ verdicts'[i].key \in DOMAIN cache' /\ adm2[verdicts'[i].key] = i
               \/ Cardinality(Since(i)') >= MaxEntries
    <3>1. CASE i = n + 1
      BY <1>7, <1>9, <1>10, <3>1
    <3>2. CASE i \in 1 .. n
      <4> DEFINE k == verdicts[i].key
      <4>1. verdicts'[i] = verdicts[i]
        BY <1>7, <3>2
      <4>2. \/ k \in live /\ adm[k] = i
            \/ Cardinality(Since(i)) >= MaxEntries
        BY <1>1, <1>2, <1>3, <2>3, <3>2, <4>1, StillLive DEF live
      <4>3. /\ Since(i)' = Since(i) \cup {n + 1}
            /\ Cardinality(Since(i)) \in Nat /\ Cardinality(Since(i)') \in Nat
            /\ Cardinality(Since(i)) <= Cardinality(Since(i)')
        BY <1>1, <1>3, <1>4, <1>10, <3>2, SinceStep DEF n
      <4> HIDE DEF k
      <4>4. CASE Cardinality(Since(i)) >= MaxEntries
        BY <4>3, <4>4, BusConstants
      <4>5. CASE k \in stays /\ adm[k] = i
        BY <1>9, <4>1, <4>5 DEF k
      <4>6. CASE k \in live \ stays /\ adm[k] = i
        <5>1. PICK q \in live : /\ stays = live \ {q} /\ Cardinality(live) >= MaxEntries
                                /\ \A x \in stays : adm[q] < adm[x]
          BY <1>5, <4>6
        <5>2. q = k
          BY <4>6, <5>1
        <5>3. PICK f : f = [x \in live |-> adm[x]]
          OBVIOUS
        <5>4. /\ \A x \in live : adm[x] \in 1 .. n /\ verdicts[adm[x]].key = x
              /\ f \in [live -> 1 .. n]
          BY <1>2, <1>3, <5>3 DEF Admitted
        <5>5. \A x, y \in live : f[x] = f[y] => x = y
          BY <5>3, <5>4
        <5>6. \A x \in live \ {q} : f[x] \in Since(i)'
          <6> SUFFICES ASSUME NEW x \in live, x # q PROVE adm[x] \in Since(i)
            BY <4>3, <5>3
          <6>1. adm[x] \in 1 .. n /\ i < adm[x] /\ verdicts[adm[x]].admitted
            BY <1>2, <1>3, <4>6, <5>1, <5>2, <5>4 DEF Admitted
          <6>2. adm[x] \in i + 1 .. (n + 1) - 1
            BY <1>3, <3>2, <6>1
          <6> QED BY <6>1, <6>2 DEF Since, Between, n
        <5>7. Since(i)' \in SUBSET (1 .. n + 1) /\ n + 1 \in Since(i)'
          <6>1. Since(i) \subseteq i + 1 .. (n + 1) - 1
            BY DEF Since, Between, n
          <6>2. i + 1 .. (n + 1) - 1 \subseteq 1 .. n + 1 /\ n + 1 \in 1 .. n + 1
            BY <1>3, <3>2
          <6> QED BY <4>3, <6>1, <6>2
        <5> DEFINE W == Since(i)'
        <5> HIDE DEF W
        <5>8. /\ n \in Nat /\ W \in SUBSET (1 .. n + 1) /\ n + 1 \in W
              /\ \A x \in live \ {q} : f[x] \in W
          BY <1>3, <5>6, <5>7 DEF W
        <5>9. Cardinality(live) <= Cardinality(W) /\ Cardinality(W) \in Nat
          BY <5>4, <5>5, <5>8, PushedOut
        <5>10. Cardinality(live) \in Nat
          BY <1>1, <1>3, FS_Subset, FS_CardinalityType DEF CacheTypes
        <5> QED BY <5>1, <5>9, <5>10, BusConstants DEF W
      <4> QED BY <4>2, <4>4, <4>5, <4>6
    <3> QED BY <1>3, <3>1, <3>2
  <2> QED BY <1>7, <1>9, <1>11, <2>1, <2>2, <2>3 DEF Admitted
<1>14. DedupExact'
  <2>1. ASSUME NEW i \in DOMAIN verdicts, verdicts[i].admitted, verdicts[i].key = v.key,
               v.at - verdicts[i].at < Window
        PROVE  Cardinality(Since(i)) >= MaxEntries
    BY <1>1, <1>2, <1>4, <1>10, <2>1, StillLive DEF live
  <2> QED BY <1>1, <1>4, <1>6, <1>10, <2>1, ExactStep
<1> QED BY <1>12, <1>13, <1>14 DEF CacheInv

LEMMA CacheStep == ASSUME CacheInv, [BusNext]_busVars PROVE CacheInv'
<1>1. ASSUME UNCHANGED dedupVars PROVE CacheInv'
  <2>1. UNCHANGED <<now, cache, order, verdicts>>
    BY <1>1 DEF dedupVars
  <2>2. CacheTypes'
    BY <2>1 DEF CacheInv, CacheTypes
  <2>3. PICK adm : Admitted(adm)
    BY DEF CacheInv
  <2>4. Admitted(adm)'
    BY <2>1, <2>3 DEF Admitted, Since
  <2>5. DedupExact'
    BY <2>1 DEF CacheInv, DedupExact
  <2> QED BY <2>2, <2>4, <2>5 DEF CacheInv
<1>2. ASSUME NEW t \in Thread, NEW m \in Message, Chain(t, m) PROVE CacheInv'
  <2>1. UNCHANGED dedupVars \/ (now' \in now .. MaxTime /\ Dedup(m))
    BY <1>2 DEF Chain
  <2> QED BY <1>1, <2>1, RepeatKeeps, AdmitKeeps DEF Dedup
<1>3. ASSUME NEW t \in Thread, Snapshot(t) \/ Call(t) \/ Return(t) PROVE UNCHANGED dedupVars
  BY <1>3 DEF Snapshot, Taking, Call, Return
<1>4. ASSUME NEW filter, NEW sink, SubscribeAlone(filter, sink) \/ TakeId(filter, sink)
      PROVE  UNCHANGED dedupVars
  BY <1>4 DEF SubscribeAlone, TakeId, TakingId, Joins
<1>5. ASSUME NEW s, Join(s) \/ Unsubscribe(s) PROVE UNCHANGED dedupVars
  BY <1>5 DEF Join, Joins, Unsubscribe, Dropping
<1>6. ASSUME NEW p, UsePlugin(p) PROVE UNCHANGED dedupVars
  BY <1>6 DEF UsePlugin
<1>7. CASE BusFreed \/ UNCHANGED busVars
  BY <1>1, <1>7 DEF BusFreed, busVars
<1>8. CASE \E t \in Thread, m \in Message : Chain(t, m)
  BY <1>2, <1>8
<1>9. CASE \E t \in Thread : Snapshot(t) \/ Call(t) \/ Return(t)
  BY <1>1, <1>3, <1>9
<1>10. CASE \E filter \in Filter, sink \in {"queue", "host"} :
               SubscribeAlone(filter, sink) \/ TakeId(filter, sink)
  BY <1>1, <1>4, <1>10
<1>11. CASE (\E s : Join(s)) \/ (\E s : Unsubscribe(s)) \/ (\E p : UsePlugin(p))
  BY <1>1, <1>5, <1>6, <1>11
<1> QED BY <1>1, <1>7, <1>8, <1>9, <1>10, <1>11 DEF BusNext

LEMMA CacheInit == HandleInit => CacheInv
<1> SUFFICES ASSUME HandleInit PROVE CacheInv
  OBVIOUS
<1>1. now = 0 /\ cache = <<>> /\ order = <<>> /\ verdicts = <<>>
  BY DEF HandleInit, BusInit
<1>2. DOMAIN cache = {} /\ DOMAIN order = {} /\ DOMAIN verdicts = {}
  BY <1>1
<1>3. /\ Range(order) = {} /\ order \in Seq(Keys) /\ verdicts \in Seq(Said)
      /\ cache \in [{} -> 0 .. now]
  BY <1>1, <1>2 DEF Range
<1>4. IsFiniteSet({}) /\ Cardinality({}) = 0
  BY FS_EmptySet
<1>5. now \in 0 .. MaxTime /\ 0 <= MaxEntries
  BY <1>1, BusConstants
<1>6. CacheTypes
  BY <1>2, <1>3, <1>4, <1>5 DEF CacheTypes
<1>7. Admitted([k \in {} |-> 0])
  BY <1>2 DEF Admitted, Ranked
<1>8. DedupExact
  BY <1>2 DEF DedupExact
<1> QED BY <1>6, <1>7, <1>8 DEF CacheInv

\* Cache and queue agree with what was admitted, in every reachable state.
THEOREM CacheInvHolds == HandleSpec => []CacheInv
<1>1. SetupInv /\ CacheInv /\ [HandleNext]_handleVars => CacheInv'
  BY BusSteps, CacheStep
<1> QED BY <1>1, CacheInit, FanInvHolds, PTL DEF HandleSpec

\* A message is taken for a repetition exactly if it was admitted less than the
\* window ago, unless max_entries others have been admitted since.
THEOREM DedupExactHolds == HandleSpec => []DedupExact
<1>1. CacheInv => DedupExact
  BY DEF CacheInv
<1> QED BY <1>1, CacheInvHolds, PTL

\* Every variable has its type; in particular the cache stays within max_entries
\* and its queue has each of its keys once, as DedupPlugin relies on.
THEOREM HandleTypeCorrect == HandleSpec => []HandleTypeOK
<1>1. SetupInv /\ FanInv /\ QueueInv /\ CacheInv => HandleTypeOK
  <2> SUFFICES ASSUME SetupInv, FanInv, QueueInv, CacheInv PROVE HandleTypeOK
    OBVIOUS
  <2>1. CacheTypes
    BY DEF CacheInv
  <2>2. PICK adm : Ranked(adm, order)
    BY DEF CacheInv, Admitted
  <2>3. Cardinality(Range(order)) = Len(order)
    BY <2>1, <2>2, RankedCount DEF CacheTypes
  <2>4. /\ now \in 0 .. MaxTime /\ cache \in [DOMAIN cache -> 0 .. now]
        /\ Cardinality(DOMAIN cache) <= MaxEntries
        /\ Range(order) = DOMAIN cache /\ Len(order) = Cardinality(DOMAIN cache)
    BY <2>1, <2>3 DEF CacheTypes
  <2>5. /\ Range(subscribers) = held
        /\ taken \subseteq [id : 1 .. made, filter : Filter, sink : {"queue", "host"}]
    BY DEF FanInv, SubscribersInv, IdsInv
  <2>6. seq \in 0 .. MaxPasses
    BY BusConstants DEF SetupInv
  <2>7. polled \cup lost \subseteq 1 .. pushes
    BY DEF QueueInv
  <2> QED BY <2>4, <2>5, <2>6, <2>7 DEF SetupInv, HandleTypeOK
<1> QED BY <1>1, FanInvHolds, QueueInvHolds, CacheInvHolds, PTL
=============================================================================
