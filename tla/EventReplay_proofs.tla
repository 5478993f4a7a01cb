------------------------- MODULE EventReplay_proofs -------------------------
(***************************************************************************)
(* The replay protocol for every ring, page size and number of faults.     *)
(***************************************************************************)
EXTENDS EventReplay, FiniteSetTheorems, SequenceTheorems, WellFoundedInduction,
        TLAPS

\* Cursors are given out once, and the newest row outlives the others.
LogInv ==
  /\ IsFiniteSet(rows)
  /\ \A r \in rows : r.cursor <= lastCursor /\ r.event <= events
  /\ rows # {} => \E r \in rows : r.cursor = lastCursor

\* What is on its way to the client comes from the log, and nothing in the log
\* lies between the client's cursor and a row of the page without being in it.
PageInv ==
  /\ \A p \in page : p.cursor <= lastCursor /\ p.event <= events
  /\ \A p \in page : cursor < p.cursor
  /\ \A p \in page, r \in rows :
       r.cursor <= p.cursor => r.cursor <= cursor \/ r \in page

\* Only a client with a stream is live, and it opened it in the past.
StreamInv ==
  /\ \A i \in 1 .. Len(sent) : sent[i] <= events
  /\ at <= Subscribed
  /\ client = "live" => at > 0
  /\ StreamFirst /\ client \in {"catching_up", "replaying"} => at > 0
  /\ client \in {"offline", "opening"} => page = {}

ReplayInv ==
  /\ ReplayTypeOK
  /\ LogInv
  /\ PageInv
  /\ StreamInv
  /\ CursorHonest

\* The initial state satisfies the invariant.
LEMMA ReplayInitInv == ReplayInit => ReplayInv
<1> SUFFICES ASSUME ReplayInit PROVE ReplayInv
  OBVIOUS
<1>1. IsFiniteSet(rows)
  BY FS_EmptySet DEF ReplayInit, LogInit
<1>2. sent \in Seq(Event) /\ Len(sent) = 0
  BY DEF ReplayInit
<1> QED
  BY <1>1, <1>2, ReplayConstants
     DEF Plain, ReplayInit, LogInit, ReplayInv, ReplayTypeOK, LogInv, PageInv, StreamInv,
         CursorHonest, Sink, Client, Subscribed

\* latest_cursor is the last cursor given out, as long as a row is left.
LEMMA LatestIsLast ==
  ASSUME ReplayInv, rows # {}
  PROVE  LatestCursor = lastCursor
<1>1. PICK r \in rows : r.cursor = lastCursor
  BY DEF ReplayInv, LogInv
<1>2. /\ lastCursor \in {q.cursor : q \in rows}
      /\ \A q \in rows : q.cursor <= lastCursor
  BY <1>1 DEF ReplayInv, LogInv
<1>3. \A c \in {q.cursor : q \in rows} :
        (\A q \in rows : q.cursor <= c) => c = lastCursor
  BY <1>1, <1>2 DEF ReplayInv, ReplayTypeOK
<1> QED BY <1>2, <1>3 DEF LatestCursor

\* What is not behind latest_cursor is not behind any row.
LEMMA LatestBounds ==
  ASSUME ReplayInv, NEW c \in Nat, ~(c < LatestCursor), NEW r \in rows
  PROVE  r.cursor <= c
  BY LatestIsLast, ReplayConstants DEF ReplayInv, ReplayTypeOK, LogInv

\* A page has no holes: with a row it has every row between it and `since`.
LEMMA PageDense ==
  ASSUME ReplayInv, NEW limit, NEW p \in ReplaySince(cursor, limit),
         PageSize(limit) \in Nat,
         NEW r \in rows, cursor < r.cursor, r.cursor <= p.cursor
  PROVE  r \in ReplaySince(cursor, limit)
<1> DEFINE Below(x) == {q \in rows : cursor < q.cursor /\ q.cursor < x.cursor}
<1>1. p \in rows /\ Cardinality(Below(p)) < PageSize(limit)
  BY DEF ReplaySince
<1>2. IsFiniteSet(Below(p)) /\ Below(p) \subseteq rows
  BY FS_Subset DEF ReplayInv, LogInv
<1>3. Below(r) \in SUBSET Below(p)
  BY <1>1 DEF ReplayInv, ReplayTypeOK
<1>4. /\ Cardinality(Below(r)) <= Cardinality(Below(p))
      /\ Cardinality(Below(r)) \in Nat
      /\ Cardinality(Below(p)) \in Nat
  BY <1>2, <1>3, FS_Subset, FS_CardinalityType
<1>5. Cardinality(Below(r)) < PageSize(limit)
  BY <1>1, <1>4
<1> QED BY <1>5 DEF ReplaySince

\* A builder step of the daemon keeps the invariant.
LEMMA BootInv ==
  ASSUME ReplayInv, Boot
  PROVE  ReplayInv'
<1>1. registrySink' \in Sink /\ providerSink' \in Sink /\ built' \subseteq Steps
  <2>1. CASE Register
    BY <2>1 DEF Register, Steps, ReplayInv, ReplayTypeOK
  <2>2. CASE WithPersist
    <3>1. [log |-> TRUE, bus |-> "bus" \in built] \in Sink
      <4>1. ("bus" \in built) \in BOOLEAN
        OBVIOUS
      <4> QED BY <4>1, Zenon DEF Sink
    <3> QED BY <2>2, <3>1 DEF WithPersist, Wire, ReplayInv, ReplayTypeOK
  <2>3. CASE WithEventBus
    <3>1. [log |-> "persist" \in built, bus |-> TRUE] \in Sink
      <4>1. ("persist" \in built) \in BOOLEAN
        OBVIOUS
      <4> QED BY <4>1, Zenon DEF Sink
    <3> QED BY <2>3, <3>1 DEF WithEventBus, Wire, ReplayInv, ReplayTypeOK
  <2> QED BY <2>1, <2>2, <2>3 DEF Boot
<1>2. UNCHANGED <<rows, lastCursor, sent, events, failed, client, cursor, page, at,
                  got, faults>>
  BY DEF Boot, Register, WithPersist, WithEventBus, Wire, logVars, clientVars
<1> QED
  BY <1>1, <1>2
     DEF ReplayInv, ReplayTypeOK, LogInv, PageInv, StreamInv, CursorHonest, Subscribed

\* A message that a plugin drops keeps the invariant.
LEMMA FilteredInv ==
  ASSUME ReplayInv, ReportFiltered
  PROVE  ReplayInv'
<1>1. /\ events' = events + 1 /\ events' \in 0 .. MaxEvents
      /\ UNCHANGED <<rows, lastCursor, sent, failed, built, registrySink,
                     providerSink, client, cursor, page, at, got, faults>>
  BY ReplayConstants
     DEF ReportFiltered, Report, ReplayInv, ReplayTypeOK, logVars, daemonVars,
         clientVars
<1>2. ReplayTypeOK'
  BY <1>1 DEF ReplayInv, ReplayTypeOK
<1>3. StreamInv'
  <2> SUFFICES ASSUME NEW i \in 1 .. Len(sent) PROVE sent[i] <= events + 1
    BY <1>1 DEF ReplayInv, StreamInv, Subscribed
  <2>1. sent[i] \in Event
    BY ElementOfSeq DEF ReplayInv, ReplayTypeOK
  <2> QED BY <2>1 DEF ReplayInv, ReplayTypeOK, StreamInv, Event
<1> QED
  BY <1>1, <1>2, <1>3
     DEF ReplayInv, ReplayTypeOK, LogInv, PageInv, CursorHonest, Event

\* Forwarding an event keeps the invariant, whether it gets a row or not.
LEMMA ReportInv ==
  ASSUME ReplayInv, ReportLogged \/ ReportUnlogged
  PROVE  ReplayInv'
<1> USE DEF ReplayInv, ReplayTypeOK, daemonVars, clientVars
<1>1. /\ events' = events + 1 /\ events' \in Event
      /\ sent' = Append(sent, events')
      /\ UNCHANGED <<daemonVars, clientVars, faults>>
  <2>1. Forward /\ Report
    BY DEF ReportLogged, ReportUnlogged, Forward
  <2>2. events' = events + 1 /\ events \in 0 .. MaxEvents /\ events < MaxEvents
    BY <2>1 DEF Report
  <2>3. events' \in Event
    BY <2>2, ReplayConstants DEF Event
  <2> QED BY <2>1, <2>2, <2>3 DEF Report, Forward, Send
<1>2. /\ sent' \in Seq(Event)
      /\ Len(sent') = Len(sent) + 1
      /\ \A i \in 1 .. Len(sent) : sent'[i] = sent[i]
      /\ sent'[Len(sent) + 1] = events'
  <2>1. sent \in Seq(Event)
    OBVIOUS
  <2> QED BY <1>1, <2>1, AppendProperties
<1>3. StreamInv'
  <2>1. \A i \in 1 .. Len(sent') : i \in 1 .. Len(sent) \/ i = Len(sent) + 1
    BY <1>2
  <2>2. \A i \in 1 .. Len(sent') : sent'[i] <= events'
    <3> SUFFICES ASSUME NEW i \in 1 .. Len(sent') PROVE sent'[i] <= events'
      OBVIOUS
    <3>1. CASE i \in 1 .. Len(sent)
      <4>1. sent[i] \in Event /\ sent[i] <= events
        BY <3>1, ElementOfSeq DEF StreamInv
      <4> QED BY <1>1, <1>2, <3>1, <4>1 DEF Event
    <3>2. CASE i = Len(sent) + 1
      BY <1>1, <1>2, <3>2 DEF Event
    <3> QED BY <2>1, <3>1, <3>2
  <2>3. at' <= Subscribed'
    BY <1>1, <1>2 DEF StreamInv, Subscribed
  <2> QED BY <1>1, <2>2, <2>3 DEF StreamInv
<1>4. \/ UNCHANGED logVars
      \/ /\ lastCursor' = lastCursor + 1
         /\ rows' = rows \cup {Row(lastCursor + 1, events')}
  BY DEF ReportLogged, ReportUnlogged, Insert
<1>5. failed' \subseteq failed \cup {events'}
  BY DEF ReportLogged, ReportUnlogged
<1>6. CASE UNCHANGED logVars
  <2>1. ReplayTypeOK'
    BY <1>1, <1>2, <1>5, <1>6 DEF logVars, Event
  <2>2. LogInv' /\ PageInv' /\ CursorHonest'
    BY <1>1, <1>6 DEF logVars, LogInv, PageInv, CursorHonest, Event
  <2> QED BY <2>1, <2>2, <1>3
<1>7. CASE /\ lastCursor' = lastCursor + 1
           /\ rows' = rows \cup {Row(lastCursor + 1, events')}
  <2> DEFINE new == Row(lastCursor + 1, events')
  <2>1. new.cursor = lastCursor + 1 /\ new.event = events'
    BY DEF Row
  <2>2. new \in [cursor : Nat \ {0}, event : Event]
    BY <1>1 DEF Row, Event
  <2>3. ReplayTypeOK'
    BY <1>1, <1>2, <1>5, <1>7, <2>2 DEF Event
  <2>4. LogInv'
    <3>1. IsFiniteSet(rows')
      BY <1>7, FS_AddElement DEF LogInv
    <3> QED BY <3>1, <1>1, <1>7, <2>1 DEF LogInv, Event
  <2>5. PageInv'
    BY <1>1, <1>7, <2>1 DEF PageInv, LogInv, Event
  <2>6. CursorHonest'
    BY <1>1, <1>7, <2>1 DEF CursorHonest
  <2> QED BY <2>3, <2>4, <2>5, <2>6, <1>3
<1> QED BY <1>4, <1>6, <1>7

\* A restart, a disconnect or a pruning keeps the invariant.
LEMMA FaultInv ==
  ASSUME ReplayInv, Restart \/ Disconnect \/ PruneOld
  PROVE  ReplayInv'
<1> USE DEF ReplayInv, ReplayTypeOK, logVars, daemonVars, clientVars, Fault
<1>1. faults' \in 0 .. MaxFaults
  BY ReplayConstants DEF Restart, Disconnect, PruneOld
<1>2. CASE Restart
  <2>1. sent' \in Seq(Event) /\ Len(sent') = 0
    BY <1>2 DEF Restart
  <2> QED
    BY <1>1, <1>2, <2>1
       DEF Restart, Plain, HangUp, LogInv, PageInv, StreamInv, CursorHonest, Sink, Client,
           Subscribed
<1>3. CASE Disconnect
  BY <1>1, <1>3
     DEF Disconnect, HangUp, LogInv, PageInv, StreamInv, CursorHonest, Client,
         Subscribed
<1>4. CASE PruneOld
  <2>1. PICK keep \in 0 .. 1 : Prune(keep)
    BY <1>4 DEF PruneOld
  <2>2. rows' \subseteq rows /\ lastCursor' = lastCursor
    BY <2>1 DEF Prune
  <2>3. IsFiniteSet(rows')
    BY <2>2, FS_Subset DEF LogInv
  <2>4. rows' # {} => \E r \in rows' : r.cursor = lastCursor
    <3> SUFFICES ASSUME NEW q \in rows'
                 PROVE  \E r \in rows' : r.cursor = lastCursor
      OBVIOUS
    <3>1. rows # {} /\ LatestCursor = lastCursor
      BY <2>2, LatestIsLast
    <3>2. q \in rows /\ lastCursor - keep < q.cursor /\ q.cursor <= lastCursor
      BY <2>1, <3>1 DEF Prune, LogInv
    <3>3. PICK r \in rows : r.cursor = lastCursor
      BY <3>1 DEF LogInv
    <3>4. lastCursor - keep < r.cursor
      BY <3>2, <3>3
    <3> QED BY <2>1, <3>1, <3>3, <3>4 DEF Prune
  <2> QED
    BY <1>1, <1>4, <2>2, <2>3, <2>4
       DEF PruneOld, LogInv, PageInv, StreamInv, CursorHonest, Subscribed
<1> QED BY <1>2, <1>3, <1>4

\* A reply leaves the client with an honest cursor, and if the client stops there
\* then with no row behind it, unless latest_cursor could not be read beside an
\* empty page.
LEMMA ReplyHonest ==
  ASSUME ReplayInv, Reply
  PROVE  /\ cursor' \in 0 .. lastCursor
         /\ \A r \in rows : r.cursor <= cursor' => r.event \in got'
         /\ client' # "catching_up" =>
              (\A r \in rows : r.event \in got') \/ (page = {} /\ got' = got)
<1> USE DEF ReplayInv, ReplayTypeOK
<1>0. PICK latest \in {LatestCursor, 0} : ReplyTo(latest)
  BY DEF Reply
<1>1. /\ got' = got \cup {r.event : r \in page}
      /\ client' = IF cursor' < latest \/ (latest = 0 /\ page # {})
                   THEN "catching_up" ELSE Caught
  BY <1>0 DEF ReplyTo
<1>2. /\ cursor' \in 0 .. lastCursor
      /\ \A r \in rows : r.cursor <= cursor' => r.event \in got'
  <2>1. CASE page = {} /\ cursor' = cursor
    BY <1>1, <2>1 DEF CursorHonest
  <2>2. CASE \E last \in page :
               /\ \A r \in page : r.cursor <= last.cursor
               /\ cursor' = last.cursor
    <3>1. PICK last \in page : cursor' = last.cursor
      BY <2>2
    <3>2. \A r \in rows : r.cursor <= cursor' => r.cursor <= cursor \/ r \in page
      BY <3>1 DEF PageInv
    <3> QED BY <1>1, <3>1, <3>2 DEF PageInv, CursorHonest
  <2> QED BY <2>1, <2>2 DEF Reply
<1>3. CASE latest = LatestCursor
  <2>1. client' # "catching_up" => \A r \in rows : r.cursor <= cursor'
    BY <1>1, <1>2, <1>3, LatestBounds
  <2> QED BY <1>2, <2>1
<1>4. CASE latest = 0
  <2>1. client' # "catching_up" => page = {}
    BY <1>1, <1>4
  <2> QED BY <1>1, <1>2, <2>1
<1> QED BY <1>3, <1>4

\* An empty page says that no row is after `since`.
LEMMA EmptyPage ==
  ASSUME ReplayInv, NEW limit, PageSize(limit) \in Nat \ {0},
         ReplaySince(cursor, limit) = {}, NEW r \in rows
  PROVE  r.cursor <= cursor
<1> SUFFICES ASSUME cursor < r.cursor PROVE FALSE
  BY DEF ReplayInv, ReplayTypeOK
<1> DEFINE After == {q.cursor : q \in {x \in rows : cursor < x.cursor}}
<1>1. After \subseteq Nat /\ After # {}
  BY DEF ReplayInv, ReplayTypeOK
<1>2. PICK c \in After : \A d \in After : ~(<<d, c>> \in OpToRel(<, Nat))
  BY <1>1, NatLessThanWellFounded, WFMin, Zenon
<1>3. \A d \in After : ~(d < c)
  BY <1>1, <1>2 DEF OpToRel
<1>4. PICK first \in rows : first.cursor = c /\ cursor < c
  OBVIOUS
<1>5. {q \in rows : cursor < q.cursor /\ q.cursor < first.cursor} = {}
  BY <1>3, <1>4
<1>6. first \in ReplaySince(cursor, limit)
  BY <1>4, <1>5, FS_EmptySet DEF ReplaySince
<1> QED BY <1>6

\* A step of the client keeps the invariant.
LEMMA ClientInv ==
  ASSUME ReplayInv, ClientStep
  PROVE  ReplayInv'
<1> USE DEF ReplayInv, ReplayTypeOK, logVars, daemonVars, Client, Subscribed
<1>1. CASE Connect
  BY <1>1 DEF Connect, LogInv, PageInv, StreamInv, CursorHonest
<1>2. CASE Replay
  <2>1. PICK limit \in 0 .. MaxPage + 1 : page' = ReplaySince(cursor, limit)
    BY <1>2 DEF Replay
  <2>2. PageSize(limit) \in Nat
    BY MaxPagePositive DEF PageSize
  <2>3. page' \subseteq rows /\ \A p \in page' : cursor < p.cursor
    BY <2>1 DEF ReplaySince
  <2>4. \A p \in page', r \in rows :
          r.cursor <= p.cursor => r.cursor <= cursor \/ r \in page'
    <3> SUFFICES ASSUME NEW p \in page', NEW r \in rows, r.cursor <= p.cursor,
                        ~(r.cursor <= cursor)
                 PROVE  r \in page'
      OBVIOUS
    <3>1. cursor < r.cursor
      OBVIOUS
    <3> QED BY <2>1, <2>2, <3>1, PageDense
  <2>5. UNCHANGED <<rows, lastCursor, sent, built, registrySink, providerSink,
                    events, failed, cursor, at, got, faults>>
    BY <1>2 DEF Replay
  <2>6. ReplayTypeOK' /\ StreamInv'
    BY <1>2, <2>3, <2>5 DEF Replay, StreamInv
  <2>7. PageInv'
    BY <2>3, <2>4, <2>5 DEF PageInv, LogInv
  <2> QED BY <2>5, <2>6, <2>7 DEF LogInv, CursorHonest
<1>3. CASE Reply
  <2>1. UNCHANGED <<rows, lastCursor, sent, built, registrySink, providerSink,
                    events, failed, at, faults>>
    BY <1>3 DEF Reply, ReplyTo
  <2>2. page' = {} /\ got' = got \cup {r.event : r \in page}
    BY <1>3 DEF Reply, ReplyTo
  <2>3. /\ client = "replaying"
        /\ client' \in {"catching_up", "opening", "live"}
        /\ client' = "live" => at > 0
    BY <1>3 DEF Reply, ReplyTo, Caught
  <2>4. got' \subseteq 1 .. events'
    <3>1. \A p \in page : p.event \in Nat /\ 1 <= p.event /\ p.event <= events
      BY DEF PageInv, Event
    <3>2. {r.event : r \in page} \subseteq 1 .. events
      BY <3>1
    <3> QED BY <2>1, <2>2, <3>2
  <2>5. cursor' \in 0 .. lastCursor' /\ CursorHonest'
    BY <1>3, <2>1, ReplyHonest DEF CursorHonest
  <2>6. ReplayTypeOK'
    BY <2>1, <2>2, <2>3, <2>4, <2>5
  <2>7. LogInv' /\ PageInv' /\ StreamInv'
    BY <2>1, <2>2, <2>3 DEF LogInv, PageInv, StreamInv
  <2> QED BY <2>5, <2>6, <2>7
<1>4. CASE OpenStream
  BY <1>4 DEF OpenStream, LogInv, PageInv, StreamInv, CursorHonest
<1>5. CASE StreamFrame
  <2>1. at \in 1 .. Len(sent)
    BY <1>5 DEF StreamFrame, Ready, StreamInv
  <2>2. sent[at] \in 1 .. events
    <3>1. sent[at] \in Event
      BY <2>1, ElementOfSeq
    <3> QED BY <2>1, <3>1 DEF StreamInv, Event
  <2>3. /\ UNCHANGED <<rows, lastCursor, sent, built, registrySink, providerSink,
                       events, failed, client, cursor, page, faults>>
        /\ got' = got \cup {sent[at]}
        /\ at' = at + 1
    BY <1>5 DEF StreamFrame
  <2>4. ReplayTypeOK'
    <3>1. at' \in Nat
      BY <2>1, <2>3
    <3>2. got \subseteq 1 .. events
      OBVIOUS
    <3>3. got' \subseteq 1 .. events'
      BY <2>2, <2>3, <3>2
    <3> QED BY <2>3, <3>1, <3>3
  <2>5. LogInv' /\ PageInv' /\ CursorHonest'
    BY <2>3 DEF LogInv, PageInv, CursorHonest
  <2>6. StreamInv'
    BY <2>1, <2>3 DEF StreamInv
  <2> QED BY <2>4, <2>5, <2>6
<1>6. CASE StreamLags
  <2>1. Oldest \in Nat /\ Oldest <= Len(sent) + 1 /\ Oldest > 0
    BY CapacityPositive DEF Oldest
  <2> QED
    BY <1>6, <2>1 DEF StreamLags, LogInv, PageInv, StreamInv, CursorHonest
<1> QED BY <1>1, <1>2, <1>3, <1>4, <1>5, <1>6 DEF ClientStep

\* The invariant holds in every reachable state.
THEOREM ReplayInvHolds == ReplaySpec => []ReplayInv
<1>1. ReplayInv /\ [ReplayNext]_replayVars => ReplayInv'
  <2> SUFFICES ASSUME ReplayInv, [ReplayNext]_replayVars PROVE ReplayInv'
    OBVIOUS
  <2>1. CASE ReplayNext
    BY <2>1, BootInv, ReportInv, FilteredInv, FaultInv, ClientInv DEF ReplayNext
  <2>2. CASE UNCHANGED replayVars
    BY <2>2 DEF replayVars, logVars, daemonVars, clientVars, ReplayInv, ReplayTypeOK,
                LogInv, PageInv, StreamInv, CursorHonest, Subscribed
  <2> QED BY <2>1, <2>2
<1> QED BY ReplayInitInv, <1>1, PTL DEF ReplaySpec

\* Every variable keeps its type.
THEOREM ReplayTypeCorrect == ReplaySpec => []ReplayTypeOK
  BY ReplayInvHolds, PTL DEF ReplayInv

\* A client has processed every row that is not after its cursor, whichever way
\* it opens its stream and however the log is pruned.
THEOREM CursorHonestHolds == ReplaySpec => []CursorHonest
  BY ReplayInvHolds, PTL DEF ReplayInv

\* The events that have had no row.
Rowless == failed \cup (Filtered \cap 1 .. events)

\* What the two remaining promises need of the host and of the client.
SinkInv ==
  /\ IsFiniteSet(failed)
  /\ registrySink.log <=> "persist" \in built
  /\ registrySink.bus <=> "bus" \in built
  /\ "register" \in built => built = Steps /\ providerSink = registrySink
  /\ EveryEventAppended

\* The events without a row are finitely many.
LEMMA RowlessFinite ==
  ASSUME ReplayInv, SinkInv
  PROVE  IsFiniteSet(Rowless)
<1>1. IsFiniteSet(1 .. events)
  BY FS_Interval DEF ReplayInv, ReplayTypeOK
<1>2. IsFiniteSet(Filtered \cap 1 .. events)
  BY <1>1, FS_Subset
<1> QED BY <1>2, FS_Union DEF SinkInv, Rowless

\* An event without a row is one more of them, and nothing else is sent.
LEMMA OneMoreRowless ==
  ASSUME ReplayInv, SinkInv, ReportUnlogged \/ ReportFiltered,
         Rowless' = Rowless \cup {events + 1}, UNCHANGED lastCursor
  PROVE  lastCursor' + Cardinality(Rowless') = events'
<1>1. events + 1 \notin Rowless
  BY DEF Rowless, ReplayInv, ReplayTypeOK
<1>2. /\ Cardinality(Rowless') = Cardinality(Rowless) + 1
      /\ Cardinality(Rowless) \in Nat
  BY <1>1, RowlessFinite, FS_AddElement, FS_CardinalityType
<1>3. events' = events + 1 /\ lastCursor + Cardinality(Rowless) = events
  BY DEF ReportUnlogged, ReportFiltered, Forward, Report, SinkInv,
         EveryEventAppended, Rowless
<1> QED BY <1>2, <1>3 DEF ReplayInv, ReplayTypeOK

\* Every event the providers report has its row, unless a plugin dropped it or
\* SQLite refused it, in a host that wires the log and the bus, in either order,
\* before it builds its providers.
THEOREM EveryEventAppendedHolds ==
  ASSUME ~RegisterFirst
  PROVE  ReplaySpec => []EveryEventAppended
<1>1. ReplayInit => SinkInv
  <2> SUFFICES ASSUME ReplayInit PROVE SinkInv
    OBVIOUS
  <2>1. Rowless = {} /\ lastCursor = 0 /\ events = 0 /\ sent = <<>> /\ failed = {}
    BY DEF ReplayInit, LogInit, Rowless
  <2>2. Cardinality(Rowless) = 0 /\ IsFiniteSet(failed)
    BY <2>1, FS_EmptySet
  <2>3. EveryEventAppended
    BY <2>1, <2>2 DEF EveryEventAppended, Rowless
  <2> QED BY <2>2, <2>3 DEF ReplayInit, Plain, SinkInv
<1>2. ReplayInv /\ SinkInv /\ [ReplayNext]_replayVars => SinkInv'
  <2> SUFFICES ASSUME ReplayInv, SinkInv, [ReplayNext]_replayVars
               PROVE  SinkInv'
    OBVIOUS
  <2>1. CASE Register
    BY <2>1 DEF Register, SinkInv, EveryEventAppended, Steps, logVars
  <2>2. CASE WithPersist \/ WithEventBus
    <3>1. /\ "register" \notin built' /\ UNCHANGED <<failed, lastCursor, events, sent>>
          /\ built' = built \cup {"persist"} \/ built' = built \cup {"bus"}
      BY <2>2 DEF WithPersist, WithEventBus, Wire, SinkInv, Steps, logVars
    <3>2. /\ registrySink'.log <=> "persist" \in built'
          /\ registrySink'.bus <=> "bus" \in built'
      <4>1. CASE WithPersist
        BY <4>1 DEF WithPersist, Wire
      <4>2. CASE WithEventBus
        BY <4>2 DEF WithEventBus, Wire
      <4> QED BY <2>2, <4>1, <4>2
    <3> QED BY <3>1, <3>2 DEF SinkInv, EveryEventAppended
  <2>3. CASE ReportLogged \/ ReportUnlogged \/ ReportFiltered
    <3>1. /\ events' = events + 1
          /\ UNCHANGED <<built, registrySink, providerSink>>
          /\ providerSink.log
          /\ Filtered # {} => providerSink.bus
      BY <2>3 DEF ReportLogged, ReportUnlogged, ReportFiltered, Forward, Report, Up,
                  SinkInv, Steps, daemonVars
    <3>2. 1 .. events' = (1 .. events) \cup {events + 1}
      BY <3>1 DEF ReplayInv, ReplayTypeOK
    <3>3. /\ IsFiniteSet(failed')
          /\ lastCursor' + Cardinality(Rowless') = events'
          /\ \A i \in 1 .. Len(sent') : sent'[i] \notin Filtered
      <4>1. CASE ReportFiltered
        <5>1. UNCHANGED <<lastCursor, sent, failed>> /\ events + 1 \in Filtered
          BY <4>1, <3>1 DEF ReportFiltered, Stopped, logVars
        <5>2. Rowless' = Rowless \cup {events + 1}
          BY <5>1, <3>2 DEF Rowless
        <5> QED BY <4>1, <5>1, <5>2, OneMoreRowless DEF SinkInv, EveryEventAppended
      <4>2. CASE ReportLogged \/ ReportUnlogged
        <5>1. sent' = Append(sent, events + 1) /\ events + 1 \notin Filtered
          BY <4>2, <3>1 DEF ReportLogged, ReportUnlogged, Forward, Stopped, Send
        <5>2. \A i \in 1 .. Len(sent') : sent'[i] \notin Filtered
          <6>1. sent \in Seq(Event)
            BY DEF ReplayInv, ReplayTypeOK
          <6>2. events + 1 \in Event
            BY <4>2, ReplayConstants
               DEF ReportLogged, ReportUnlogged, Forward, Report, Event, ReplayInv,
                   ReplayTypeOK
          <6>3. /\ Len(sent') = Len(sent) + 1 /\ Len(sent) \in Nat
                /\ \A i \in 1 .. Len(sent) : sent'[i] = sent[i]
                /\ sent'[Len(sent) + 1] = events + 1
            BY <5>1, <6>1, <6>2, AppendProperties, LenProperties
          <6>4. \A i \in 1 .. Len(sent') : i \in 1 .. Len(sent) \/ i = Len(sent) + 1
            BY <6>3
          <6> QED BY <5>1, <6>3, <6>4 DEF SinkInv, EveryEventAppended
        <5>3. CASE ReportLogged
          <6>1. lastCursor' = lastCursor + 1 /\ failed' = failed
            BY <5>3 DEF ReportLogged, Insert
          <6>2. Rowless' = Rowless
            BY <5>1, <6>1, <3>2 DEF Rowless
          <6>3. Cardinality(Rowless) \in Nat
            BY RowlessFinite, FS_CardinalityType
          <6>4. lastCursor + Cardinality(Rowless) = events
            BY DEF SinkInv, EveryEventAppended, Rowless
          <6>5. lastCursor' + Cardinality(Rowless') = events'
            BY <6>1, <6>2, <6>3, <6>4, <3>1 DEF ReplayInv, ReplayTypeOK
          <6> QED BY <5>2, <6>1, <6>5 DEF SinkInv
        <5>4. CASE ReportUnlogged
          <6>1. failed' = failed \cup {events + 1} /\ lastCursor' = lastCursor
            BY <5>4, <3>1 DEF ReportUnlogged, logVars
          <6>2. Rowless' = Rowless \cup {events + 1}
            BY <5>1, <6>1, <3>2 DEF Rowless
          <6>3. IsFiniteSet(failed')
            BY <6>1, FS_AddElement DEF SinkInv
          <6> QED BY <5>2, <5>4, <6>1, <6>2, <6>3, OneMoreRowless
        <5> QED BY <4>2, <5>3, <5>4
      <4> QED BY <2>3, <4>1, <4>2
    <3>4. EveryEventAppended'
      BY <3>3 DEF EveryEventAppended, Rowless
    <3> QED BY <3>1, <3>3, <3>4 DEF SinkInv
  <2>4. CASE Restart
    <3>1. sent' = <<>> /\ UNCHANGED <<lastCursor, events, failed>>
      BY <2>4 DEF Restart, logVars
    <3> QED BY <2>4, <3>1 DEF Restart, Plain, SinkInv, EveryEventAppended
  <2>5. CASE Disconnect \/ PruneOld \/ ClientStep \/ UNCHANGED replayVars
    <3>1. UNCHANGED <<lastCursor, sent, built, registrySink, providerSink, events,
                      failed>>
      BY <2>5 DEF Disconnect, PruneOld, Prune, ClientStep, Connect, Replay, Reply,
                  ReplyTo, OpenStream, StreamFrame, StreamLags, logVars, daemonVars,
                  replayVars
    <3> QED BY <3>1 DEF SinkInv, EveryEventAppended
  <2> QED BY <2>1, <2>2, <2>3, <2>4, <2>5 DEF ReplayNext, Boot
<1>3. SinkInv => EveryEventAppended
  BY DEF SinkInv
<1> QED BY <1>1, <1>2, <1>3, ReplayInvHolds, PTL DEF ReplaySpec

\* NoGap without its condition, what the stream drops is still in `sent`; and it
\* holds before, once a page was empty.
Follows == client = "live" \/ (client = "replaying" /\ page = {})

Covered ==
  Follows =>
    \A r \in rows :
      r.event \in got \/ \E i \in at .. Len(sent) : sent[i] = r.event

\* A client that opens its stream before it catches up misses nothing.
THEOREM NoGapHolds ==
  ASSUME StreamFirst
  PROVE  ReplaySpec => []NoGap
<1>1. ReplayInit => Covered
  BY DEF ReplayInit, Covered, Follows
<1>2. ReplayInv /\ Covered /\ [ReplayNext]_replayVars => Covered'
  <2> SUFFICES ASSUME ReplayInv, Covered, [ReplayNext]_replayVars,
                      Follows', NEW r \in rows'
               PROVE  r.event \in got' \/ \E i \in at' .. Len(sent') : sent'[i] = r.event
    BY DEF Covered
  <2> USE DEF ReplayInv, ReplayTypeOK
  <2>1. CASE Reply
    <3>1. rows' = rows
      BY <2>1 DEF Reply, ReplyTo, logVars
    <3>2. client = "replaying" /\ client' = "live" /\ UNCHANGED <<at, sent>>
      BY <2>1 DEF Reply, ReplyTo, Caught, Follows
    <3>3. CASE \A q \in rows : q.event \in got'
      BY <3>1, <3>3
    <3>4. CASE page = {} /\ got' = got
      BY <3>1, <3>2, <3>4 DEF Covered, Follows
    <3> QED BY <2>1, <3>2, <3>3, <3>4, ReplyHonest
  <2>2. CASE ReportLogged \/ ReportUnlogged
    <3>1. /\ Follows
          /\ sent' = Append(sent, events')
          /\ events' \in Event
          /\ UNCHANGED <<at, got>>
      <4>1. Forward /\ Report
        BY <2>2 DEF ReportLogged, ReportUnlogged, Forward
      <4>2. events' \in Event
        BY <4>1, ReplayConstants DEF Report, Event
      <4> QED BY <4>1, <4>2 DEF Report, Forward, Send, clientVars, Follows
    <3>2. sent \in Seq(Event)
      OBVIOUS
    <3>3. /\ Len(sent') = Len(sent) + 1
          /\ \A i \in 1 .. Len(sent) : sent'[i] = sent[i]
          /\ sent'[Len(sent) + 1] = events'
      BY <3>1, <3>2, AppendProperties
    <3>4. at \in 1 .. Len(sent) + 1
      BY <3>1 DEF StreamInv, Subscribed, Follows
    <3>5. CASE r \in rows
      <4>1. CASE r.event \in got
        BY <3>1, <4>1
      <4>2. CASE \E i \in at .. Len(sent) : sent[i] = r.event
        <5>1. PICK i \in at .. Len(sent) : sent[i] = r.event
          BY <4>2
        <5>2. i \in at' .. Len(sent') /\ sent'[i] = r.event
          BY <3>1, <3>3, <3>4, <5>1
        <5> QED BY <5>2
      <4> QED BY <3>1, <3>5, <4>1, <4>2 DEF Covered
    <3>6. CASE r \notin rows
      <4>1. r.event = events'
        BY <2>2, <3>6 DEF ReportLogged, ReportUnlogged, Insert, Row, logVars
      <4>2. Len(sent) + 1 \in at' .. Len(sent')
        BY <3>1, <3>3, <3>4
      <4> QED BY <3>3, <4>1, <4>2
    <3> QED BY <3>5, <3>6
  <2>3. CASE StreamFrame
    <3>1. /\ client = "live" /\ rows' = rows /\ sent' = sent
          /\ got' = got \cup {sent[at]} /\ at' = at + 1 /\ at \in 1 .. Len(sent)
      BY <2>3 DEF StreamFrame, Ready, StreamInv, logVars
    <3>2. CASE r.event \in got
      BY <3>1, <3>2
    <3>3. CASE \E i \in at .. Len(sent) : sent[i] = r.event
      <4>1. PICK i \in at .. Len(sent) : sent[i] = r.event
        BY <3>3
      <4>2. i = at \/ i \in at' .. Len(sent')
        BY <3>1, <4>1
      <4> QED BY <3>1, <4>1, <4>2
    <3> QED BY <3>1, <3>2, <3>3 DEF Covered, Follows
  <2>4. CASE PruneOld
    BY <2>4 DEF PruneOld, Prune, Covered, Follows, clientVars
  <2>5. CASE Boot \/ ReportFiltered \/ UNCHANGED replayVars
    BY <2>5 DEF Boot, Register, WithPersist, WithEventBus, Wire, ReportFiltered,
                Report, replayVars, logVars, clientVars, Covered,
                Follows
  <2>6. CASE Restart \/ Disconnect \/ Connect \/ OpenStream \/ StreamLags
    BY <2>6 DEF Restart, Disconnect, HangUp, Connect, OpenStream, StreamLags, Follows
  <2>7. CASE Replay
    <3>1. PICK limit \in 0 .. MaxPage + 1 : page' = ReplaySince(cursor, limit)
      BY <2>7 DEF Replay
    <3>2. PageSize(limit) \in Nat \ {0}
      BY MaxPagePositive DEF PageSize
    <3>3. page' = {} /\ rows' = rows /\ got' = got
      BY <2>7 DEF Replay, Follows, logVars
    <3>4. r.cursor <= cursor
      BY <3>1, <3>2, <3>3, EmptyPage
    <3> QED BY <3>3, <3>4 DEF CursorHonest
  <2> QED
    BY <2>1, <2>2, <2>3, <2>4, <2>5, <2>6, <2>7 DEF ReplayNext, ClientStep
<1>3. Covered => NoGap
  BY DEF Covered, Follows, NoGap
<1> QED BY <1>1, <1>2, <1>3, ReplayInvHolds, PTL DEF ReplaySpec
=============================================================================
