------------------------- MODULE WsTransport_proofs -------------------------
(***************************************************************************)
(* What a WebSocket client is sent, for any number of connections, any     *)
(* capacity of ring and queue, and whatever the other clients do.          *)
(***************************************************************************)
EXTENDS WsTransport, Sublists_proofs, FiniteSetTheorems

\* All that was queued for a connection and neither cut off nor lost.
Stream(c) == (wire[c] \o hand[c]) \o queue[c]

\* Of items s, those up to the i-th account for pos[i] of the events.
Told(pos, s) ==
  /\ pos \in [0 .. Len(s) -> Nat]
  /\ pos[0] = 0
  /\ \A i \in 1 .. Len(s) :
       \/ s[i] \notin Written /\ pos[i] = pos[i - 1]
       \/ s[i] = Frame(pos[i]) /\ pos[i] = pos[i - 1] + 1
       \/ \E k \in Nat \ {0} : s[i] = Dropped(k) /\ pos[i] = pos[i - 1] + k

\* One more item accounts for the events up to n.
LEMMA ToldAppend ==
  ASSUME NEW s \in Seq(Items), NEW pos, Told(pos, s), NEW x \in Items, NEW n \in Nat,
         \/ x \notin Written /\ n = pos[Len(s)]
         \/ x = Frame(n) /\ n = pos[Len(s)] + 1
         \/ \E k \in Nat \ {0} : x = Dropped(k) /\ n = pos[Len(s)] + k
  PROVE  \E p : /\ Told(p, Append(s, x))
                /\ p[Len(s) + 1] = n
                /\ \A i \in 0 .. Len(s) : p[i] = pos[i]
<1> DEFINE t == Append(s, x)
           p == [i \in 0 .. Len(s) + 1 |-> IF i = Len(s) + 1 THEN n ELSE pos[i]]
<1>1. /\ Len(s) \in Nat /\ Len(t) = Len(s) + 1 /\ t[Len(s) + 1] = x
      /\ \A i \in 1 .. Len(s) : t[i] = s[i]
  BY AppendProperties, LenProperties
<1> HIDE DEF t
<1>2. \A i \in 0 .. Len(s) : p[i] = pos[i] /\ pos[i] \in Nat
  BY <1>1 DEF Told
<1>3. p[Len(s) + 1] = n
  BY <1>1
<1>4. p \in [0 .. Len(t) -> Nat]
  <2>1. ASSUME NEW i \in 0 .. Len(s) + 1
        PROVE  (IF i = Len(s) + 1 THEN n ELSE pos[i]) \in Nat
    BY <1>1 DEF Told
  <2> QED BY <1>1, <2>1
<1> HIDE DEF p
<1>5. ASSUME NEW i \in 1 .. Len(t)
      PROVE  \/ t[i] \notin Written /\ p[i] = p[i - 1]
             \/ t[i] = Frame(p[i]) /\ p[i] = p[i - 1] + 1
             \/ \E k \in Nat \ {0} : t[i] = Dropped(k) /\ p[i] = p[i - 1] + k
  <2>1. CASE i = Len(s) + 1
    <3>1. p[i] = n /\ p[i - 1] = pos[Len(s)] /\ t[i] = x
      BY <1>1, <1>2, <1>3, <2>1
    <3> QED BY <3>1
  <2>2. CASE i # Len(s) + 1
    <3>1. i \in 1 .. Len(s) /\ i - 1 \in 0 .. Len(s) /\ i \in 0 .. Len(s)
      BY <1>1, <2>2
    <3>2. p[i] = pos[i] /\ p[i - 1] = pos[i - 1] /\ t[i] = s[i]
      BY <1>1, <1>2, <3>1
    <3> QED BY <3>1, <3>2 DEF Told
  <2> QED BY <2>1, <2>2
<1>6. Told(p, t)
  BY <1>1, <1>2, <1>4, <1>5 DEF Told
<1> QED BY <1>2, <1>3, <1>6 DEF t

\* What is cut off at the end takes nothing away from the rest.
LEMMA ToldCut ==
  ASSUME NEW s \in Seq(Items), NEW pos, Told(pos, s), NEW m \in 0 .. Len(s)
  PROVE  \E p : Told(p, SubSeq(s, 1, m)) /\ \A i \in 0 .. m : p[i] = pos[i]
<1> DEFINE t == SubSeq(s, 1, m)
           p == [i \in 0 .. m |-> pos[i]]
<1>1. Len(s) \in Nat /\ Len(t) = m /\ \A i \in 1 .. m : t[i] = s[i]
  <2>1. \A i \in 1 .. m : s[i] \in Items
    BY ElementOfSeq, LenProperties
  <2>2. Len(s) \in Nat /\ m \in Int /\ 1 \in Int
    BY LenProperties
  <2> QED BY <2>1, <2>2, SubSeqProperties
<1> HIDE DEF t
<1>2. Told(p, t)
  <2>1. p \in [0 .. Len(t) -> Nat]
    BY <1>1 DEF Told
  <2>2. \A i \in 1 .. m : i \in 1 .. Len(s) /\ p[i] = pos[i] /\ p[i - 1] = pos[i - 1]
    BY <1>1
  <2>3. p[0] = pos[0]
    BY <1>1
  <2> HIDE DEF p
  <2>4. ASSUME NEW i \in 1 .. Len(t)
        PROVE  \/ t[i] \notin Written /\ p[i] = p[i - 1]
               \/ t[i] = Frame(p[i]) /\ p[i] = p[i - 1] + 1
               \/ \E k \in Nat \ {0} : t[i] = Dropped(k) /\ p[i] = p[i - 1] + k
    <3>1. i \in 1 .. Len(s) /\ p[i] = pos[i] /\ p[i - 1] = pos[i - 1] /\ t[i] = s[i]
      BY <1>1, <2>2
    <3> QED BY <3>1 DEF Told
  <2>5. p[0] = 0
    BY <2>3 DEF Told
  <2> QED BY <2>1, <2>4, <2>5 DEF Told
<1> QED BY <1>2 DEF t

Quiet == {"reading", "locking", "handling"}

\* A connection not yet accepted has nothing; a request is read before it is
\* handled; the writer has one item in hand exactly while it sends; it ends by
\* itself only when nobody can queue any more.
PhaseInv(c) ==
  /\ reader[c] = "none" =>
       /\ queue[c] = <<>> /\ hand[c] = <<>> /\ wire[c] = <<>> /\ inbox[c] = <<>>
       /\ heard[c] = 0 /\ answered[c] = 0 /\ asked[c] = 0 /\ lines[c] = 0
       /\ writer[c] = "none" /\ forwarder[c] = "none"
  /\ reader[c] \in {"locking", "handling"} => current[c] # "none"
  /\ Len(hand[c]) = IF writer[c] = "sending" THEN 1 ELSE 0
  /\ writer[c] = "ended" =>
       queue[c] = <<>> /\ forwarder[c] = "ended" /\ reader[c] \in {"flushing", "gone"}

\* Behind a full queue there wait at most one item of the forwarder and the one
\* notice of an overflow, never an answer.
Behind(c) == {i \in DOMAIN queue[c] : i > QueueMax}

BehindInv(c) ==
  /\ \A i, j \in Behind(c) : queue[c][i] # Overflow /\ queue[c][j] # Overflow => i = j
  /\ \A i, j \in DOMAIN queue[c] : queue[c][i] = Overflow /\ queue[c][j] = Overflow => i = j
  /\ \A i \in Behind(c) : queue[c][i] # Answer
  /\ reader[c] \in Quiet => \A i \in DOMAIN queue[c] : queue[c][i] # Overflow
  /\ reader[c] = "leaving" => \A i \in Behind(c) : queue[c][i] # Overflow

\* Unless the socket fails every answer that was queued is on its way, and only
\* a notice of an overflow stands for one that was not.
Open(c) == IF reader[c] \in {"locking", "handling"} /\ current[c] \in Asking THEN 1 ELSE 0
Due(c)  == answered[c] + Len(Kept(inbox[c], Asking)) + Open(c)

AnswerInv(c) ==
  /\ writer[c] # "failed" => Len(Kept(Stream(c), {Answer})) = answered[c]
  /\ Due(c) <= asked[c] /\ asked[c] <= lines[c]
  /\ Due(c) < asked[c] => writer[c] = "failed" \/ \E i \in DOMAIN Stream(c) : Stream(c)[i] = Overflow

\* What was queued accounts for the events since the connection was accepted, as
\* far as the forwarder has come; the client's share of it is heard.
ToldInv(c) ==
  reader[c] # "none" =>
    /\ base[c] < at[c] /\ at[c] <= Subscribed
    /\ \E pos :
         /\ Told(pos, Stream(c))
         /\ pos[Len(wire[c])] = heard[c]
         /\ \A i \in 0 .. Len(Stream(c)) : pos[i] <= at[c] - base[c] - 1
         /\ forwarder[c] = "running" /\ writer[c] # "failed" =>
              pos[Len(Stream(c))] = at[c] - base[c] - 1

ConnInv(c) == PhaseInv(c) /\ BehindInv(c) /\ AnswerInv(c) /\ ToldInv(c)

\* WsTypeOK, but for the bounds that follow from the rest of the invariant.
WsTypes ==
  /\ sent \in Seq({"event"})
  /\ inbox \in [Conn -> Seq(Line)]
  /\ lines \in [Conn -> 0 .. MaxLines]
  /\ asked \in [Conn -> Nat]
  /\ reader \in [Conn -> {"none", "gone"} \cup Served]
  /\ current \in [Conn -> {"none", "request", "silent", "shutdown"}]
  /\ lock \in Conn \cup {Nobody}
  /\ \A c \in Conn : lock = c <=> reader[c] = "handling"
  /\ forwarder \in [Conn -> {"none", "running", "ended"}]
  /\ at \in [Conn -> Nat]
  /\ base \in [Conn -> Nat]
  /\ queue \in [Conn -> Seq(Items)]
  /\ writer \in [Conn -> {"none", "receiving", "sending", "ended", "failed"}]
  /\ hand \in [Conn -> Seq(Items)]
  /\ wire \in [Conn -> Seq(Items)]
  /\ heard \in [Conn -> Nat]
  /\ answered \in [Conn -> Nat]
  /\ hungUp \subseteq Conn
  /\ broken \subseteq Conn

Serving == {c \in Conn : reader[c] \in Served}
PermitInv == IsFiniteSet(Serving) /\ Cardinality(Serving) <= Permits

\* A writer fails only after a fault or a close of the client; a connection is left
\* with its writer still at work only after a fault.
CauseInv(c) ==
  /\ writer[c] = "failed" => c \in broken \/ c \in hungUp
  /\ reader[c] = "gone" => c \in broken \/ writer[c] \in {"ended", "failed"}

WsInv ==
  /\ WsTypes
  /\ PermitInv
  /\ \A c \in Conn : ConnInv(c) /\ CauseInv(c)

\* The bounds of the type invariant follow.
LEMMA WsBounds == WsInv => WsTypeOK
<1> SUFFICES ASSUME WsInv PROVE WsTypeOK
  OBVIOUS
<1>1. ASSUME NEW c \in Conn PROVE Len(queue[c]) <= QueueMax + 2
  <2> SUFFICES ASSUME Len(queue[c]) > QueueMax + 2 PROVE FALSE
    <3>1. Len(queue[c]) \in Nat
      BY LenProperties DEF WsInv, WsTypes
    <3> QED BY <3>1, WsConstants
  <2>1. QueueMax + 1 \in Behind(c) /\ QueueMax + 2 \in Behind(c) /\ QueueMax + 3 \in Behind(c)
    <3>1. Len(queue[c]) \in Nat /\ DOMAIN queue[c] = 1 .. Len(queue[c])
      BY LenProperties DEF WsInv, WsTypes
    <3> QED BY <3>1, WsConstants DEF Behind
  <2>2. BehindInv(c)
    BY DEF WsInv, ConnInv
  <2>3. Behind(c) \subseteq DOMAIN queue[c]
    BY DEF Behind
  <2>4. /\ QueueMax + 1 # QueueMax + 2 /\ QueueMax + 2 # QueueMax + 3
        /\ QueueMax + 1 # QueueMax + 3
    BY WsConstants
  <2> HIDE DEF Behind
  <2> QED BY <2>1, <2>2, <2>3, <2>4 DEF BehindInv
<1>2. ASSUME NEW c \in Conn
      PROVE  asked[c] \in 0 .. MaxLines /\ answered[c] \in 0 .. MaxLines
  <2>1. Kept(inbox[c], Asking) \in Seq(Line)
    BY KeptIsSublist DEF WsInv, WsTypes
  <2>2. Len(Kept(inbox[c], Asking)) \in Nat
    BY <2>1, LenProperties
  <2>3. AnswerInv(c) /\ answered[c] \in Nat /\ asked[c] \in Nat /\ lines[c] \in 0 .. MaxLines
    BY DEF WsInv, WsTypes, ConnInv
  <2>4. Open(c) \in {0, 1}
    BY DEF Open
  <2> QED BY <2>2, <2>3, <2>4, WsConstants DEF AnswerInv, Due
<1> QED BY <1>1, <1>2 DEF WsInv, WsTypes, WsTypeOK, PermitInv, Serving

\* The sequences behind Stream.
LEMMA StreamFacts ==
  ASSUME WsTypes, NEW c \in Conn
  PROVE  /\ wire[c] \in Seq(Items) /\ hand[c] \in Seq(Items) /\ queue[c] \in Seq(Items)
         /\ wire[c] \o hand[c] \in Seq(Items)
         /\ Len(wire[c]) \in Nat /\ Len(hand[c]) \in Nat /\ Len(queue[c]) \in Nat
         /\ DOMAIN queue[c] = 1 .. Len(queue[c])
         /\ Stream(c) \in Seq(Items)
         /\ DOMAIN Stream(c) = 1 .. Len(Stream(c))
         /\ Len(Stream(c)) = Len(wire[c]) + Len(hand[c]) + Len(queue[c])
         /\ \A i \in 1 .. Len(wire[c]) : Stream(c)[i] = wire[c][i]
         /\ \A i \in 1 .. Len(queue[c]) :
              Stream(c)[Len(wire[c]) + Len(hand[c]) + i] = queue[c][i]
<1>1. wire[c] \in Seq(Items) /\ hand[c] \in Seq(Items) /\ queue[c] \in Seq(Items)
  BY DEF WsTypes
<1> DEFINE w == wire[c]
           h == hand[c]
           q == queue[c]
<1> HIDE DEF w, h, q
<1>2. /\ w \in Seq(Items) /\ h \in Seq(Items) /\ q \in Seq(Items)
      /\ Len(w) \in Nat /\ Len(h) \in Nat /\ Len(q) \in Nat /\ DOMAIN q = 1 .. Len(q)
  BY <1>1, LenProperties DEF w, h, q
<1>3. /\ w \o h \in Seq(Items) /\ Len(w \o h) = Len(w) + Len(h)
      /\ \A i \in 1 .. Len(w) + Len(h) : (w \o h)[i] = IF i <= Len(w) THEN w[i] ELSE h[i - Len(w)]
  BY <1>2, ConcatProperties
<1> DEFINE v == w \o h
<1> HIDE DEF v
<1>4. /\ v \o q \in Seq(Items) /\ Len(v \o q) = Len(v) + Len(q)
      /\ \A i \in 1 .. Len(v) + Len(q) : (v \o q)[i] = IF i <= Len(v) THEN v[i] ELSE q[i - Len(v)]
  <2>1. v \in Seq(Items)
    BY <1>3 DEF v
  <2> QED BY <1>2, <2>1, ConcatProperties
<1>5. Stream(c) = v \o q
  BY DEF Stream, v, w, h, q
<1>6. Len(v) = Len(w) + Len(h) /\ \A i \in 1 .. Len(w) : v[i] = w[i]
  BY <1>2, <1>3 DEF v
<1>7. DOMAIN Stream(c) = 1 .. Len(Stream(c))
  BY <1>4, <1>5, LenProperties
<1>8. Len(Stream(c)) = Len(w) + Len(h) + Len(q)
  BY <1>4, <1>5, <1>6
<1>9. \A i \in 1 .. Len(w) : Stream(c)[i] = w[i]
  BY <1>2, <1>4, <1>5, <1>6
<1>10. \A i \in 1 .. Len(q) : Stream(c)[Len(w) + Len(h) + i] = q[i]
  <2> SUFFICES ASSUME NEW i \in 1 .. Len(q) PROVE (v \o q)[Len(v) + i] = q[i]
    BY <1>5, <1>6
  <2>1. Len(v) \in Nat /\ Len(v) + i \in 1 .. Len(v) + Len(q) /\ ~(Len(v) + i <= Len(v))
        /\ (Len(v) + i) - Len(v) = i
    BY <1>2, <1>6
  <2> QED BY <1>4, <2>1
<1> QED BY <1>1, <1>2, <1>3, <1>4, <1>5, <1>7, <1>8, <1>9, <1>10 DEF w, h, q

\* What is put into the queue comes last in the stream.
LEMMA Queued ==
  ASSUME WsTypes, NEW c \in Conn, NEW x \in Items,
         queue' = [queue EXCEPT ![c] = Append(@, x)],
         wire'[c] = wire[c], hand'[c] = hand[c]
  PROVE  Stream(c)' = Append(Stream(c), x)
<1>1. queue'[c] = Append(queue[c], x)
  BY DEF WsTypes
<1> DEFINE v == wire[c] \o hand[c]
           q == queue[c]
<1>2. v \in Seq(Items) /\ q \in Seq(Items)
  BY StreamFacts
<1> HIDE DEF v, q
<1>3. v \o Append(q, x) = Append(v \o q, x)
  BY <1>2, ConcatAppend
<1> QED BY <1>1, <1>3 DEF Stream, v, q

LEMMA QueueGrows ==
  ASSUME WsTypes, NEW c \in Conn, NEW x \in Items,
         queue' = [queue EXCEPT ![c] = Append(@, x)]
  PROVE  /\ queue' \in [Conn -> Seq(Items)]
         /\ \A d \in Conn \ {c} : queue'[d] = queue[d]
         /\ Len(queue[c]) \in Nat /\ DOMAIN queue[c] = 1 .. Len(queue[c])
         /\ DOMAIN queue'[c] = 1 .. Len(queue[c]) + 1
         /\ queue'[c][Len(queue[c]) + 1] = x
         /\ \A i \in 1 .. Len(queue[c]) : queue'[c][i] = queue[c][i]
<1>1. queue \in [Conn -> Seq(Items)] /\ queue[c] \in Seq(Items)
  BY DEF WsTypes
<1> DEFINE q == queue[c]
<1>2. q \in Seq(Items)
  BY <1>1
<1> HIDE DEF q
<1>3. /\ Append(q, x) \in Seq(Items) /\ Len(Append(q, x)) = Len(q) + 1
      /\ \A i \in 1 .. Len(q) : Append(q, x)[i] = q[i]
      /\ Append(q, x)[Len(q) + 1] = x
  BY <1>2, AppendProperties
<1>4. Len(q) \in Nat /\ DOMAIN q = 1 .. Len(q) /\ DOMAIN Append(q, x) = 1 .. Len(q) + 1
  BY <1>2, <1>3, LenProperties
<1>5. queue' = [queue EXCEPT ![c] = Append(q, x)] /\ queue'[c] = Append(q, x)
  BY <1>1 DEF q
<1> QED BY <1>1, <1>3, <1>4, <1>5 DEF q

\* What a connection depends on but for the frames sent, of which only the number
\* counts, and that only grows.
View(c) == <<inbox[c], lines[c], asked[c], reader[c], current[c], forwarder[c], at[c], base[c],
             queue[c], writer[c], hand[c], wire[c], heard[c], answered[c]>>

LEMMA OthersKeep ==
  ASSUME WsTypes, NEW d \in Conn, ConnInv(d), View(d)' = View(d),
         sent' = sent \/ Len(sent') = Len(sent) + 1
  PROVE  ConnInv(d)'
<1>1. /\ inbox'[d] = inbox[d] /\ lines'[d] = lines[d] /\ asked'[d] = asked[d]
      /\ reader'[d] = reader[d] /\ current'[d] = current[d] /\ forwarder'[d] = forwarder[d]
      /\ at'[d] = at[d] /\ base'[d] = base[d] /\ queue'[d] = queue[d]
      /\ writer'[d] = writer[d] /\ hand'[d] = hand[d] /\ wire'[d] = wire[d]
      /\ heard'[d] = heard[d] /\ answered'[d] = answered[d]
  BY DEF View
<1>2. Stream(d)' = Stream(d) /\ Open(d)' = Open(d) /\ Due(d)' = Due(d) /\ Behind(d)' = Behind(d)
  BY <1>1 DEF Stream, Open, Due, Behind
<1>3. PhaseInv(d)' /\ BehindInv(d)' /\ AnswerInv(d)'
  BY <1>1, <1>2 DEF ConnInv, PhaseInv, BehindInv, AnswerInv
<1>4. Len(sent) \in Nat /\ at[d] \in Nat /\ base[d] \in Nat
  BY LenProperties DEF WsTypes
<1>5. at[d] <= Subscribed => at'[d] <= Subscribed'
  BY <1>1, <1>4 DEF Subscribed
<1>6. ToldInv(d)'
  BY <1>1, <1>2, <1>5 DEF ConnInv, ToldInv
<1> QED BY <1>3, <1>6 DEF ConnInv

\* A client sends something.
LEMMA ClientSendsInv ==
  ASSUME WsInv, NEW c \in Conn, NEW line \in Line, ClientSends(c, line)
  PROVE  ConnInv(c)' /\ WsTypes'
<1> USE DEF clientVars, readerVars, forwardVars, writerVars
<1>1. /\ WsTypes /\ ConnInv(c)
      /\ inbox[c] \in Seq(Line) /\ lines[c] \in 0 .. MaxLines /\ asked[c] \in Nat
      /\ MaxLines \in Nat
  BY WsConstants DEF WsInv, WsTypes
<1>2. /\ inbox'[c] = Append(inbox[c], line)
      /\ lines'[c] = IF line = "close" THEN lines[c] ELSE lines[c] + 1
      /\ asked'[c] = IF line \in Asking THEN asked[c] + 1 ELSE asked[c]
      /\ reader[c] # "none"
      /\ UNCHANGED <<sent, reader, current, lock, hungUp, broken, forwarder, at, base, queue, writer, hand,
                     wire, heard, answered>>
  BY <1>1 DEF ClientSends, WsTypes, Served
<1>3. Append(inbox[c], line) \in Seq(Line)
  BY <1>1, AppendProperties
<1>4. WsTypes'
  <2>1. inbox' \in [Conn -> Seq(Line)]
    <3>1. inbox' = [inbox EXCEPT ![c] = Append(inbox[c], line)] /\ inbox \in [Conn -> Seq(Line)]
      BY <1>1 DEF ClientSends, WsTypes
    <3> QED BY <1>3, <3>1
  <2>2. asked' \in [Conn -> Nat]
    <3>1. /\ asked' = [asked EXCEPT ![c] = IF line \in Asking THEN asked[c] + 1 ELSE asked[c]]
          /\ asked \in [Conn -> Nat]
      BY <1>1 DEF ClientSends, WsTypes
    <3> QED BY <1>1, <3>1
  <2>3. lines' \in [Conn -> 0 .. MaxLines]
    <3>1. /\ lines' = [lines EXCEPT ![c] = IF line = "close" THEN lines[c] ELSE lines[c] + 1]
          /\ lines \in [Conn -> 0 .. MaxLines]
      BY <1>1 DEF ClientSends, WsTypes
    <3>2. (IF line = "close" THEN lines[c] ELSE lines[c] + 1) \in 0 .. MaxLines
      BY <1>1 DEF ClientSends
    <3> QED BY <3>1, <3>2
  <2> QED BY <1>1, <1>2, <2>1, <2>2, <2>3 DEF WsTypes
<1>5. Stream(c)' = Stream(c) /\ Open(c)' = Open(c) /\ Behind(c)' = Behind(c)
  BY <1>2 DEF Stream, Open, Behind
<1>6. PhaseInv(c)' /\ BehindInv(c)' /\ ToldInv(c)'
  BY <1>1, <1>2, <1>5 DEF ConnInv, PhaseInv, BehindInv, ToldInv, Subscribed
<1>7. Due(c)' - Due(c) = asked'[c] - asked[c] /\ Due(c) \in Nat /\ Due(c)' \in Nat
  <2>1. Len(Kept(inbox[c], Asking)) \in Nat /\ Kept(inbox[c], Asking) \in Seq(Line)
    BY <1>1, KeptIsSublist, LenProperties
  <2>2. Kept(inbox'[c], Asking)
          = IF line \in Asking THEN Append(Kept(inbox[c], Asking), line) ELSE Kept(inbox[c], Asking)
    <3> DEFINE i == inbox[c]
    <3>1. i \in Seq(Line)
      BY <1>1
    <3> HIDE DEF i
    <3>2. Kept(Append(i, line), Asking)
            = IF line \in Asking THEN Append(Kept(i, Asking), line) ELSE Kept(i, Asking)
      BY <3>1, KeptAppend
    <3> QED BY <1>2, <3>2 DEF i
  <2>3. Len(Kept(inbox'[c], Asking))
          = IF line \in Asking THEN Len(Kept(inbox[c], Asking)) + 1 ELSE Len(Kept(inbox[c], Asking))
    <3> DEFINE k == Kept(inbox[c], Asking)
    <3> HIDE DEF k
    <3>1. Len(Append(k, line)) = Len(k) + 1
      BY <2>1, AppendProperties DEF k
    <3> QED BY <2>2, <3>1 DEF k
  <2>4. Open(c) \in {0, 1} /\ answered[c] \in Nat /\ answered'[c] = answered[c]
    BY <1>1, <1>2 DEF Open, WsTypes
  <2> DEFINE k == Len(Kept(inbox[c], Asking))
             l == Len(Kept(inbox'[c], Asking))
             n == answered[c]
             o == Open(c)
             a == asked[c]
             b == asked'[c]
             d == Due(c)
             e == Due(c)'
  <2>5. d = n + k + o /\ e = n + l + o
    BY <1>5, <2>4 DEF Due
  <2>6. n \in Nat /\ o \in {0, 1} /\ a \in Nat
    BY <1>1, <2>4
  <2>7. b = IF line \in Asking THEN a + 1 ELSE a
    BY <1>2
  <2> HIDE DEF k, l, n, o, a, b, d, e
  <2>8. k \in Nat /\ l = IF line \in Asking THEN k + 1 ELSE k
    BY <2>1, <2>3 DEF k, l
  <2>9. e - d = b - a /\ d \in Nat /\ e \in Nat
    BY <2>5, <2>6, <2>7, <2>8
  <2> QED BY <2>9 DEF a, b, d, e
<1>8. AnswerInv(c)'
  <2>1. /\ writer[c] # "failed" => Len(Kept(Stream(c), {Answer})) = answered[c]
        /\ Due(c) <= asked[c] /\ asked[c] <= lines[c]
        /\ Due(c) < asked[c] =>
             writer[c] = "failed" \/ \E i \in DOMAIN Stream(c) : Stream(c)[i] = Overflow
    BY <1>1 DEF ConnInv, AnswerInv
  <2>2. Due(c)' <= asked'[c] /\ asked'[c] <= lines'[c] /\ (Due(c)' < asked'[c] => Due(c) < asked[c])
    <3> DEFINE a == asked[c]
               b == asked'[c]
               d == Due(c)
               e == Due(c)'
               l == lines[c]
    <3>1. /\ e - d = b - a /\ d \in Nat /\ e \in Nat /\ a \in Nat /\ l \in 0 .. MaxLines
          /\ d <= a /\ a <= l
          /\ \/ b = a /\ lines'[c] \in {l, l + 1}
             \/ b = a + 1 /\ lines'[c] = l + 1
      BY <1>1, <1>2, <1>7, <2>1 DEF Asking
    <3> HIDE DEF a, b, d, e, l
    <3>2. e <= b /\ b <= lines'[c] /\ (e < b => d < a)
      BY <1>1, <3>1
    <3> QED BY <3>1, <3>2 DEF a, b, d, e, l
  <2> QED BY <1>2, <1>5, <2>1, <2>2 DEF AnswerInv
<1> QED BY <1>4, <1>6, <1>8 DEF ConnInv

\* A connection begins with nothing queued and everything still to be told.
LEMMA AcceptKeeps ==
  ASSUME WsInv, NEW c \in Conn, Accept(c)
  PROVE  ConnInv(c)' /\ WsTypes'
<1> USE DEF clientVars
<1>1. /\ WsTypes /\ ConnInv(c) /\ reader[c] = "none" /\ Len(sent) \in Nat
      /\ queue[c] = <<>> /\ hand[c] = <<>> /\ wire[c] = <<>> /\ inbox[c] = <<>>
      /\ heard[c] = 0 /\ answered[c] = 0 /\ asked[c] = 0 /\ lines[c] = 0
  BY LenProperties DEF WsInv, WsTypes, Accept, ConnInv, PhaseInv
<1>2. /\ reader'[c] = "reading" /\ forwarder'[c] = "running" /\ writer'[c] = "receiving"
      /\ at'[c] = Len(sent) + 1 /\ base'[c] = Len(sent)
      /\ UNCHANGED <<sent, inbox, lines, asked, current, lock, hungUp, broken, queue, hand, wire, heard,
                     answered>>
  BY <1>1 DEF Accept, WsTypes, Subscribed
<1>3. WsTypes'
  <2>1. /\ reader' \in [Conn -> {"none", "gone"} \cup Served]
        /\ forwarder' \in [Conn -> {"none", "running", "ended"}]
        /\ writer' \in [Conn -> {"none", "receiving", "sending", "ended", "failed"}]
    BY <1>1 DEF Accept, WsTypes, Served
  <2>2. at' \in [Conn -> Nat] /\ base' \in [Conn -> Nat]
    BY <1>1 DEF Accept, WsTypes, Subscribed
  <2>3. \A d \in Conn : lock' = d <=> reader'[d] = "handling"
    BY <1>1 DEF Accept, WsTypes
  <2> QED BY <1>1, <1>2, <2>1, <2>2, <2>3 DEF WsTypes
<1>4. Stream(c)' = <<>>
  BY <1>1, <1>2 DEF Stream
<1>5. PhaseInv(c)' /\ BehindInv(c)'
  BY <1>1, <1>2 DEF PhaseInv, BehindInv, Behind
<1>6. AnswerInv(c)'
  <2>1. Kept(<<>>, Asking) = <<>> /\ Kept(<<>>, {Answer}) = <<>>
    BY KeptEmpty
  <2>2. Open(c)' = 0 /\ inbox'[c] = <<>> /\ answered'[c] = 0 /\ asked'[c] = 0 /\ lines'[c] = 0
    BY <1>1, <1>2 DEF Open
  <2>3. Len(Kept(inbox'[c], Asking)) = 0 /\ Len(Kept(Stream(c)', {Answer})) = 0
    <3>1. Len(<<>>) = 0
      OBVIOUS
    <3> QED BY <1>4, <2>1, <2>2, <3>1
  <2>4. Due(c)' = 0
    BY <2>2, <2>3 DEF Due
  <2> QED BY <2>2, <2>3, <2>4 DEF AnswerInv
<1>7. ToldInv(c)'
  <2> DEFINE pos == [i \in 0 .. 0 |-> 0]
  <2>1. Told(pos, <<>>)
    BY DEF Told
  <2>2. /\ pos[0] = 0 /\ at'[c] - base'[c] - 1 = 0 /\ Len(<<>>) = 0
        /\ base'[c] < at'[c] /\ at'[c] <= Subscribed'
    BY <1>1, <1>2 DEF Subscribed
  <2>3. \A i \in 0 .. Len(<<>>) : pos[i] <= at'[c] - base'[c] - 1
    BY <2>2
  <2> HIDE DEF pos
  <2> QED BY <1>1, <1>2, <1>4, <2>1, <2>2, <2>3 DEF ToldInv
<1> QED BY <1>3, <1>5, <1>6, <1>7 DEF ConnInv

\* Where only the read loop moves on, and no answer is due or given.
LEMMA ReaderMoves ==
  ASSUME WsInv, NEW c \in Conn,
         UNCHANGED <<sent, lines, asked, answered, queue, hand, wire, heard, writer, forwarder,
                     at, base>>,
         reader[c] # "none", reader'[c] # "none",
         Due(c)' = Due(c),
         reader'[c] \in Quiet => reader[c] \in Quiet,
         reader'[c] = "leaving" =>
           reader[c] \in Quiet \/ \A i \in Behind(c) : queue[c][i] # Overflow,
         reader'[c] \in {"locking", "handling"} => current'[c] # "none",
         reader[c] \in {"flushing", "gone"} => reader'[c] \in {"flushing", "gone"}
  PROVE  ConnInv(c)'
<1>1. ConnInv(c)
  BY DEF WsInv
<1>2. Stream(c)' = Stream(c) /\ Behind(c)' = Behind(c)
  BY DEF Stream, Behind
<1>3. PhaseInv(c)'
  BY <1>1 DEF ConnInv, PhaseInv
<1>4. BehindInv(c)'
  <2>1. Behind(c) \subseteq DOMAIN queue[c]
    BY DEF Behind
  <2> QED BY <1>1, <1>2, <2>1 DEF ConnInv, BehindInv
<1>5. AnswerInv(c)'
  BY <1>1, <1>2 DEF ConnInv, AnswerInv
<1>6. ToldInv(c)'
  BY <1>1, <1>2 DEF ConnInv, ToldInv, Subscribed
<1> QED BY <1>3, <1>4, <1>5, <1>6 DEF ConnInv

\* Taking a frame from the client.
LEMMA TakesFacts ==
  ASSUME WsTypes, NEW c \in Conn, NEW line \in Line, Takes(c, line)
  PROVE  /\ reader[c] = "reading"
         /\ inbox' \in [Conn -> Seq(Line)]
         /\ \A d \in Conn \ {c} : inbox'[d] = inbox[d]
         /\ Len(Kept(inbox'[c], Asking)) \in Nat
         /\ Len(Kept(inbox[c], Asking))
              = Len(Kept(inbox'[c], Asking)) + (IF line \in Asking THEN 1 ELSE 0)
         /\ UNCHANGED <<sent, lines, asked, lock, broken, forwarder, at, base, writer, hand, wire,
                        heard>>
<1> DEFINE i == inbox[c]
<1>1. /\ reader[c] = "reading" /\ i # <<>> /\ Head(i) = line /\ i \in Seq(Line)
      /\ inbox' = [inbox EXCEPT ![c] = Tail(i)] /\ inbox \in [Conn -> Seq(Line)]
      /\ UNCHANGED <<sent, lines, asked, lock, broken, forwarder, at, base, writer, hand, wire, heard>>
  BY DEF Takes, WsTypes, forwardVars, writerVars
<1> HIDE DEF i
<1>2. Tail(i) \in Seq(Line)
  BY <1>1, HeadTailProperties
<1>3. Len(Kept(i, Asking)) = Len(Kept(Tail(i), Asking)) + (IF line \in Asking THEN 1 ELSE 0)
  BY <1>1, KeptHead
<1>4. Kept(Tail(i), Asking) \in Seq(Line)
  BY <1>2, KeptIsSublist
<1>5. Len(Kept(Tail(i), Asking)) \in Nat
  BY <1>4, LenProperties
<1>6. inbox'[c] = Tail(i) /\ inbox' \in [Conn -> Seq(Line)]
  BY <1>1, <1>2
<1> QED BY <1>1, <1>3, <1>5, <1>6 DEF i

\* A reader that goes on without the lock, or has just given it back.
LEMMA ReaderTypes ==
  ASSUME WsTypes, NEW c \in Conn, NEW where \in {"none", "gone"} \cup (Served \ {"handling"}),
         reader' = [reader EXCEPT ![c] = where],
         \/ reader[c] # "handling" /\ lock' = lock
         \/ reader[c] = "handling" /\ lock' = Nobody
  PROVE  /\ reader' \in [Conn -> {"none", "gone"} \cup Served]
         /\ lock' \in Conn \cup {Nobody}
         /\ \A d \in Conn : lock' = d <=> reader'[d] = "handling"
         /\ reader'[c] = where
         /\ \A d \in Conn \ {c} : reader'[d] = reader[d]
<1>1. /\ reader \in [Conn -> {"none", "gone"} \cup Served] /\ lock \in Conn \cup {Nobody}
      /\ \A d \in Conn : lock = d <=> reader[d] = "handling"
  BY DEF WsTypes
<1>2. where # "handling"
  BY DEF Served
<1>3. /\ reader' \in [Conn -> {"none", "gone"} \cup Served] /\ reader'[c] = where
      /\ \A d \in Conn \ {c} : reader'[d] = reader[d]
  BY <1>1
<1>4. \A d \in Conn : lock' = d <=> reader'[d] = "handling"
  BY <1>1, <1>2, <1>3, WsConstants
<1> QED BY <1>1, <1>3, <1>4

\* A request is read, or the client's close; or reading fails.
LEMMA ReadInv ==
  ASSUME WsInv, NEW c \in Conn, ReadRequest(c) \/ ReadClose(c) \/ ReadFails(c)
  PROVE  ConnInv(c)' /\ WsTypes'
<1>1. WsTypes /\ ConnInv(c) /\ answered[c] \in Nat
  BY DEF WsInv, WsTypes
<1>2. CASE ReadRequest(c)
  <2>1. PICK line \in {"request", "silent", "shutdown"} :
               Takes(c, line) /\ current' = [current EXCEPT ![c] = line]
    BY <1>2 DEF ReadRequest
  <2>2. /\ reader' = [reader EXCEPT ![c] = "locking"] /\ UNCHANGED <<hungUp, queue, answered>>
        /\ line \in Line
    BY <1>2 DEF ReadRequest, Line
  <2>3. /\ reader[c] = "reading" /\ reader'[c] = "locking" /\ current'[c] = line
    BY <1>1, <2>1, <2>2, TakesFacts DEF WsTypes
  <2>4. Due(c)' = Due(c)
    <3>1. Open(c) = 0 /\ Open(c)' = IF line \in Asking THEN 1 ELSE 0
      BY <2>3 DEF Open
    <3> DEFINE k == Len(Kept(inbox[c], Asking))
               l == Len(Kept(inbox'[c], Asking))
    <3>2. Due(c) = answered[c] + k + Open(c) /\ Due(c)' = answered[c] + l + Open(c)'
      BY <2>2 DEF Due
    <3>3. l \in Nat /\ k = l + (IF line \in Asking THEN 1 ELSE 0)
      BY <1>1, <2>1, <2>2, TakesFacts
    <3> HIDE DEF k, l
    <3> QED BY <1>1, <3>1, <3>2, <3>3
  <2>5. ConnInv(c)'
    BY <1>1, <2>1, <2>2, <2>3, <2>4, TakesFacts, ReaderMoves DEF Quiet
  <2>6. WsTypes'
    <3>1. inbox' \in [Conn -> Seq(Line)]
      BY <1>1, <2>1, <2>2, TakesFacts
    <3>2. UNCHANGED <<sent, lines, asked, lock, broken, forwarder, at, base, writer, hand, wire,
                      heard>>
      BY <1>1, <2>1, <2>2, TakesFacts
    <3>3. current' \in [Conn -> {"none", "request", "silent", "shutdown"}]
      BY <1>1, <2>1 DEF WsTypes
    <3>4. /\ reader' \in [Conn -> {"none", "gone"} \cup Served]
          /\ \A d \in Conn : lock' = d <=> reader'[d] = "handling"
      <4>1. lock' = lock /\ "locking" # "handling"
        BY <3>2
      <4> QED BY <1>1, <2>2, <2>3, <4>1, ReaderTypes DEF Served
    <3> QED BY <1>1, <2>2, <3>1, <3>2, <3>3, <3>4 DEF WsTypes
  <2> QED BY <2>5, <2>6
<1>3. CASE ReadClose(c)
  <2>1. /\ Takes(c, "close") /\ "close" \in Line /\ "close" \notin Asking
        /\ reader' = [reader EXCEPT ![c] = "leaving"] /\ UNCHANGED <<current, queue, answered>>
        /\ hungUp' = hungUp \cup {c}
    BY <1>3 DEF ReadClose, Line, Asking
  <2>2. reader[c] = "reading" /\ reader'[c] = "leaving"
    BY <1>1, <2>1, TakesFacts DEF WsTypes
  <2>3. Due(c)' = Due(c)
    <3>1. Open(c) = 0 /\ Open(c)' = 0
      BY <2>2 DEF Open
    <3> QED BY <1>1, <2>1, <3>1, TakesFacts DEF Due
  <2>4. ConnInv(c)'
    BY <1>1, <2>1, <2>2, <2>3, TakesFacts, ReaderMoves DEF Quiet
  <2>5. WsTypes'
    <3>1. inbox' \in [Conn -> Seq(Line)]
      BY <1>1, <2>1, TakesFacts
    <3>2. UNCHANGED <<sent, lines, asked, lock, broken, forwarder, at, base, writer, hand, wire,
                      heard>>
      BY <1>1, <2>1, TakesFacts
    <3>3. /\ reader' \in [Conn -> {"none", "gone"} \cup Served]
          /\ \A d \in Conn : lock' = d <=> reader'[d] = "handling"
      <4>1. lock' = lock /\ "leaving" # "handling"
        BY <3>2
      <4> QED BY <1>1, <2>1, <2>2, <4>1, ReaderTypes DEF Served
    <3> QED BY <1>1, <2>1, <3>1, <3>2, <3>3 DEF WsTypes
  <2> QED BY <2>4, <2>5
<1>4. CASE ReadFails(c)
  <2> USE DEF clientVars, forwardVars, writerVars
  <2>1. /\ reader[c] = "reading" /\ reader' = [reader EXCEPT ![c] = "gone"] /\ reader'[c] = "gone"
        /\ broken' = broken \cup {c}
        /\ UNCHANGED <<sent, inbox, lines, asked, current, lock, hungUp, forwarder, at, base, queue,
                       writer, hand, wire, heard, answered>>
    BY <1>1, <1>4 DEF ReadFails, Breaks, WsTypes
  <2>2. Due(c)' = Due(c)
    BY <2>1 DEF Due, Open
  <2>3. ConnInv(c)'
    BY <2>1, <2>2, ReaderMoves DEF Quiet
  <2>4. WsTypes'
    BY <1>1, <2>1 DEF WsTypes
  <2> QED BY <2>3, <2>4
<1> QED BY <1>2, <1>3, <1>4

\* The lock is taken, the notice has found room, the writer has been awaited.
LEMMA WaitsInv ==
  ASSUME WsInv, NEW c \in Conn, Lock(c) \/ Noticed(c) \/ Exit(c)
  PROVE  ConnInv(c)' /\ WsTypes'
<1> USE DEF clientVars, forwardVars, writerVars
<1>1. WsTypes /\ ConnInv(c)
  BY DEF WsInv
<1>2. /\ reader' = [reader EXCEPT ![c] = reader'[c]]
      /\ UNCHANGED <<sent, inbox, lines, asked, current, hungUp, broken, forwarder, at, base, queue, writer,
                     hand, wire, heard, answered>>
  BY <1>1 DEF Lock, Noticed, Exit, WsTypes
<1>3. CASE Lock(c)
  <2>1. /\ reader[c] = "locking" /\ reader'[c] = "handling" /\ lock = Nobody /\ lock' = c
        /\ reader' = [reader EXCEPT ![c] = "handling"]
    BY <1>1, <1>3 DEF Lock, WsTypes
  <2>2. Due(c)' = Due(c)
    BY <1>2, <2>1 DEF Due, Open
  <2>3. current[c] # "none"
    BY <1>1, <2>1 DEF ConnInv, PhaseInv
  <2>4. ConnInv(c)'
    BY <1>2, <2>1, <2>2, <2>3, ReaderMoves DEF Quiet
  <2>5. WsTypes'
    <3>1. \A d \in Conn : lock' = d <=> reader'[d] = "handling"
      BY <1>1, <2>1, WsConstants DEF WsTypes
    <3>2. reader' \in [Conn -> {"none", "gone"} \cup Served]
      BY <1>1, <2>1 DEF WsTypes, Served
    <3> QED BY <1>1, <1>2, <2>1, <3>1, <3>2 DEF WsTypes
  <2> QED BY <2>4, <2>5
<1>4. CASE Noticed(c)
  <2>1. /\ reader[c] = "noticing" /\ reader'[c] = "leaving" /\ lock' = lock
        /\ reader' = [reader EXCEPT ![c] = "leaving"]
        /\ \A i \in DOMAIN queue[c] : queue[c][i] = Overflow => i <= QueueMax
    BY <1>1, <1>4 DEF Noticed, WsTypes
  <2>2. Due(c)' = Due(c)
    BY <1>2, <2>1 DEF Due, Open
  <2>3. \A i \in Behind(c) : queue[c][i] # Overflow
    <3>1. DOMAIN queue[c] = 1 .. Len(queue[c])
      BY <1>1, StreamFacts
    <3> QED BY <2>1, <3>1, WsConstants DEF Behind
  <2>4. ConnInv(c)'
    BY <1>2, <2>1, <2>2, <2>3, ReaderMoves DEF Quiet
  <2>5. WsTypes'
    BY <1>1, <1>2, <2>1 DEF WsTypes, Served
  <2> QED BY <2>4, <2>5
<1>5. CASE Exit(c)
  <2>1. /\ reader[c] = "flushing" /\ reader'[c] = "gone" /\ lock' = lock
        /\ reader' = [reader EXCEPT ![c] = "gone"]
    BY <1>1, <1>5 DEF Exit, WsTypes
  <2>2. Due(c)' = Due(c)
    BY <1>2, <2>1 DEF Due, Open
  <2>3. ConnInv(c)'
    BY <1>2, <2>1, <2>2, ReaderMoves DEF Quiet
  <2>4. WsTypes'
    BY <1>1, <1>2, <2>1 DEF WsTypes, Served
  <2> QED BY <2>3, <2>4
<1> QED BY <1>3, <1>4, <1>5

\* What is put behind the stream: an answer or a notice of an overflow, or what
\* the forwarder has come to.
LEMMA ToldGrows ==
  ASSUME WsTypes, NEW c \in Conn, ToldInv(c), reader[c] # "none", NEW x \in Items,
         Stream(c)' = Append(Stream(c), x),
         UNCHANGED <<sent, wire, heard, base, forwarder, writer>>,
         \/ x \notin Written /\ at' = at
         \/ /\ forwarder[c] = "running" /\ writer[c] # "failed"
            /\ at'[c] \in Nat /\ at'[c] <= Subscribed
            /\ \/ x = Frame(at[c] - base[c]) /\ at'[c] = at[c] + 1
               \/ \E k \in Nat \ {0} : x = Dropped(k) /\ at'[c] = at[c] + k
  PROVE  ToldInv(c)'
<1> DEFINE s == Stream(c)
           L == Len(s)
<1>1. /\ s \in Seq(Items) /\ L \in Nat /\ Len(wire[c]) \in 0 .. L /\ Len(Append(s, x)) = L + 1
      /\ at[c] \in Nat /\ base[c] \in Nat
  <2>1. s \in Seq(Items) /\ Len(wire[c]) \in Nat /\ L >= Len(wire[c])
    <3>1. /\ s \in Seq(Items) /\ L = Len(wire[c]) + Len(hand[c]) + Len(queue[c])
          /\ Len(wire[c]) \in Nat /\ Len(hand[c]) \in Nat /\ Len(queue[c]) \in Nat
      BY StreamFacts
    <3> DEFINE w == Len(wire[c])
               h == Len(hand[c])
               q == Len(queue[c])
    <3>2. w \in Nat /\ h \in Nat /\ q \in Nat /\ L = w + h + q
      BY <3>1
    <3> HIDE DEF L, w, h, q
    <3>3. L >= w
      BY <3>2
    <3> QED BY <3>1, <3>3 DEF w
  <2> HIDE DEF s
  <2>2. L \in Nat /\ Len(Append(s, x)) = L + 1
    BY <2>1, AppendProperties, LenProperties
  <2> QED BY <2>1, <2>2 DEF WsTypes
<1>2. PICK pos : /\ Told(pos, s)
                 /\ pos[Len(wire[c])] = heard[c]
                 /\ \A i \in 0 .. L : pos[i] <= at[c] - base[c] - 1
                 /\ forwarder[c] = "running" /\ writer[c] # "failed" =>
                      pos[L] = at[c] - base[c] - 1
  BY DEF ToldInv
<1>3. base[c] < at[c] /\ at[c] <= Subscribed
  BY DEF ToldInv
<1>4. Stream(c)' = Append(s, x)
  OBVIOUS
<1> HIDE DEF s
<1>5. pos \in [0 .. L -> Nat] /\ pos[L] \in Nat
  BY SMTT(20), <1>1, <1>2 DEF Told
<1> HIDE DEF L
<1>6. CASE x \notin Written /\ at' = at
  <2> DEFINE n == pos[L]
  <2>0. /\ n \in Nat
        /\ \/ x \notin Written /\ n = pos[Len(s)]
           \/ x = Frame(n) /\ n = pos[Len(s)] + 1
           \/ \E k \in Nat \ {0} : x = Dropped(k) /\ n = pos[Len(s)] + k
    BY <1>5, <1>6 DEF L
  <2> HIDE DEF n
  <2>1. PICK p : /\ Told(p, Append(s, x)) /\ p[L + 1] = n
                 /\ \A i \in 0 .. L : p[i] = pos[i]
    BY <1>1, <1>2, <1>6, <2>0, ToldAppend DEF L
  <2>2. \A i \in 0 .. L + 1 : p[i] <= at[c] - base[c] - 1
    <3> SUFFICES ASSUME NEW i \in 0 .. L + 1 PROVE p[i] <= at[c] - base[c] - 1
      OBVIOUS
    <3>1. i = L + 1 \/ i \in 0 .. L
      BY <1>1
    <3> QED BY <1>1, <1>2, <2>1, <3>1 DEF n
  <2>3. p[Len(wire[c])] = heard[c]
    BY <1>1, <1>2, <2>1
  <2>4. forwarder[c] = "running" /\ writer[c] # "failed" => p[L + 1] = at[c] - base[c] - 1
    BY <1>2, <2>1 DEF n
  <2>5. base'[c] < at'[c] /\ at'[c] <= Subscribed'
    BY <1>3, <1>6 DEF Subscribed
  <2>6. Len(Stream(c)') = L + 1 /\ Told(p, Stream(c)')
    BY <1>1, <1>4, <2>1
  <2> QED BY <1>6, <2>2, <2>3, <2>4, <2>5, <2>6 DEF ToldInv
<1>7. CASE /\ forwarder[c] = "running" /\ writer[c] # "failed"
           /\ at'[c] \in Nat /\ at'[c] <= Subscribed
           /\ \/ x = Frame(at[c] - base[c]) /\ at'[c] = at[c] + 1
              \/ \E k \in Nat \ {0} : x = Dropped(k) /\ at'[c] = at[c] + k
  <2> DEFINE n == at'[c] - base[c] - 1
  <2>1. n \in Nat /\ n > pos[L] /\ pos[L] = at[c] - base[c] - 1
    <3>1. at'[c] \in Nat /\ at'[c] > at[c]
      BY <1>1, <1>7
    <3>2. pos[L] = at[c] - base[c] - 1
      BY <1>2, <1>7
    <3> DEFINE a == at'[c]
               d == at[c]
               b == base[c]
               u == pos[L]
    <3>3. /\ a \in Nat /\ d \in Nat /\ b \in Nat /\ a > d /\ b < d
          /\ u = d - b - 1 /\ n = a - b - 1
      BY <1>1, <1>3, <3>1, <3>2
    <3> HIDE DEF a, b, d, u, n
    <3>4. n \in Nat /\ n > u
      BY <3>3
    <3> QED BY <3>2, <3>4 DEF u
  <2>2. \/ x = Frame(n) /\ n = pos[L] + 1
        \/ \E k \in Nat \ {0} : x = Dropped(k) /\ n = pos[L] + k
    <3>1. CASE x = Frame(at[c] - base[c]) /\ at'[c] = at[c] + 1
      <4>1. n = at[c] - base[c] /\ n = pos[L] + 1
        BY <1>1, <2>1, <3>1
      <4> QED BY <3>1, <4>1
    <3>2. ASSUME NEW k \in Nat \ {0}, x = Dropped(k), at'[c] = at[c] + k
          PROVE  n = pos[L] + k
      BY <1>1, <2>1, <3>2
    <3> QED BY <1>7, <3>1, <3>2
  <2> HIDE DEF n
  <2>3. PICK p : /\ Told(p, Append(s, x)) /\ p[L + 1] = n
                 /\ \A i \in 0 .. L : p[i] = pos[i]
    BY <1>1, <1>2, <2>1, <2>2, ToldAppend DEF L
  <2>4. \A i \in 0 .. L + 1 : p[i] <= n
    <3> SUFFICES ASSUME NEW i \in 0 .. L + 1 PROVE p[i] <= n
      OBVIOUS
    <3>1. i = L + 1 \/ i \in 0 .. L
      BY <1>1
    <3>2. i \in 0 .. L => pos[i] <= pos[L] /\ pos[i] \in Nat
      BY <1>2, <1>5, <2>1
    <3> QED BY <1>5, <2>1, <2>3, <3>1, <3>2
  <2>5. p[Len(wire[c])] = heard[c]
    BY <1>1, <1>2, <2>3
  <2>6. base'[c] < at'[c] /\ at'[c] <= Subscribed' /\ at'[c] - base'[c] - 1 = n
    BY SMTT(20), <1>1, <1>3, <1>5, <1>7, <2>1 DEF n, Subscribed
  <2> QED BY <1>1, <1>4, <1>7, <2>3, <2>4, <2>5, <2>6 DEF ToldInv
<1> QED BY <1>6, <1>7

\* queue_or_close takes an answer that is due, or notes that there was no room,
\* or leaves a connection whose socket has failed.
LEMMA QueueOrCloseInv ==
  ASSUME WsInv, NEW c \in Conn, NEW next \in {"reading", "leaving"}, QueueOrClose(c, next),
         reader[c] \in Quiet,
         Due(c) = answered[c] + Len(Kept(inbox'[c], Asking)) + 1,
         Len(Kept(inbox'[c], Asking)) \in Nat,
         UNCHANGED <<sent, lines, asked, hand, wire, heard, writer, forwarder, at, base>>
  PROVE  /\ ConnInv(c)'
         /\ queue' \in [Conn -> Seq(Items)]
         /\ answered' \in [Conn -> Nat]
         /\ reader' = [reader EXCEPT ![c] = reader'[c]]
         /\ reader'[c] \in {"reading", "leaving", "noticing"}
         /\ \A d \in Conn \ {c} : queue'[d] = queue[d] /\ answered'[d] = answered[d]
<1> DEFINE k == Len(Kept(inbox'[c], Asking))
           s == Stream(c)
<1>1. /\ WsTypes /\ ConnInv(c) /\ answered[c] \in Nat /\ k \in Nat /\ asked[c] \in Nat
      /\ reader[c] # "none" /\ QueueMax \in Nat \ {0} /\ lines[c] \in Nat
      /\ Answer \in Items /\ Overflow \in Items
      /\ Answer \notin Written /\ Overflow \notin Written /\ Answer # Overflow
  <2>1. /\ Answer \in Items /\ Overflow \in Items
        /\ Answer \notin Written /\ Overflow \notin Written /\ Answer # Overflow
    BY DEF Items, Answer, Overflow, Written
  <2>2. /\ WsTypes /\ ConnInv(c) /\ answered[c] \in Nat /\ asked[c] \in Nat
        /\ lines[c] \in 0 .. MaxLines /\ MaxLines \in Nat
    BY WsConstants DEF WsInv, WsTypes
  <2>3. reader[c] # "none" /\ QueueMax \in Nat \ {0} /\ lines[c] \in Nat
    BY <2>2, WsConstants DEF Quiet
  <2> QED BY <2>1, <2>2, <2>3
<1>2. /\ s \in Seq(Items) /\ DOMAIN s = 1 .. Len(s)
      /\ Len(queue[c]) \in Nat /\ DOMAIN queue[c] = 1 .. Len(queue[c])
  BY <1>1, StreamFacts
<1>3. /\ writer[c] # "failed" => Len(Kept(s, {Answer})) = answered[c]
      /\ answered[c] + k + 1 <= asked[c] /\ asked[c] <= lines[c]
      /\ answered[c] + k + 1 < asked[c] => writer[c] = "failed" \/ \E i \in DOMAIN s : s[i] = Overflow
  BY <1>1 DEF ConnInv, AnswerInv
<1>4. \A i \in DOMAIN queue[c] : queue[c][i] # Overflow
  BY <1>1 DEF ConnInv, BehindInv
<1>5. writer[c] # "ended"
  BY <1>1 DEF ConnInv, PhaseInv, Quiet
<1>6. ASSUME NEW x \in Items
      PROVE  LET t == Append(s, x)
             IN /\ t[Len(s) + 1] = x /\ DOMAIN t = 1 .. Len(s) + 1
                /\ \A i \in 1 .. Len(s) : t[i] = s[i]
                /\ Kept(t, {Answer}) = IF x = Answer THEN Append(Kept(s, {Answer}), x)
                                       ELSE Kept(s, {Answer})
                /\ Len(Append(Kept(s, {Answer}), x)) = Len(Kept(s, {Answer})) + 1
  <2> HIDE DEF s
  <2>1. Append(s, x) \in Seq(Items) /\ Len(Append(s, x)) = Len(s) + 1 /\ Append(s, x)[Len(s) + 1] = x
        /\ \A i \in 1 .. Len(s) : Append(s, x)[i] = s[i]
    BY <1>2, AppendProperties
  <2>2. DOMAIN Append(s, x) = 1 .. Len(s) + 1
    BY <2>1, LenProperties
  <2>3. Kept(Append(s, x), {Answer}) = IF x \in {Answer} THEN Append(Kept(s, {Answer}), x)
                                       ELSE Kept(s, {Answer})
    BY <1>2, KeptAppend
  <2>4. Kept(s, {Answer}) \in Seq(Items)
    BY <1>2, KeptIsSublist
  <2> DEFINE w == Kept(s, {Answer})
  <2> HIDE DEF w
  <2>5. Len(Append(w, x)) = Len(w) + 1
    BY <2>4, AppendProperties DEF w
  <2> QED BY <2>1, <2>2, <2>3, <2>5 DEF w
<1>7. CASE /\ writer[c] # "failed"
           /\ Len(queue[c]) < QueueMax
           /\ queue' = [queue EXCEPT ![c] = Append(@, Answer)]
           /\ answered' = [answered EXCEPT ![c] = @ + 1]
           /\ reader' = [reader EXCEPT ![c] = next]
  <2>1. Stream(c)' = Append(s, Answer)
    BY <1>1, <1>7, Queued
  <2>2. /\ answered'[c] = answered[c] + 1 /\ reader'[c] = next /\ answered' \in [Conn -> Nat]
        /\ \A d \in Conn \ {c} : answered'[d] = answered[d]
    BY SMTT(20), <1>1, <1>7 DEF WsTypes
  <2>3. /\ queue' \in [Conn -> Seq(Items)]
        /\ \A d \in Conn \ {c} : queue'[d] = queue[d]
        /\ DOMAIN queue'[c] = 1 .. Len(queue[c]) + 1
        /\ queue'[c][Len(queue[c]) + 1] = Answer
        /\ \A i \in 1 .. Len(queue[c]) : queue'[c][i] = queue[c][i]
    BY <1>1, <1>7, QueueGrows
  <2>4. PhaseInv(c)'
    BY <1>1, <1>5, <2>2 DEF ConnInv, PhaseInv
  <2>5. BehindInv(c)'
    <3>1. \A i \in DOMAIN queue'[c] : i <= QueueMax /\ queue'[c][i] # Overflow
      BY <1>1, <1>2, <1>4, <1>7, <2>3
    <3>2. Behind(c)' = {}
      BY <1>1, <1>2, <2>3, <3>1 DEF Behind
    <3> QED BY <3>1, <3>2 DEF BehindInv
  <2>6. AnswerInv(c)'
    <3>1. Open(c)' = 0
      BY <2>2 DEF Open
    <3>2. Due(c)' = answered[c] + k + 1
      BY <1>1, <2>2, <3>1 DEF Due
    <3>3. Len(Kept(Stream(c)', {Answer})) = answered'[c]
      <4>1. Kept(Stream(c)', {Answer}) = Append(Kept(s, {Answer}), Answer)
        BY <1>1, <1>6, <2>1
      <4>2. Len(Append(Kept(s, {Answer}), Answer)) = Len(Kept(s, {Answer})) + 1
        BY <1>1, <1>6
      <4>3. Len(Kept(s, {Answer})) = answered[c]
        BY <1>3, <1>7
      <4> QED BY <2>2, <4>1, <4>2, <4>3
    <3>4. (\E i \in DOMAIN s : s[i] = Overflow)
            => \E i \in DOMAIN Stream(c)' : Stream(c)'[i] = Overflow
      BY <1>1, <1>2, <1>6, <2>1
    <3> QED BY <1>3, <1>7, <3>2, <3>3, <3>4 DEF AnswerInv
  <2>7. ToldInv(c)'
    BY <1>1, <2>1, ToldGrows DEF ConnInv
  <2> QED BY <1>7, <2>2, <2>3, <2>4, <2>5, <2>6, <2>7 DEF ConnInv
<1>8. CASE /\ writer[c] # "failed"
           /\ Len(queue[c]) >= QueueMax
           /\ queue' = [queue EXCEPT ![c] = Append(@, Overflow)]
           /\ reader' = [reader EXCEPT ![c] = "noticing"]
           /\ UNCHANGED answered
  <2>1. Stream(c)' = Append(s, Overflow)
    BY <1>1, <1>8, Queued
  <2>2. reader'[c] = "noticing"
    BY <1>1, <1>8 DEF WsTypes
  <2>3. /\ queue' \in [Conn -> Seq(Items)]
        /\ \A d \in Conn \ {c} : queue'[d] = queue[d]
        /\ DOMAIN queue'[c] = 1 .. Len(queue[c]) + 1
        /\ queue'[c][Len(queue[c]) + 1] = Overflow
        /\ \A i \in 1 .. Len(queue[c]) : queue'[c][i] = queue[c][i]
    BY <1>1, <1>8, QueueGrows
  <2>4. PhaseInv(c)'
    BY <1>1, <1>5, <2>2 DEF ConnInv, PhaseInv
  <2>5. BehindInv(c)'
    <3> DEFINE L == Len(queue[c])
    <3>1. \A i \in DOMAIN queue'[c] : queue'[c][i] = Overflow <=> i = L + 1
      <4> DEFINE u == queue[c]
                 v == queue'[c]
      <4>1. L \in Nat /\ DOMAIN u = 1 .. L /\ DOMAIN v = 1 .. L + 1
        BY <1>2, <2>3
      <4>2. v[L + 1] = Overflow /\ \A i \in 1 .. L : v[i] = u[i]
        BY <2>3
      <4>3. \A i \in 1 .. L : u[i] # Overflow
        BY <1>4, <4>1
      <4> HIDE DEF u, v, L
      <4>4. \A i \in DOMAIN v : v[i] = Overflow <=> i = L + 1
        BY <4>1, <4>2, <4>3
      <4> QED BY <4>4 DEF v
    <3>2. \A i \in Behind(c)' : i # L + 1 => i \in Behind(c) /\ queue'[c][i] = queue[c][i]
      BY SMTT(20), <1>1, <1>2, <2>3 DEF Behind
    <3>3. Behind(c)' \subseteq DOMAIN queue'[c] /\ Behind(c) \subseteq DOMAIN queue[c]
      BY DEF Behind
    <3> HIDE DEF L
    <3>4. \A i, j \in Behind(c)' : queue'[c][i] # Overflow /\ queue'[c][j] # Overflow => i = j
      BY <1>1, <1>4, <3>1, <3>2, <3>3 DEF ConnInv, BehindInv
    <3>5. \A i, j \in DOMAIN queue'[c] : queue'[c][i] = Overflow /\ queue'[c][j] = Overflow => i = j
      BY <3>1
    <3>6. \A i \in Behind(c)' : queue'[c][i] # Answer
      BY <1>1, <2>3, <3>1, <3>2, <3>3 DEF ConnInv, BehindInv
    <3> QED BY <2>2, <3>4, <3>5, <3>6 DEF BehindInv, Quiet
  <2>6. AnswerInv(c)'
    <3>1. Open(c)' = 0
      BY <2>2 DEF Open
    <3>2. Due(c)' = answered[c] + k
      BY <1>1, <1>8, <3>1 DEF Due
    <3>3. Len(Kept(Stream(c)', {Answer})) = answered'[c]
      BY <1>1, <1>3, <1>6, <1>8, <2>1
    <3>4. \E i \in DOMAIN Stream(c)' : Stream(c)'[i] = Overflow
      <4>1. Len(s) + 1 \in DOMAIN Append(s, Overflow) /\ Append(s, Overflow)[Len(s) + 1] = Overflow
        <5>1. Len(s) \in Nat
          BY <1>2, LenProperties
        <5> QED BY <1>1, <1>6, <5>1
      <4> QED BY <2>1, <4>1
    <3>5. answered[c] + k <= asked[c]
      BY <1>1, <1>3
    <3> QED BY <1>3, <3>2, <3>3, <3>4, <3>5 DEF AnswerInv
  <2>7. ToldInv(c)'
    BY <1>1, <2>1, ToldGrows DEF ConnInv
  <2> QED BY <1>1, <1>8, <2>2, <2>3, <2>4, <2>5, <2>6, <2>7 DEF ConnInv, WsTypes
<1>9. CASE /\ writer[c] = "failed"
           /\ reader' = [reader EXCEPT ![c] = "leaving"]
           /\ UNCHANGED <<queue, answered>>
  <2>1. Stream(c)' = s /\ Behind(c)' = Behind(c)
    BY <1>9 DEF Stream, Behind
  <2>2. reader'[c] = "leaving"
    BY <1>1, <1>9 DEF WsTypes
  <2>3. PhaseInv(c)'
    BY <1>1, <1>5, <1>9, <2>2 DEF ConnInv, PhaseInv
  <2>4. BehindInv(c)'
    <3>1. Behind(c) \subseteq DOMAIN queue[c]
      BY DEF Behind
    <3> QED BY <1>1, <1>4, <1>9, <2>1, <2>2, <3>1 DEF ConnInv, BehindInv, Quiet
  <2>5. AnswerInv(c)'
    <3>1. Open(c)' = 0
      BY <2>2 DEF Open
    <3>2. Due(c)' = answered[c] + k
      BY <1>1, <1>9, <3>1 DEF Due
    <3>3. answered[c] + k <= asked[c]
      BY <1>1, <1>3
    <3> QED BY <1>3, <1>9, <3>2, <3>3 DEF AnswerInv
  <2>6. ToldInv(c)'
    BY <1>1, <1>9, <2>1 DEF ConnInv, ToldInv, Subscribed
  <2> QED BY <1>1, <1>9, <2>2, <2>3, <2>4, <2>5, <2>6 DEF ConnInv, WsTypes
<1> QED BY <1>7, <1>8, <1>9 DEF QueueOrClose

\* A frame that cannot be read is answered without the lock.
LEMMA ReadBadInv ==
  ASSUME WsInv, NEW c \in Conn, ReadBad(c)
  PROVE  /\ ConnInv(c)' /\ WsTypes'
         /\ \A d \in Conn \ {c} : View(d)' = View(d)
         /\ UNCHANGED sent
         /\ reader[c] = "reading"
         /\ reader'[c] \in {"reading", "leaving", "noticing"}
<1>1. WsTypes /\ ConnInv(c)
  BY DEF WsInv
<1>2. /\ Takes(c, "bad") /\ QueueOrClose(c, "reading") /\ UNCHANGED <<current, hungUp>>
      /\ "bad" \in Line /\ "bad" \in Asking
  BY DEF ReadBad, Line, Asking
<1>3. /\ reader[c] = "reading"
      /\ inbox' \in [Conn -> Seq(Line)]
      /\ \A d \in Conn \ {c} : inbox'[d] = inbox[d]
      /\ Len(Kept(inbox'[c], Asking)) \in Nat
      /\ Len(Kept(inbox[c], Asking)) = Len(Kept(inbox'[c], Asking)) + 1
      /\ UNCHANGED <<sent, lines, asked, lock, broken, forwarder, at, base, writer, hand, wire,
                     heard>>
  BY <1>1, <1>2, TakesFacts
<1>4. Due(c) = answered[c] + Len(Kept(inbox'[c], Asking)) + 1
  <2>1. Open(c) = 0 /\ answered[c] \in Nat
    BY <1>1, <1>3 DEF Open, WsTypes
  <2> DEFINE k == Len(Kept(inbox[c], Asking))
             l == Len(Kept(inbox'[c], Asking))
  <2>2. Due(c) = answered[c] + k + 0 /\ k = l + 1 /\ l \in Nat
    BY <1>3, <2>1 DEF Due
  <2> HIDE DEF k, l
  <2>3. Due(c) = answered[c] + l + 1
    BY <2>1, <2>2
  <2> QED BY <2>3 DEF l
<1>5. /\ ConnInv(c)'
      /\ queue' \in [Conn -> Seq(Items)]
      /\ answered' \in [Conn -> Nat]
      /\ reader' = [reader EXCEPT ![c] = reader'[c]]
      /\ reader'[c] \in {"reading", "leaving", "noticing"}
      /\ \A d \in Conn \ {c} : queue'[d] = queue[d] /\ answered'[d] = answered[d]
  BY <1>2, <1>3, <1>4, QueueOrCloseInv DEF Quiet
<1>6. WsTypes'
  <2> DEFINE where == reader'[c]
  <2>0. where \in Served \ {"handling"} /\ reader' = [reader EXCEPT ![c] = where]
    BY <1>5 DEF Served
  <2> HIDE DEF where
  <2>1. /\ reader' \in [Conn -> {"none", "gone"} \cup Served]
        /\ \A d \in Conn : lock' = d <=> reader'[d] = "handling"
    BY <1>1, <1>3, <2>0, ReaderTypes
  <2> QED BY <1>1, <1>2, <1>3, <1>5, <2>1 DEF WsTypes
<1>7. \A d \in Conn \ {c} : View(d)' = View(d)
  <2>1. \A d \in Conn \ {c} : reader'[d] = reader[d]
    BY <1>1, <1>5 DEF WsTypes
  <2> QED BY <1>2, <1>3, <1>5, <2>1 DEF View
<1> QED BY <1>3, <1>5, <1>6, <1>7

\* A request is handled and answered, or is one that wants no answer.
LEMMA HandledInv ==
  ASSUME WsInv, NEW c \in Conn, Handled(c)
  PROVE  /\ ConnInv(c)' /\ WsTypes'
         /\ \A d \in Conn \ {c} : View(d)' = View(d)
         /\ UNCHANGED sent
         /\ reader[c] = "handling"
         /\ reader'[c] \in {"reading", "leaving", "noticing"}
<1> USE DEF clientVars, forwardVars, writerVars
<1>1. /\ WsTypes /\ ConnInv(c) /\ reader[c] = "handling" /\ lock' = Nobody
      /\ current' = [current EXCEPT ![c] = "none"] /\ current'[c] = "none"
      /\ UNCHANGED <<sent, inbox, lines, asked, hungUp, broken, forwarder, at, base, writer, hand, wire, heard>>
  BY DEF WsInv, WsTypes, Handled, Handles
<1>2. current[c] \in {"request", "silent", "shutdown"} /\ lock = c
  BY <1>1 DEF WsTypes, ConnInv, PhaseInv
<1>3. /\ inbox[c] \in Seq(Line) /\ answered[c] \in Nat
      /\ Kept(inbox[c], Asking) \in Seq(Line) /\ Len(Kept(inbox[c], Asking)) \in Nat
  <2>1. inbox[c] \in Seq(Line) /\ answered[c] \in Nat
    BY <1>1 DEF WsTypes
  <2>2. Kept(inbox[c], Asking) \in Seq(Line)
    BY <2>1, KeptIsSublist
  <2> QED BY <2>1, <2>2, LenProperties
<1>4. /\ ConnInv(c)'
      /\ queue' \in [Conn -> Seq(Items)]
      /\ answered' \in [Conn -> Nat]
      /\ reader' = [reader EXCEPT ![c] = reader'[c]]
      /\ reader'[c] \in {"reading", "leaving", "noticing"}
      /\ \A d \in Conn \ {c} : queue'[d] = queue[d] /\ answered'[d] = answered[d]
  <2>1. CASE current[c] = "silent"
    <3>1. /\ reader' = [reader EXCEPT ![c] = "reading"] /\ UNCHANGED <<queue, answered>>
      BY <2>1 DEF Handled, Handles
    <3>2. reader'[c] = "reading"
      BY <1>1, <3>1 DEF WsTypes
    <3>3. Due(c)' = Due(c)
      BY <1>1, <2>1, <3>1, <3>2 DEF Due, Open, Asking
    <3>4. ConnInv(c)'
      BY <1>1, <3>1, <3>2, <3>3, ReaderMoves DEF Quiet
    <3> QED BY <1>1, <3>1, <3>2, <3>4 DEF WsTypes
  <2>2. CASE current[c] \in {"request", "shutdown"}
    <3>1. \E next \in {"reading", "leaving"} : QueueOrClose(c, next)
      BY <2>2 DEF Handled, Handles
    <3>2. Due(c) = answered[c] + Len(Kept(inbox'[c], Asking)) + 1
      <4>1. Open(c) = 1
        BY <1>1, <2>2 DEF Open, Asking, Line
      <4> QED BY <1>1, <4>1 DEF Due
    <3> QED BY <1>1, <1>3, <3>1, <3>2, QueueOrCloseInv DEF Quiet
  <2> QED BY <1>2, <2>1, <2>2
<1>5. WsTypes'
  <2> DEFINE where == reader'[c]
  <2>0. where \in Served \ {"handling"} /\ reader' = [reader EXCEPT ![c] = where]
    BY <1>4 DEF Served
  <2> HIDE DEF where
  <2>1. /\ reader' \in [Conn -> {"none", "gone"} \cup Served]
        /\ lock' \in Conn \cup {Nobody}
        /\ \A d \in Conn : lock' = d <=> reader'[d] = "handling"
    BY <1>1, <2>0, ReaderTypes
  <2> QED BY <1>1, <1>4, <2>1 DEF WsTypes
<1>6. \A d \in Conn \ {c} : View(d)' = View(d)
  <2>1. \A d \in Conn \ {c} : reader'[d] = reader[d] /\ current'[d] = current[d]
    BY <1>1, <1>4 DEF WsTypes
  <2> QED BY <1>1, <1>4, <2>1 DEF View
<1> QED BY <1>1, <1>4, <1>5, <1>6

\* The forwarder queues the next frame or the notice of those it missed.
LEMMA ForwardInv ==
  ASSUME WsInv, NEW c \in Conn, Forward(c) \/ ForwardLag(c)
  PROVE  ConnInv(c)' /\ WsTypes'
<1> USE DEF clientVars, readerVars, writerVars
<1>1. /\ WsTypes /\ ConnInv(c) /\ at[c] \in Nat /\ base[c] \in Nat /\ Len(sent) \in Nat
      /\ Capacity \in Nat \ {0} /\ QueueMax \in Nat \ {0}
  BY CapacityPositive, WsConstants, LenProperties DEF WsInv, WsTypes
<1>2. PICK item, cursor :
        /\ Forwarding(c, item, cursor)
        /\ \/ Ready(at[c]) /\ item = Frame(at[c] - base[c]) /\ cursor = at[c] + 1
           \/ Lags(at[c]) /\ item = Dropped(Oldest - at[c]) /\ cursor = Oldest
  BY DEF Forward, ForwardLag
<1>3. /\ forwarder[c] = "running" /\ writer[c] # "failed"
      /\ queue' = [queue EXCEPT ![c] = Append(@, item)]
      /\ at' = [at EXCEPT ![c] = cursor]
      /\ \A i \in DOMAIN queue[c] : i > QueueMax => queue[c][i] = Overflow
      /\ UNCHANGED <<sent, inbox, lines, asked, reader, current, lock, hungUp, broken, forwarder, base,
                     writer, hand, wire, heard, answered>>
  BY <1>2 DEF Forwarding, Forwards
<1>4. reader[c] # "none" /\ writer[c] # "ended"
  BY <1>1, <1>3 DEF ConnInv, PhaseInv
<1>5. base[c] < at[c]
  BY <1>1, <1>4 DEF ConnInv, ToldInv
<1>6. /\ cursor \in Nat /\ at'[c] = cursor /\ cursor <= Subscribed
      /\ \/ item = Frame(at[c] - base[c]) /\ at'[c] = at[c] + 1
         \/ \E k \in Nat \ {0} : item = Dropped(k) /\ at'[c] = at[c] + k
  <2>1. at'[c] = cursor
    BY <1>1, <1>3 DEF WsTypes
  <2>2. CASE Ready(at[c]) /\ item = Frame(at[c] - base[c]) /\ cursor = at[c] + 1
    BY <1>1, <2>1, <2>2 DEF Ready, Subscribed
  <2>3. CASE Lags(at[c]) /\ item = Dropped(Oldest - at[c]) /\ cursor = Oldest
    <3>1. Oldest \in Nat /\ Oldest <= Subscribed /\ at[c] < Oldest
      BY <1>1, <2>3 DEF Lags, Oldest, Subscribed
    <3> DEFINE k == Oldest - at[c]
    <3>2. k \in Nat \ {0} /\ Oldest = at[c] + k
      BY <1>1, <3>1
    <3> HIDE DEF k
    <3>3. item = Dropped(k)
      BY <2>3 DEF k
    <3> QED BY <2>1, <2>3, <3>1, <3>2, <3>3
  <2> QED BY <1>2, <2>2, <2>3
<1>7. /\ item \in Items /\ item \in Written
      /\ Answer \notin Written /\ item # Answer /\ item # Overflow
  <2>1. item \in Written
    BY <1>1, <1>5, <1>6 DEF Frame, Dropped, Written
  <2>2. Answer \notin Written /\ Overflow \notin Written
    BY DEF Answer, Overflow, Written
  <2> QED BY <2>1, <2>2 DEF Items
<1>8. Stream(c)' = Append(Stream(c), item)
  BY <1>1, <1>3, <1>7, Queued
<1>9. /\ queue' \in [Conn -> Seq(Items)]
      /\ Len(queue[c]) \in Nat /\ DOMAIN queue[c] = 1 .. Len(queue[c])
      /\ DOMAIN queue'[c] = 1 .. Len(queue[c]) + 1
      /\ queue'[c][Len(queue[c]) + 1] = item
      /\ \A i \in 1 .. Len(queue[c]) : queue'[c][i] = queue[c][i]
  BY <1>1, <1>3, <1>7, QueueGrows
<1>10. PhaseInv(c)'
  BY <1>1, <1>3, <1>4 DEF ConnInv, PhaseInv
<1>11. BehindInv(c)'
  <2> DEFINE L == Len(queue[c])
  <2>1. /\ \A i \in Behind(c)' : i = L + 1 \/ (i \in DOMAIN queue[c] /\ i > QueueMax)
        /\ \A i \in DOMAIN queue'[c] : i = L + 1 \/ i \in DOMAIN queue[c]
        /\ \A i \in DOMAIN queue[c] : queue'[c][i] = queue[c][i]
    BY <1>9 DEF Behind
  <2>2. queue'[c][L + 1] = item
    BY <1>9
  <2>3. Overflow # Answer
    BY DEF Overflow, Answer
  <2>4. \A i \in DOMAIN queue[c] : i \in Behind(c) <=> i > QueueMax
    BY DEF Behind
  <2> HIDE DEF L
  <2>5. \A i, j \in Behind(c)' : queue'[c][i] # Overflow /\ queue'[c][j] # Overflow => i = j
    BY <1>3, <2>1
  <2>6. \A i, j \in DOMAIN queue'[c] : queue'[c][i] = Overflow /\ queue'[c][j] = Overflow => i = j
    BY <1>1, <1>7, <2>1, <2>2 DEF ConnInv, BehindInv
  <2>7. \A i \in Behind(c)' : queue'[c][i] # Answer
    BY <1>3, <1>7, <2>1, <2>2, <2>3
  <2>8. reader[c] \in Quiet => \A i \in DOMAIN queue'[c] : queue'[c][i] # Overflow
    BY <1>1, <1>7, <2>1, <2>2 DEF ConnInv, BehindInv
  <2>9. reader[c] = "leaving" => \A i \in Behind(c)' : queue'[c][i] # Overflow
    BY <1>1, <1>7, <2>1, <2>2, <2>4 DEF ConnInv, BehindInv
  <2> QED BY <1>3, <2>5, <2>6, <2>7, <2>8, <2>9 DEF BehindInv
<1>12. AnswerInv(c)'
  <2> DEFINE s == Stream(c)
  <2>1. s \in Seq(Items)
    BY <1>1, StreamFacts
  <2>2. Stream(c)' = Append(s, item)
    BY <1>8
  <2>3. /\ writer[c] # "failed" => Len(Kept(s, {Answer})) = answered[c]
        /\ Due(c) <= asked[c] /\ asked[c] <= lines[c]
        /\ Due(c) < asked[c] => writer[c] = "failed" \/ \E i \in DOMAIN s : s[i] = Overflow
    BY <1>1 DEF ConnInv, AnswerInv
  <2> HIDE DEF s
  <2>4. Kept(Append(s, item), {Answer}) = Kept(s, {Answer})
    <3>1. item \notin {Answer}
      BY <1>7
    <3> QED BY <2>1, <3>1, KeptAppend
  <2>5. \A i \in DOMAIN s : i \in DOMAIN Append(s, item) /\ Append(s, item)[i] = s[i]
    <3>1. /\ Append(s, item) \in Seq(Items) /\ Len(Append(s, item)) = Len(s) + 1
          /\ \A i \in 1 .. Len(s) : Append(s, item)[i] = s[i]
      BY <1>7, <2>1, AppendProperties
    <3>2. Len(s) \in Nat /\ DOMAIN s = 1 .. Len(s) /\ DOMAIN Append(s, item) = 1 .. Len(s) + 1
      BY <2>1, <3>1, LenProperties
    <3> QED BY <3>1, <3>2
  <2>6. Due(c)' = Due(c)
    BY <1>3 DEF Due, Open
  <2>7. (\E i \in DOMAIN s : s[i] = Overflow)
          => \E i \in DOMAIN Stream(c)' : Stream(c)'[i] = Overflow
    BY <2>2, <2>5
  <2> QED BY <1>3, <2>2, <2>3, <2>4, <2>6, <2>7 DEF AnswerInv
<1>13. ToldInv(c)'
  BY <1>1, <1>3, <1>4, <1>6, <1>7, <1>8, ToldGrows DEF ConnInv
<1>14. WsTypes'
  <2>1. at' \in [Conn -> Nat]
    BY <1>1, <1>3, <1>6 DEF WsTypes
  <2> QED BY <1>1, <1>3, <1>9, <2>1 DEF WsTypes
<1> QED BY <1>10, <1>11, <1>12, <1>13, <1>14 DEF ConnInv

\* It finds the queue without a receiver and ends.
LEMMA ForwardEndsInv ==
  ASSUME WsInv, NEW c \in Conn, ForwardEnds(c)
  PROVE  ConnInv(c)' /\ WsTypes'
<1> USE DEF clientVars, readerVars, writerVars
<1>1. /\ WsTypes /\ ConnInv(c) /\ writer[c] = "failed" /\ forwarder[c] = "running"
      /\ forwarder' = [forwarder EXCEPT ![c] = "ended"] /\ forwarder'[c] = "ended"
      /\ UNCHANGED <<sent, inbox, lines, asked, reader, current, lock, hungUp, broken, at, base, queue,
                     writer, hand, wire, heard, answered>>
  BY DEF WsInv, WsTypes, ForwardEnds, Forwards
<1>2. Stream(c)' = Stream(c) /\ Behind(c)' = Behind(c) /\ Due(c)' = Due(c)
  BY <1>1 DEF Stream, Behind, Due, Open
<1>3. PhaseInv(c)' /\ BehindInv(c)' /\ AnswerInv(c)'
  BY <1>1, <1>2 DEF ConnInv, PhaseInv, BehindInv, AnswerInv
<1>4. ToldInv(c)'
  BY <1>1, <1>2 DEF ConnInv, ToldInv, Subscribed
<1>5. WsTypes'
  BY <1>1 DEF WsTypes
<1> QED BY <1>3, <1>4, <1>5 DEF ConnInv

\* The writer ends with the queue.
LEMMA QueueClosedInv ==
  ASSUME WsInv, NEW c \in Conn, QueueClosed(c)
  PROVE  ConnInv(c)' /\ WsTypes'
<1> USE DEF clientVars, readerVars, forwardVars
<1>1. /\ WsTypes /\ ConnInv(c) /\ writer[c] = "receiving" /\ forwarder[c] = "ended"
      /\ queue[c] = <<>> /\ reader[c] \in {"flushing", "gone"}
      /\ writer' = [writer EXCEPT ![c] = "ended"] /\ writer'[c] = "ended"
      /\ UNCHANGED <<sent, inbox, lines, asked, reader, current, lock, hungUp, broken, forwarder, at, base,
                     queue, hand, wire, heard, answered>>
  BY DEF WsInv, WsTypes, QueueClosed
<1>2. Stream(c)' = Stream(c) /\ Behind(c)' = Behind(c) /\ Due(c)' = Due(c)
  BY <1>1 DEF Stream, Behind, Due, Open
<1>3. PhaseInv(c)' /\ BehindInv(c)' /\ AnswerInv(c)'
  BY <1>1, <1>2 DEF ConnInv, PhaseInv, BehindInv, AnswerInv
<1>4. ToldInv(c)'
  BY <1>1, <1>2 DEF ConnInv, ToldInv, Subscribed
<1>5. WsTypes'
  BY <1>1 DEF WsTypes
<1> QED BY <1>3, <1>4, <1>5 DEF ConnInv

\* The writer takes the head of the queue, or puts it on the wire: the stream
\* stays what it is.
LEMMA WriterMoves ==
  ASSUME WsInv, NEW c \in Conn, Receive(c) \/ Write(c)
  PROVE  /\ Stream(c)' = Stream(c)
         /\ queue' \in [Conn -> Seq(Items)]
         /\ wire' \in [Conn -> Seq(Items)]
         /\ hand' \in [Conn -> Seq(Items)]
         /\ writer' \in [Conn -> {"none", "receiving", "sending", "ended", "failed"}]
         /\ Len(hand'[c]) = IF writer'[c] = "sending" THEN 1 ELSE 0
         /\ Receive(c) => /\ writer[c] = "receiving" /\ writer'[c] = "sending" /\ queue[c] # <<>>
                          /\ queue'[c] = Tail(queue[c])
         /\ Write(c) => /\ writer[c] = "sending" /\ writer'[c] = "receiving"
                        /\ Len(hand[c]) = 1
                        /\ Stream(c)[Len(wire[c]) + 1] = hand[c][1]
                        /\ Len(wire'[c]) = Len(wire[c]) + 1
                        /\ Len(wire[c]) + 1 \in 1 .. Len(Stream(c))
<1> DEFINE w == wire[c]
           h == hand[c]
           q == queue[c]
<1>1. /\ WsTypes /\ PhaseInv(c)
      /\ w \in Seq(Items) /\ h \in Seq(Items) /\ q \in Seq(Items)
      /\ Len(w) \in Nat /\ Len(h) \in Nat /\ Len(q) \in Nat
      /\ Stream(c) = (w \o h) \o q
  BY StreamFacts DEF WsInv, ConnInv, Stream
<1>2. CASE Receive(c)
  <2> DEFINE x == Head(q)
             t == Tail(q)
             y == <<x>>
             none == <<>>
  <2>1. /\ writer[c] = "receiving" /\ q # <<>>
        /\ hand' = [hand EXCEPT ![c] = y] /\ queue' = [queue EXCEPT ![c] = t]
        /\ writer' = [writer EXCEPT ![c] = "sending"] /\ wire' = wire
    BY <1>2 DEF Receive
  <2>2. Len(h) = 0
    BY <1>1, <2>1 DEF PhaseInv
  <2> HIDE DEF w, h, q
  <2>3. h = none
    BY <1>1, <2>2, EmptySeq
  <2>4. /\ x \in Items /\ t \in Seq(Items) /\ Len(t) = Len(q) - 1
        /\ \A i \in 1 .. Len(t) : t[i] = q[i + 1]
    BY <1>1, <2>1, HeadTailProperties
  <2>5. y \in Seq(Items) /\ Len(y) = 1 /\ y[1] = q[1]
    BY <2>4
  <2> HIDE DEF x, y, t
  <2>6. q = y \o t
    <3>0. y \in Seq(Items) /\ t \in Seq(Items)
      BY <2>4, <2>5
    <3>4. /\ y \o t \in Seq(Items) /\ Len(y \o t) = Len(y) + Len(t)
          /\ \A i \in 1 .. Len(y) + Len(t) :
               (y \o t)[i] = IF i <= Len(y) THEN y[i] ELSE t[i - Len(y)]
      BY <3>0, ConcatProperties
    <3>1. /\ y \o t \in Seq(Items) /\ Len(y \o t) = 1 + Len(t)
          /\ \A i \in 1 .. 1 + Len(t) : (y \o t)[i] = IF i <= 1 THEN y[i] ELSE t[i - 1]
      BY <2>5, <3>4
    <3>2. Len(t) \in Nat /\ Len(q) = 1 + Len(t)
      BY <1>1, <2>4, LenProperties
    <3>3. \A i \in 1 .. Len(q) : q[i] = (y \o t)[i]
      BY <2>4, <2>5, <3>1, <3>2
    <3> QED BY <1>1, <3>1, <3>2, <3>3, SeqEqual
  <2>7. w \o none = w
    BY <1>1, ConcatEmptySeq
  <2>8. (w \o y) \o t = w \o (y \o t)
    <3>1. w \in Seq(Items) /\ y \in Seq(Items) /\ t \in Seq(Items)
      BY <1>1, <2>4, <2>5
    <3> QED BY <3>1, ConcatAssociative
  <2>9. Stream(c) = (w \o y) \o t
    BY <1>1, <2>3, <2>6, <2>7, <2>8
  <2>10. hand'[c] = y /\ queue'[c] = t /\ writer'[c] = "sending" /\ wire'[c] = w
    BY <1>1, <2>1 DEF WsTypes, w
  <2>11. Stream(c)' = Stream(c)
    BY <2>9, <2>10 DEF Stream
  <2>12. /\ queue' \in [Conn -> Seq(Items)] /\ hand' \in [Conn -> Seq(Items)]
         /\ writer' \in [Conn -> {"none", "receiving", "sending", "ended", "failed"}]
         /\ wire' \in [Conn -> Seq(Items)]
    BY <1>1, <2>1, <2>4, <2>5 DEF WsTypes
  <2>13. ~Write(c)
    BY <2>1 DEF Write
  <2> QED BY <2>1, <2>5, <2>10, <2>11, <2>12, <2>13 DEF q, t
<1>3. CASE Write(c)
  <2> DEFINE x == hand[c][1]
             none == <<>>
             v == Append(w, x)
  <2>1. /\ writer[c] = "sending" /\ wire' = [wire EXCEPT ![c] = v]
        /\ hand' = [hand EXCEPT ![c] = none] /\ writer' = [writer EXCEPT ![c] = "receiving"]
        /\ queue' = queue
    BY <1>3 DEF Write
  <2>2. Len(h) = 1
    BY <1>1, <2>1 DEF PhaseInv
  <2>3. x \in Items /\ x = h[1]
    BY <1>1, <2>2, ElementOfSeq
  <2> HIDE DEF w, h, q
  <2> DEFINE y == <<x>>
  <2>4. y \in Seq(Items) /\ Len(y) = 1 /\ y[1] = h[1]
    BY <2>3
  <2>5. h = y
    <3> HIDE DEF y
    <3>1. \A i \in 1 .. Len(h) : h[i] = y[i]
      BY <2>2, <2>4
    <3> QED BY <1>1, <2>2, <2>4, <3>1, SeqEqual
  <2>6. v = w \o h
    <3> HIDE DEF x
    <3>1. Append(w, x) = w \o <<x>>
      BY <1>1, <2>3, AppendIsConcat
    <3> QED BY <2>5, <3>1
  <2>7. v \in Seq(Items) /\ Len(v) = Len(w) + 1
    <3> HIDE DEF x
    <3> QED BY <1>1, <2>3, AppendProperties
  <2> HIDE DEF x, v, y
  <2>8. v \o none = v /\ none \in Seq(Items) /\ Len(none) = 0
    BY <2>7, ConcatEmptySeq, EmptySeq
  <2>9. hand'[c] = none /\ queue'[c] = q /\ writer'[c] = "receiving" /\ wire'[c] = v
    BY <1>1, <2>1 DEF WsTypes, q
  <2>10. Stream(c)' = Stream(c)
    BY <1>1, <2>6, <2>8, <2>9 DEF Stream
  <2>11. /\ queue' \in [Conn -> Seq(Items)] /\ wire' \in [Conn -> Seq(Items)]
         /\ hand' \in [Conn -> Seq(Items)]
         /\ writer' \in [Conn -> {"none", "receiving", "sending", "ended", "failed"}]
    BY <1>1, <2>1, <2>7, <2>8 DEF WsTypes
  <2>12. /\ Len(w) + 1 \in 1 .. Len(Stream(c)) /\ Stream(c)[Len(w) + 1] = h[1]
    <3>1. /\ v \o q \in Seq(Items) /\ Len(v \o q) = Len(v) + Len(q)
          /\ \A i \in 1 .. Len(v) + Len(q) : (v \o q)[i] = IF i <= Len(v) THEN v[i] ELSE q[i - Len(v)]
      BY <1>1, <2>7, ConcatProperties
    <3>2. v[Len(w) + 1] = x
      <4> HIDE DEF x
      <4> QED BY <1>1, <2>3, AppendProperties DEF v
    <3>3. Stream(c) = v \o q
      BY <1>1, <2>6
    <3> QED BY <1>1, <2>3, <2>7, <3>1, <3>2, <3>3
  <2>13. ~Receive(c)
    BY <2>1 DEF Receive
  <2> QED BY <2>1, <2>2, <2>7, <2>8, <2>9, <2>10, <2>11, <2>12, <2>13 DEF w, h
<1> QED BY <1>2, <1>3

\* The writer takes an item from the queue.
LEMMA ReceiveInv ==
  ASSUME WsInv, NEW c \in Conn, Receive(c)
  PROVE  ConnInv(c)' /\ WsTypes'
<1> USE DEF clientVars, readerVars, forwardVars
<1>1. /\ WsTypes /\ ConnInv(c)
      /\ UNCHANGED <<sent, inbox, lines, asked, reader, current, lock, hungUp, broken, forwarder, at, base,
                     wire, heard, answered>>
  BY DEF WsInv, Receive
<1>2. /\ Stream(c)' = Stream(c)
      /\ queue' \in [Conn -> Seq(Items)]
      /\ hand' \in [Conn -> Seq(Items)]
      /\ writer' \in [Conn -> {"none", "receiving", "sending", "ended", "failed"}]
      /\ Len(hand'[c]) = 1
      /\ writer[c] = "receiving" /\ writer'[c] = "sending" /\ queue[c] # <<>>
      /\ queue'[c] = Tail(queue[c])
  BY WriterMoves
<1>3. reader[c] # "none"
  BY <1>1, <1>2 DEF ConnInv, PhaseInv
<1>4. PhaseInv(c)'
  BY <1>1, <1>2, <1>3 DEF ConnInv, PhaseInv
<1>5. BehindInv(c)'
  <2> DEFINE q == queue[c]
             t == Tail(q)
             L == Len(q)
  <2>1. q \in Seq(Items) /\ L \in Nat /\ DOMAIN q = 1 .. L
    BY <1>1, StreamFacts
  <2> HIDE DEF q
  <2>2. t \in Seq(Items) /\ Len(t) = L - 1 /\ \A i \in 1 .. Len(t) : t[i] = q[i + 1]
    BY <1>2, <2>1, HeadTailProperties DEF q
  <2>3. DOMAIN t = 1 .. L - 1 /\ \A i \in 1 .. L - 1 : i + 1 \in DOMAIN q /\ t[i] = q[i + 1]
    BY <2>1, <2>2, LenProperties
  <2> HIDE DEF t, L
  <2>4. queue'[c] = t
    BY <1>2 DEF q, t
  <2>5. \A i \in DOMAIN t : i \in Nat /\ i + 1 \in DOMAIN q /\ t[i] = q[i + 1]
    BY <2>1, <2>3
  <2>6. \A i \in Behind(c)' : i \in DOMAIN t /\ i + 1 \in Behind(c)
    BY <2>4, <2>5, WsConstants DEF Behind, q
  <2>7. \A i, j \in DOMAIN t : i + 1 = j + 1 => i = j
    BY <2>5
  <2>8. /\ \A i, j \in Behind(c) : q[i] # Overflow /\ q[j] # Overflow => i = j
        /\ \A i, j \in DOMAIN q : q[i] = Overflow /\ q[j] = Overflow => i = j
        /\ \A i \in Behind(c) : q[i] # Answer
        /\ reader[c] \in Quiet => \A i \in DOMAIN q : q[i] # Overflow
        /\ reader[c] = "leaving" => \A i \in Behind(c) : q[i] # Overflow
    BY <1>1 DEF ConnInv, BehindInv, q
  <2>9. \A i, j \in Behind(c)' : t[i] # Overflow /\ t[j] # Overflow => i = j
    BY <2>5, <2>6, <2>7, <2>8
  <2>10. \A i, j \in DOMAIN t : t[i] = Overflow /\ t[j] = Overflow => i = j
    BY <2>5, <2>7, <2>8
  <2>11. \A i \in Behind(c)' : t[i] # Answer
    BY <2>5, <2>6, <2>8
  <2>12. reader[c] \in Quiet => \A i \in DOMAIN t : t[i] # Overflow
    BY <2>5, <2>8
  <2>13. reader[c] = "leaving" => \A i \in Behind(c)' : t[i] # Overflow
    BY <2>5, <2>6, <2>8
  <2> QED BY <1>1, <2>4, <2>9, <2>10, <2>11, <2>12, <2>13 DEF BehindInv
<1>6. AnswerInv(c)'
  <2>1. Due(c)' = Due(c)
    BY <1>1 DEF Due, Open
  <2> QED BY <1>1, <1>2, <2>1 DEF ConnInv, AnswerInv
<1>7. ToldInv(c)'
  BY <1>1, <1>2 DEF ConnInv, ToldInv, Subscribed
<1>8. WsTypes'
  BY <1>1, <1>2 DEF WsTypes
<1> QED BY <1>4, <1>5, <1>6, <1>7, <1>8 DEF ConnInv

\* What is sent to the client carries its account on from what it had heard.
LEMMA WriteTells ==
  ASSUME WsInv, NEW c \in Conn, Write(c)
  PROVE  LET item == hand[c][1]
         IN /\ heard[c] \in Nat /\ heard'[c] \in Nat
            /\ \/ item \notin Written /\ heard'[c] = heard[c]
               \/ item = Frame(heard'[c]) /\ heard'[c] = heard[c] + 1
               \/ \E k \in Nat \ {0} : item = Dropped(k) /\ heard'[c] = heard[c] + k
            /\ base[c] < at[c] /\ at[c] <= Subscribed
            /\ \E pos :
                 /\ Told(pos, Stream(c))
                 /\ pos[Len(wire[c]) + 1] = heard'[c]
                 /\ \A i \in 0 .. Len(Stream(c)) : pos[i] <= at[c] - base[c] - 1
                 /\ forwarder[c] = "running" /\ writer[c] # "failed" =>
                      pos[Len(Stream(c))] = at[c] - base[c] - 1
<1> DEFINE item == hand[c][1]
           s == Stream(c)
           n == Len(wire[c])
<1>1. /\ WsTypes /\ ConnInv(c) /\ heard[c] \in Nat
      /\ heard'[c] = IF item \in Written THEN heard[c] + Covers(item) ELSE heard[c]
  BY DEF WsInv, WsTypes, Write
<1>2. writer[c] = "sending" /\ s[n + 1] = item /\ n + 1 \in 1 .. Len(s) /\ n \in Nat
  BY <1>1, WriterMoves, StreamFacts
<1>3. reader[c] # "none"
  BY <1>1, <1>2 DEF ConnInv, PhaseInv
<1>4. base[c] < at[c] /\ at[c] <= Subscribed
  BY <1>1, <1>3 DEF ConnInv, ToldInv
<1>5. PICK pos : /\ Told(pos, s)
                 /\ pos[n] = heard[c]
                 /\ \A i \in 0 .. Len(s) : pos[i] <= at[c] - base[c] - 1
                 /\ forwarder[c] = "running" /\ writer[c] # "failed" =>
                      pos[Len(s)] = at[c] - base[c] - 1
  BY <1>1, <1>3 DEF ConnInv, ToldInv
<1> HIDE DEF s, n, item
<1>6. \/ item \notin Written /\ pos[n + 1] = pos[n]
      \/ item = Frame(pos[n + 1]) /\ pos[n + 1] = pos[n] + 1
      \/ \E k \in Nat \ {0} : item = Dropped(k) /\ pos[n + 1] = pos[n] + k
  <2>1. (n + 1) - 1 = n
    BY <1>2
  <2> QED BY <1>2, <1>5, <2>1 DEF Told
<1>7. pos[n + 1] \in Nat
  BY <1>2, <1>5 DEF Told
<1>8. pos[n + 1] = heard'[c]
  <2>1. \A k \in Nat : Frame(k) \in Written /\ Dropped(k) \in Written
                       /\ Covers(Frame(k)) = 1 /\ Covers(Dropped(k)) = k
    BY DEF Frame, Dropped, Written, Covers
  <2> QED BY <1>1, <1>5, <1>6, <1>7, <2>1
<1>9. \/ item \notin Written /\ heard'[c] = heard[c]
      \/ item = Frame(heard'[c]) /\ heard'[c] = heard[c] + 1
      \/ \E k \in Nat \ {0} : item = Dropped(k) /\ heard'[c] = heard[c] + k
  BY <1>5, <1>6, <1>8
<1> QED BY <1>1, <1>4, <1>5, <1>7, <1>8, <1>9 DEF item, s, n

\* The client is sent it: it has heard of as many events as the item stands for.
LEMMA WriteInv ==
  ASSUME WsInv, NEW c \in Conn, Write(c)
  PROVE  ConnInv(c)' /\ WsTypes'
<1> USE DEF clientVars, readerVars, forwardVars
<1> DEFINE item == hand[c][1]
<1>1. /\ WsTypes /\ ConnInv(c) /\ heard[c] \in Nat
      /\ heard' = [heard EXCEPT ![c] = IF item \in Written THEN @ + Covers(item) ELSE @]
      /\ heard'[c] = IF item \in Written THEN heard[c] + Covers(item) ELSE heard[c]
      /\ UNCHANGED <<sent, inbox, lines, asked, reader, current, lock, hungUp, broken, forwarder, at, base,
                     queue, answered>>
  BY DEF WsInv, WsTypes, Write
<1>2. /\ Stream(c)' = Stream(c)
      /\ wire' \in [Conn -> Seq(Items)]
      /\ hand' \in [Conn -> Seq(Items)]
      /\ writer' \in [Conn -> {"none", "receiving", "sending", "ended", "failed"}]
      /\ Len(hand'[c]) = 0
      /\ writer[c] = "sending" /\ writer'[c] = "receiving"
      /\ Stream(c)[Len(wire[c]) + 1] = item
      /\ Len(wire'[c]) = Len(wire[c]) + 1
      /\ Len(wire[c]) + 1 \in 1 .. Len(Stream(c))
  BY WriterMoves
<1>3. reader[c] # "none"
  BY <1>1, <1>2 DEF ConnInv, PhaseInv
<1>4. PhaseInv(c)'
  BY <1>1, <1>2, <1>3 DEF ConnInv, PhaseInv
<1>5. BehindInv(c)'
  <2>1. Behind(c)' = Behind(c)
    BY <1>1 DEF Behind
  <2> QED BY <1>1, <2>1 DEF ConnInv, BehindInv
<1>6. AnswerInv(c)'
  <2>1. Due(c)' = Due(c)
    BY <1>1 DEF Due, Open
  <2> QED BY <1>1, <1>2, <2>1 DEF ConnInv, AnswerInv
<1>7. ToldInv(c)'
  <2>1. PICK pos : /\ Told(pos, Stream(c))
                   /\ pos[Len(wire[c]) + 1] = heard'[c]
                   /\ \A i \in 0 .. Len(Stream(c)) : pos[i] <= at[c] - base[c] - 1
                   /\ forwarder[c] = "running" /\ writer[c] # "failed" =>
                        pos[Len(Stream(c))] = at[c] - base[c] - 1
    BY WriteTells
  <2> QED BY <1>1, <1>2, <2>1 DEF ConnInv, ToldInv, Subscribed
<1>8. WsTypes'
  <2>1. heard'[c] \in Nat
    BY WriteTells
  <2>2. heard' \in [Conn -> Nat]
    <3> DEFINE e == heard'[c]
    <3>1. heard' = [heard EXCEPT ![c] = e] /\ e \in Nat
      BY <1>1, <2>1 DEF WsTypes
    <3>2. heard \in [Conn -> Nat]
      BY <1>1 DEF WsTypes
    <3> HIDE DEF e
    <3> QED BY <3>1, <3>2
  <2> QED BY <1>1, <1>2, <2>2 DEF WsTypes
<1> QED BY <1>4, <1>5, <1>6, <1>7, <1>8 DEF ConnInv

\* A queue is cut off at the end, when nobody puts anything into it any more.
LEMMA StreamCut ==
  ASSUME WsTypes, NEW c \in Conn, NEW m \in 0 .. Len(queue[c]),
         queue' = [queue EXCEPT ![c] = SubSeq(queue[c], 1, m)],
         UNCHANGED <<wire, hand>>
  PROVE  /\ queue' \in [Conn -> Seq(Items)]
         /\ DOMAIN queue'[c] = 1 .. m
         /\ \A i \in 1 .. m : queue'[c][i] = queue[c][i]
         /\ Stream(c)' = SubSeq(Stream(c), 1, Len(wire[c]) + Len(hand[c]) + m)
<1> DEFINE q == queue[c]
           r == SubSeq(q, 1, m)
           v == wire[c] \o hand[c]
           s == Stream(c)
<1>1. /\ q \in Seq(Items) /\ v \in Seq(Items) /\ s \in Seq(Items) /\ Len(q) \in Nat
      /\ s = v \o q
  BY StreamFacts DEF Stream
<1>2. Len(v) = Len(wire[c]) + Len(hand[c]) /\ Len(v) \in Nat
  <2> DEFINE w == wire[c]
             h == hand[c]
  <2>1. w \in Seq(Items) /\ h \in Seq(Items)
    BY StreamFacts
  <2> HIDE DEF w, h
  <2>2. Len(w \o h) = Len(w) + Len(h)
    BY <2>1, ConcatProperties
  <2> QED BY <1>1, <2>2, LenProperties DEF w, h
<1>3. queue' = [queue EXCEPT ![c] = r] /\ queue'[c] = r
  BY DEF WsTypes
<1>4. m \in 0 .. Len(q)
  OBVIOUS
<1> HIDE DEF q, v, s
<1>5. r \in Seq(Items) /\ Len(r) = m /\ \A i \in 1 .. m : r[i] = q[i]
  <2>1. /\ 1 \in Int /\ m \in Int /\ \A i \in 1 .. m : q[i] \in Items
    BY <1>1, <1>4, ElementOfSeq
  <2>2. /\ r \in Seq(Items) /\ Len(r) = IF 1 <= m THEN m - 1 + 1 ELSE 0
        /\ \A i \in 1 .. m - 1 + 1 : r[i] = q[1 + i - 1]
    BY <2>1, SubSeqProperties
  <2> QED BY <1>4, <2>2
<1> HIDE DEF r
<1>6. v \o r = SubSeq(s, 1, Len(v) + m)
  <2> DEFINE k == Len(v)
             l == Len(q)
             n == k + m
             u == SubSeq(s, 1, n)
  <2>1. /\ Len(s) = k + l
        /\ \A i \in 1 .. k + l : s[i] = IF i <= k THEN v[i] ELSE q[i - k]
    BY <1>1, ConcatProperties
  <2>2. /\ v \o r \in Seq(Items) /\ Len(v \o r) = n
        /\ \A i \in 1 .. n : (v \o r)[i] = IF i <= k THEN v[i] ELSE r[i - k]
    BY <1>1, <1>5, ConcatProperties
  <2>3. k \in Nat /\ l \in Nat /\ m \in 0 .. l /\ n = k + m
    BY <1>1, <1>2, <1>4
  <2> HIDE DEF k, l, n
  <2>4. n \in Nat /\ \A i \in 1 .. n : i \in 1 .. Len(s) /\ i \in 1 .. k + l
    BY <2>1, <2>3
  <2>5. u \in Seq(Items) /\ Len(u) = n /\ \A i \in 1 .. n : u[i] = s[i]
    <3>1. 1 \in Int /\ n \in Int /\ \A i \in 1 .. n : s[i] \in Items
      BY <1>1, <2>4, ElementOfSeq
    <3>2. /\ u \in Seq(Items) /\ Len(u) = IF 1 <= n THEN n - 1 + 1 ELSE 0
          /\ \A i \in 1 .. n - 1 + 1 : u[i] = s[1 + i - 1]
      BY <3>1, SubSeqProperties
    <3> QED BY <2>4, <3>2
  <2>6. \A i \in 1 .. n : (v \o r)[i] = u[i]
    <3> SUFFICES ASSUME NEW i \in 1 .. n PROVE (v \o r)[i] = s[i]
      BY <2>5
    <3>1. CASE i <= k
      BY <2>1, <2>2, <2>4, <3>1
    <3>2. CASE ~(i <= k)
      <4>1. i - k \in 1 .. m
        BY <2>3, <3>2
      <4> QED BY <1>5, <2>1, <2>2, <2>4, <3>2, <4>1
    <3> QED BY <3>1, <3>2
  <2> HIDE DEF u
  <2>7. v \o r = u
    BY <2>2, <2>5, <2>6, SeqEqual
  <2> QED BY <2>7 DEF u, n, k
<1>7. DOMAIN r = 1 .. m
  BY <1>5, LenProperties
<1>8. Stream(c)' = v \o r
  BY <1>3 DEF Stream, v
<1>9. queue' \in [Conn -> Seq(Items)]
  BY <1>3, <1>5 DEF WsTypes
<1> QED BY <1>2, <1>3, <1>5, <1>6, <1>7, <1>8, <1>9 DEF q, s

\* What remains of the stream still accounts for what was heard.
LEMMA CutTold ==
  ASSUME WsTypes, NEW c \in Conn, ToldInv(c), reader[c] # "none",
         NEW n \in Len(wire[c]) .. Len(Stream(c)), Stream(c)' = SubSeq(Stream(c), 1, n),
         UNCHANGED <<sent, wire, heard, base, at>>,
         ~(forwarder'[c] = "running" /\ writer'[c] # "failed")
  PROVE  ToldInv(c)'
<1> DEFINE s == Stream(c)
           m == Len(wire[c])
<1>1. s \in Seq(Items) /\ Len(s) \in Nat /\ m \in Nat
  BY StreamFacts, LenProperties
<1>2. PICK pos : /\ Told(pos, s)
                 /\ pos[m] = heard[c]
                 /\ \A i \in 0 .. Len(s) : pos[i] <= at[c] - base[c] - 1
  BY DEF ToldInv
<1>3. base[c] < at[c] /\ at[c] <= Subscribed
  BY DEF ToldInv
<1>4. n \in m .. Len(s) /\ Stream(c)' = SubSeq(s, 1, n)
  OBVIOUS
<1> HIDE DEF s, m
<1>5. PICK p : Told(p, SubSeq(s, 1, n)) /\ \A i \in 0 .. n : p[i] = pos[i]
  BY <1>1, <1>2, <1>4, ToldCut
<1>6. Len(SubSeq(s, 1, n)) = n
  <2>1. 1 \in Int /\ n \in Int /\ \A i \in 1 .. n : s[i] \in Items
    BY <1>1, <1>4, ElementOfSeq
  <2>2. Len(SubSeq(s, 1, n)) = IF 1 <= n THEN n - 1 + 1 ELSE 0
    BY <2>1, SubSeqProperties
  <2> QED BY <1>1, <1>4, <2>2
<1>7. \A i \in 0 .. n : p[i] <= at[c] - base[c] - 1
  BY <1>1, <1>2, <1>4, <1>5
<1>8. p[m] = heard[c]
  BY <1>1, <1>2, <1>4, <1>5
<1> QED BY <1>3, <1>4, <1>5, <1>6, <1>7, <1>8 DEF ToldInv, Subscribed, m

\* The connection is left: what the forwarder waited to queue is cut off.
LEMMA LeaveInv ==
  ASSUME WsInv, NEW c \in Conn, Leave(c)
  PROVE  ConnInv(c)' /\ WsTypes'
<1> USE DEF clientVars, writerVars
<1> DEFINE q == queue[c]
           m == IF Len(q) < QueueMax THEN Len(q) ELSE QueueMax
           n == Len(wire[c]) + Len(hand[c]) + m
           s == Stream(c)
<1>1. /\ WsTypes /\ ConnInv(c) /\ reader[c] = "leaving"
      /\ reader' = [reader EXCEPT ![c] = "flushing"]
      /\ forwarder' = [forwarder EXCEPT ![c] = "ended"]
      /\ queue' = [queue EXCEPT ![c] = SubSeq(queue[c], 1, m)]
      /\ reader'[c] = "flushing" /\ forwarder'[c] = "ended"
      /\ UNCHANGED <<sent, inbox, lines, asked, current, lock, hungUp, broken, at, base, writer, hand, wire,
                     heard, answered>>
  BY DEF WsInv, WsTypes, Leave, LeaveKeeping
<1>2. /\ s \in Seq(Items) /\ Len(q) \in Nat /\ DOMAIN q = 1 .. Len(q)
      /\ Len(s) = Len(wire[c]) + Len(hand[c]) + Len(q) /\ DOMAIN s = 1 .. Len(s)
      /\ Len(wire[c]) \in Nat /\ Len(hand[c]) \in Nat
      /\ \A i \in 1 .. Len(q) : s[Len(wire[c]) + Len(hand[c]) + i] = q[i]
      /\ QueueMax \in Nat
  BY <1>1, StreamFacts, WsConstants
<1>3. m \in 0 .. Len(q) /\ \A i \in 1 .. Len(q) : i > m => i > QueueMax
  BY <1>2
<1>4. /\ queue' \in [Conn -> Seq(Items)]
      /\ DOMAIN queue'[c] = 1 .. m
      /\ \A i \in 1 .. m : queue'[c][i] = q[i]
      /\ Stream(c)' = SubSeq(s, 1, n)
  <2> HIDE DEF m
  <2> QED BY <1>1, <1>3, StreamCut
<1>5. n \in Len(wire[c]) .. Len(s) /\ \A i \in n + 1 .. Len(s) : \E j \in Behind(c) : s[i] = q[j]
  <2> DEFINE w == Len(wire[c])
             h == Len(hand[c])
             l == Len(q)
  <2>1. /\ w \in Nat /\ h \in Nat /\ l \in Nat /\ m \in 0 .. l /\ n = w + h + m
        /\ Len(s) = w + h + l /\ \A i \in 1 .. l : s[w + h + i] = q[i]
        /\ \A i \in 1 .. l : i > m => i > QueueMax
        /\ Behind(c) = {i \in 1 .. l : i > QueueMax}
    BY <1>2, <1>3 DEF Behind
  <2> HIDE DEF w, h, l, m, n, q, s
  <2>2. n \in w .. Len(s)
    BY <2>1
  <2>3. ASSUME NEW i \in n + 1 .. Len(s) PROVE \E j \in Behind(c) : s[i] = q[j]
    <3> DEFINE j == i - w - h
    <3>1. j \in 1 .. l /\ j > m /\ i = w + h + j
      BY <2>1
    <3> HIDE DEF j
    <3>2. s[i] = q[j] /\ j \in Behind(c)
      BY <2>1, <3>1
    <3> QED BY <3>2
  <2> QED BY <2>2, <2>3 DEF w
<1>6. PhaseInv(c)'
  BY <1>1 DEF ConnInv, PhaseInv
<1>7. BehindInv(c)'
  <2>1. Behind(c)' = {}
    BY <1>2, <1>3, <1>4 DEF Behind
  <2>2. \A i, j \in DOMAIN queue'[c] : queue'[c][i] = Overflow /\ queue'[c][j] = Overflow => i = j
    <3>1. DOMAIN queue'[c] \subseteq DOMAIN q
      BY <1>2, <1>3, <1>4
    <3> QED BY <1>1, <1>4, <3>1 DEF ConnInv, BehindInv
  <2> QED BY <1>1, <2>1, <2>2 DEF BehindInv, Quiet
<1>8. AnswerInv(c)'
  <2>1. \A i \in Behind(c) : q[i] # Answer /\ q[i] # Overflow
    BY <1>1 DEF ConnInv, BehindInv
  <2>2. /\ writer[c] # "failed" => Len(Kept(s, {Answer})) = answered[c]
        /\ Due(c) <= asked[c] /\ asked[c] <= lines[c]
        /\ Due(c) < asked[c] => writer[c] = "failed" \/ \E i \in DOMAIN s : s[i] = Overflow
    BY <1>1 DEF ConnInv, AnswerInv
  <2>3. n \in 0 .. Len(s) /\ \A i \in n + 1 .. Len(s) : s[i] \notin {Answer} /\ s[i] # Overflow
    <3> HIDE DEF n, s, q
    <3>1. n \in 0 .. Len(s)
      <4> DEFINE w == Len(wire[c])
                 l == Len(s)
      <4>1. w \in Nat /\ l \in Nat /\ n \in w .. l
        BY <1>2, <1>5, LenProperties
      <4> HIDE DEF w, l
      <4>2. n \in 0 .. l
        BY <4>1
      <4> QED BY <4>2 DEF l
    <3> QED BY <1>5, <2>1, <3>1
  <2>4. Due(c)' = Due(c)
    BY <1>1 DEF Due, Open
  <2> HIDE DEF n, s
  <2>5. Kept(SubSeq(s, 1, n), {Answer}) = Kept(s, {Answer})
    BY <1>2, <2>3, KeptCut
  <2>6. (\E i \in DOMAIN s : s[i] = Overflow)
          => \E i \in DOMAIN Stream(c)' : Stream(c)'[i] = Overflow
    <3> SUFFICES ASSUME NEW i \in DOMAIN s, s[i] = Overflow
                 PROVE  \E j \in DOMAIN SubSeq(s, 1, n) : SubSeq(s, 1, n)[j] = Overflow
      BY <1>4
    <3> DEFINE L == Len(s)
               u == SubSeq(s, 1, n)
    <3>1. L \in Nat /\ s \in Seq(Items) /\ i \in 1 .. L /\ n \in 0 .. L
      BY <1>2, <2>3, LenProperties
    <3>2. ~(i \in n + 1 .. L)
      BY <2>3
    <3> HIDE DEF L
    <3>3. i \in 1 .. n
      BY <3>1, <3>2
    <3>4. 1 \in Int /\ n \in Int /\ \A j \in 1 .. n : s[j] \in Items
      BY <3>1, ElementOfSeq DEF L
    <3>5. /\ u \in Seq(Items) /\ Len(u) = IF 1 <= n THEN n - 1 + 1 ELSE 0
          /\ \A j \in 1 .. n - 1 + 1 : u[j] = s[1 + j - 1]
      BY <3>4, SubSeqProperties
    <3> HIDE DEF u
    <3>6. Len(u) = n /\ u[i] = s[i] /\ DOMAIN u = 1 .. Len(u)
      BY <3>1, <3>3, <3>5, LenProperties
    <3> QED BY <3>3, <3>6 DEF u
  <2> QED BY <1>1, <1>4, <2>2, <2>4, <2>5, <2>6 DEF AnswerInv
<1>9. ToldInv(c)'
  <2> HIDE DEF n
  <2> QED BY <1>1, <1>4, <1>5, CutTold DEF ConnInv
<1>10. WsTypes'
  <2>1. /\ reader' \in [Conn -> {"none", "gone"} \cup Served]
        /\ \A d \in Conn : lock' = d <=> reader'[d] = "handling"
    BY <1>1, ReaderTypes DEF Served
  <2>2. forwarder' \in [Conn -> {"none", "running", "ended"}]
    BY <1>1 DEF WsTypes
  <2> QED BY <1>1, <1>4, <2>1, <2>2 DEF WsTypes
<1> QED BY <1>6, <1>7, <1>8, <1>9, <1>10 DEF ConnInv

\* The socket fails while the writer sends, or refuses to: the client keeps what it
\* has.
LEMMA WriterFailsInv ==
  ASSUME WsInv, NEW c \in Conn, WriteFails(c) \/ WriteRefused(c)
  PROVE  ConnInv(c)' /\ WsTypes'
<1> USE DEF clientVars, forwardVars
<1> DEFINE s == Stream(c)
           w == wire[c]
           none == <<>>
<1>1. /\ WsTypes /\ ConnInv(c) /\ writer[c] \in {"receiving", "sending"}
      /\ writer' = [writer EXCEPT ![c] = "failed"] /\ writer'[c] = "failed"
      /\ hand' = [hand EXCEPT ![c] = none] /\ hand'[c] = none
      /\ queue' = [queue EXCEPT ![c] = none] /\ queue'[c] = none
      /\ broken' \subseteq Conn
      /\ UNCHANGED <<sent, inbox, lines, asked, reader, current, lock, hungUp, forwarder, at, base,
                     wire, heard, answered>>
  BY DEF WsInv, WsTypes, WriteFails, WriteRefused, WriterFails, Breaks
<1>2. reader[c] # "none"
  BY <1>1 DEF ConnInv, PhaseInv
<1>3. /\ s \in Seq(Items) /\ w \in Seq(Items) /\ Len(w) \in Nat /\ Len(s) \in Nat
      /\ Len(w) <= Len(s) /\ \A i \in 1 .. Len(w) : s[i] = w[i]
  <2>1. /\ Len(w) \in Nat /\ Len(hand[c]) \in Nat /\ Len(queue[c]) \in Nat
        /\ Len(s) = Len(w) + Len(hand[c]) + Len(queue[c])
        /\ s \in Seq(Items) /\ w \in Seq(Items) /\ \A i \in 1 .. Len(w) : s[i] = w[i]
    BY <1>1, StreamFacts
  <2> DEFINE i == Len(hand[c])
             j == Len(queue[c])
             k == Len(w)
             l == Len(s)
  <2>2. i \in Nat /\ j \in Nat /\ k \in Nat /\ l = k + i + j
    BY <2>1
  <2> HIDE DEF i, j, k, l
  <2>3. l \in Nat /\ k <= l
    BY <2>2
  <2> HIDE DEF s, w
  <2> QED BY <2>1, <2>3 DEF k, l
<1>4. Stream(c)' = w
  <2>1. Stream(c)' = (w \o none) \o none
    BY <1>1 DEF Stream
  <2> HIDE DEF w, none
  <2>2. w \o none = w
    BY <1>3, ConcatEmptySeq DEF none
  <2> QED BY <2>1, <2>2
<1>5. Stream(c)' = SubSeq(s, 1, Len(w))
  <2> HIDE DEF s, w
  <2> DEFINE u == SubSeq(s, 1, Len(w))
             n == Len(w)
  <2>1. 1 \in Int /\ n \in Int /\ \A i \in 1 .. n : s[i] \in Items
    BY <1>3, ElementOfSeq
  <2>2. /\ u \in Seq(Items) /\ Len(u) = IF 1 <= n THEN n - 1 + 1 ELSE 0
        /\ \A i \in 1 .. n - 1 + 1 : u[i] = s[1 + i - 1]
    BY <2>1, SubSeqProperties
  <2>3. Len(u) = n /\ \A i \in 1 .. n : u[i] = w[i]
    BY <1>3, <2>2
  <2> HIDE DEF u
  <2>4. u = w
    BY <1>3, <2>2, <2>3, SeqEqual
  <2> QED BY <1>4, <2>4 DEF u
<1>6. PhaseInv(c)'
  <2>1. Len(none) = 0
    OBVIOUS
  <2> QED BY <1>1, <1>2, <2>1 DEF ConnInv, PhaseInv
<1>7. BehindInv(c)'
  BY <1>1 DEF BehindInv, Behind
<1>8. AnswerInv(c)'
  <2>1. Due(c)' = Due(c)
    BY <1>1 DEF Due, Open
  <2> QED BY <1>1, <2>1 DEF ConnInv, AnswerInv
<1>9. ToldInv(c)'
  <2> DEFINE n == Len(wire[c])
  <2>1. n \in Len(wire[c]) .. Len(Stream(c)) /\ Stream(c)' = SubSeq(Stream(c), 1, n)
    BY <1>3, <1>5
  <2> HIDE DEF n
  <2> QED BY <1>1, <1>2, <2>1, CutTold DEF ConnInv
<1>10. WsTypes'
  <2>1. none \in Seq(Items)
    BY EmptySeq
  <2>2. /\ queue' \in [Conn -> Seq(Items)] /\ hand' \in [Conn -> Seq(Items)]
        /\ writer' \in [Conn -> {"none", "receiving", "sending", "ended", "failed"}]
    BY <1>1, <2>1 DEF WsTypes
  <2> QED BY <1>1, <2>2 DEF WsTypes
<1> QED BY <1>6, <1>7, <1>8, <1>9, <1>10 DEF ConnInv

\* What a connection does, or its client; all but its acceptance.
Steps(c) ==
  (\E line \in Says[c] : ClientSends(c, line))
    \/ ReadLoop(c) \/ ReadFails(c) \/ Forwarder(c) \/ Writer(c) \/ Socket(c)

LEMMA StepsInv ==
  ASSUME WsInv, NEW c \in Conn, Steps(c)
  PROVE  ConnInv(c)' /\ WsTypes'
<1>1. ASSUME NEW line \in Says[c], ClientSends(c, line) PROVE ConnInv(c)' /\ WsTypes'
  <2>1. line \in Line
    BY WsConstants DEF Line
  <2> QED BY <1>1, <2>1, ClientSendsInv
<1>2. CASE ReadLoop(c)
  <2>1. ReadRequest(c) \/ ReadClose(c) => ConnInv(c)' /\ WsTypes'
    BY ReadInv
  <2>2. ReadBad(c) => ConnInv(c)' /\ WsTypes'
    BY ReadBadInv
  <2>3. Handled(c) => ConnInv(c)' /\ WsTypes'
    BY HandledInv
  <2>4. Lock(c) \/ Noticed(c) \/ Exit(c) => ConnInv(c)' /\ WsTypes'
    BY WaitsInv
  <2>5. Leave(c) => ConnInv(c)' /\ WsTypes'
    BY LeaveInv
  <2> QED BY <1>2, <2>1, <2>2, <2>3, <2>4, <2>5 DEF ReadLoop
<1>3. CASE ReadFails(c)
  BY <1>3, ReadInv
<1>4. CASE Forwarder(c)
  BY <1>4, ForwardInv, ForwardEndsInv DEF Forwarder
<1>5. CASE Writer(c)
  BY <1>5, ReceiveInv, QueueClosedInv DEF Writer
<1>6. CASE Socket(c)
  BY <1>6, WriteInv, WriterFailsInv DEF Socket
<1> QED BY <1>1, <1>2, <1>3, <1>4, <1>5, <1>6 DEF Steps

\* A connection's steps are its own; only one already served goes on.
LEMMA StepsOwn ==
  ASSUME WsInv, NEW c \in Conn, Steps(c)
  PROVE  /\ sent' = sent
         /\ base' = base
         /\ \A d \in Conn \ {c} : View(d)' = View(d)
         /\ reader' = reader \/ reader[c] \in Served
<1> USE DEF clientVars, readerVars, forwardVars, writerVars
<1>1. WsTypes
  BY DEF WsInv
<1>2. ASSUME NEW line \in Says[c], ClientSends(c, line)
      PROVE  /\ sent' = sent /\ base' = base /\ reader' = reader
             /\ \A d \in Conn \ {c} : View(d)' = View(d)
  BY <1>1, <1>2 DEF ClientSends, WsTypes, View
<1>3. CASE ReadRequest(c) \/ ReadClose(c)
  <2>1. PICK line \in Line : Takes(c, line)
    BY <1>3 DEF ReadRequest, ReadClose, Line
  <2>2. /\ reader[c] = "reading"
        /\ \A d \in Conn \ {c} : inbox'[d] = inbox[d]
        /\ UNCHANGED <<sent, lines, asked, lock, broken, forwarder, at, base, writer, hand, wire,
                       heard>>
    BY <1>1, <2>1, TakesFacts
  <2>3. /\ \A d \in Conn \ {c} : reader'[d] = reader[d] /\ current'[d] = current[d]
        /\ UNCHANGED <<queue, answered>>
    BY <1>1, <1>3 DEF ReadRequest, ReadClose, WsTypes
  <2> QED BY <2>2, <2>3 DEF View, Served
<1>4. CASE ReadBad(c) \/ Handled(c)
  <2>1. base' = base
    BY <1>4 DEF ReadBad, Takes, Handled, Handles
  <2> QED BY <1>4, <2>1, ReadBadInv, HandledInv DEF Served
<1>5. CASE Lock(c) \/ Noticed(c) \/ Exit(c) \/ ReadFails(c)
  BY <1>1, <1>5 DEF Lock, Noticed, Exit, ReadFails, WsTypes, View, Served
<1>6. CASE Leave(c)
  BY <1>1, <1>6 DEF Leave, LeaveKeeping, WsTypes, View, Served
<1>7. CASE Forwarder(c)
  <2>1. CASE ForwardEnds(c)
    BY <1>1, <2>1 DEF ForwardEnds, WsTypes, View
  <2>2. ASSUME NEW item, NEW cursor, Forwarding(c, item, cursor)
        PROVE  /\ sent' = sent /\ base' = base /\ reader' = reader
               /\ \A d \in Conn \ {c} : View(d)' = View(d)
    BY <1>1, <2>2 DEF Forwarding, WsTypes, View
  <2>3. CASE Forward(c) \/ ForwardLag(c)
    BY <2>2, <2>3 DEF Forward, ForwardLag
  <2> QED BY <1>7, <2>1, <2>3 DEF Forwarder
<1>8. CASE Writer(c)
  <2>1. CASE Receive(c)
    BY <1>1, <2>1 DEF Receive, WsTypes, View
  <2>2. CASE QueueClosed(c)
    BY <1>1, <2>2 DEF QueueClosed, WsTypes, View
  <2> QED BY <1>8, <2>1, <2>2 DEF Writer
<1>9. CASE Write(c)
  BY <1>1, <1>9 DEF Write, WsTypes, View
<1>10. CASE WriteFails(c) \/ WriteRefused(c)
  <2>1. /\ WriterFails(c)
        /\ UNCHANGED <<sent, reader, inbox, lines, asked, current, forwarder, at, base, wire, heard,
                       answered>>
    BY <1>10 DEF WriteFails, WriteRefused, WriterFails
  <2>2. \A d \in Conn \ {c} : queue'[d] = queue[d] /\ writer'[d] = writer[d] /\ hand'[d] = hand[d]
    BY <1>1, <2>1 DEF WriterFails, WsTypes
  <2> QED BY <2>1, <2>2 DEF View
<1>11. CASE ReadLoop(c)
  BY <1>3, <1>4, <1>5, <1>6, <1>11 DEF ReadLoop
<1>12. CASE Socket(c)
  BY <1>9, <1>10, <1>12 DEF Socket
<1> QED BY <1>2, <1>5, <1>7, <1>8, <1>11, <1>12 DEF Steps

\* No more connections are served than there are permits.
LEMMA PermitKept ==
  ASSUME WsInv, NEW c \in Conn, Steps(c) \/ Accept(c)
  PROVE  PermitInv'
<1>1. WsTypes /\ PermitInv /\ IsFiniteSet(Serving) /\ Cardinality(Serving) \in Nat
  BY FS_CardinalityType DEF WsInv, PermitInv
<1>2. CASE Steps(c)
  <2>1. Serving' \subseteq Serving
    <3>1. \A d \in Conn \ {c} : reader'[d] = reader[d]
      BY <1>2, StepsOwn DEF View
    <3>2. reader' = reader \/ reader[c] \in Served
      BY <1>2, StepsOwn
    <3> QED BY <3>1, <3>2 DEF Serving
  <2>2. IsFiniteSet(Serving') /\ Cardinality(Serving') <= Cardinality(Serving)
    BY <1>1, <2>1, FS_Subset
  <2>3. Cardinality(Serving') \in Nat
    BY <2>2, FS_CardinalityType
  <2> QED BY <1>1, <2>2, <2>3, WsConstants DEF PermitInv
<1>3. CASE Accept(c)
  <2>1. Cardinality(Serving) < Permits /\ c \notin Serving
    BY <1>3 DEF Accept, Serving, Served
  <2>2. Serving' = Serving \cup {c}
    BY <1>1, <1>3 DEF Accept, Serving, Served, WsTypes
  <2>3. IsFiniteSet(Serving') /\ Cardinality(Serving') = Cardinality(Serving) + 1
    BY <1>1, <2>1, <2>2, FS_AddElement
  <2> QED BY <1>1, <2>1, <2>3, WsConstants DEF PermitInv
<1> QED BY <1>2, <1>3

LEMMA AcceptOwn ==
  ASSUME WsInv, NEW c \in Conn, Accept(c)
  PROVE  sent' = sent /\ \A d \in Conn \ {c} : View(d)' = View(d)
BY DEF WsInv, WsTypes, Accept, clientVars, View

\* What a failed writer and a connection left behind have for a cause, they keep.
LEMMA CauseKept ==
  ASSUME WsInv, NEW c \in Conn, Steps(c) \/ Accept(c)
  PROVE  \A d \in Conn : CauseInv(d)'
<1> USE DEF clientVars, readerVars, forwardVars, writerVars
<1>1. WsTypes /\ \A d \in Conn : CauseInv(d)
  BY DEF WsInv
<1> DEFINE Grow  == broken \subseteq broken' /\ hungUp \subseteq hungUp'
           Kept1 == CauseInv(c)' /\ Grow
<1>2. ASSUME Accept(c) PROVE Kept1
  <2>1. Grow /\ reader'[c] = "reading" /\ writer'[c] = "receiving"
    BY <1>1, <1>2 DEF Accept, WsTypes
  <2> QED BY <2>1 DEF CauseInv
<1>3. ASSUME Grow, writer' = writer, reader'[c] \in {reader[c]} \cup (Served \ {"flushing"})
      PROVE  Kept1
  BY <1>1, <1>3 DEF CauseInv, Served
<1>4. ASSUME NEW line \in Says[c], ClientSends(c, line) PROVE Kept1
  BY <1>3, <1>4 DEF ClientSends
<1>5. ASSUME ReadRequest(c) \/ ReadClose(c) PROVE Kept1
  <2>1. writer' = writer /\ Grow
    BY <1>5 DEF ReadRequest, ReadClose, Takes
  <2>2. reader'[c] \in {"locking", "leaving"}
    BY <1>1, <1>5 DEF ReadRequest, ReadClose, WsTypes
  <2> QED BY <1>3, <2>1, <2>2 DEF Served
<1>6. ASSUME ReadBad(c) \/ Handled(c) PROVE Kept1
  <2>1. writer' = writer /\ Grow
    BY <1>6 DEF ReadBad, Takes, Handled, Handles
  <2>2. reader'[c] \in {"reading", "noticing", "leaving"}
    BY <1>6, ReadBadInv, HandledInv
  <2> QED BY <1>3, <2>1, <2>2 DEF Served
<1>7. ASSUME Lock(c) \/ Noticed(c) PROVE Kept1
  <2>1. writer' = writer /\ Grow /\ reader'[c] \in {"handling", "leaving"}
    BY <1>1, <1>7 DEF Lock, Noticed, WsTypes
  <2> QED BY <1>3, <2>1 DEF Served
<1>8. ASSUME Leave(c) PROVE Kept1
  <2>1. writer' = writer /\ Grow /\ reader'[c] = "flushing"
    BY <1>1, <1>8 DEF Leave, LeaveKeeping, WsTypes
  <2> QED BY <1>1, <2>1 DEF CauseInv
<1>9. ASSUME Exit(c) PROVE Kept1
  <2>1. writer' = writer /\ Grow /\ writer[c] \in {"ended", "failed"}
    BY <1>9 DEF Exit
  <2> QED BY <1>1, <2>1 DEF CauseInv
<1>10. ASSUME ReadFails(c) PROVE Kept1
  <2>1. writer' = writer /\ Grow /\ c \in broken'
    BY <1>10 DEF ReadFails, Breaks
  <2> QED BY <1>1, <2>1 DEF CauseInv
<1>11. ASSUME Forwarder(c) PROVE Kept1
  <2>1. writer' = writer /\ reader' = reader /\ Grow
    BY <1>11 DEF Forwarder, Forward, ForwardLag, Forwarding, ForwardEnds
  <2> QED BY <1>1, <2>1 DEF CauseInv
<1>12. ASSUME Writer(c) \/ Write(c) PROVE Kept1
  <2>1. /\ reader' = reader /\ Grow
        /\ writer[c] \in {"receiving", "sending"}
        /\ writer'[c] \in {"receiving", "sending", "ended"}
    BY <1>1, <1>12 DEF Writer, Receive, QueueClosed, Write, WsTypes
  <2> QED BY <1>1, <2>1 DEF CauseInv
<1>13. ASSUME WriteFails(c) \/ WriteRefused(c) PROVE Kept1
  <2>1. writer'[c] = "failed" /\ reader' = reader /\ Grow
    BY <1>1, <1>13 DEF WriteFails, WriteRefused, WriterFails, Breaks, WsTypes
  <2>2. c \in broken' \/ c \in hungUp'
    BY <1>13, <2>1 DEF WriteFails, WriteRefused, Breaks
  <2> QED BY <2>1, <2>2 DEF CauseInv
<1>14. Kept1
  BY <1>2, <1>4, <1>5, <1>6, <1>7, <1>8, <1>9, <1>10, <1>11, <1>12, <1>13
     DEF Steps, ReadLoop, Socket, Accept
<1>15. ASSUME NEW d \in Conn \ {c} PROVE CauseInv(d)'
  <2>1. View(d)' = View(d)
    BY StepsOwn, AcceptOwn
  <2>2. reader'[d] = reader[d] /\ writer'[d] = writer[d]
    BY <2>1 DEF View
  <2> QED BY <1>1, <1>14, <2>2 DEF CauseInv
<1> QED BY <1>14, <1>15

LEMMA InitInv == WsInit => WsInv
<1> SUFFICES ASSUME WsInit PROVE WsInv
  OBVIOUS
<1> DEFINE none == <<>>
<1>1. none \in Seq({"event"}) /\ none \in Seq(Line) /\ none \in Seq(Items) /\ Len(none) = 0
  BY EmptySeq
<1>2. 0 \in 0 .. MaxLines /\ Permits \in Nat
  BY WsConstants
<1>3. WsTypes
  <2>1. /\ sent = none /\ inbox = [c \in Conn |-> none] /\ queue = [c \in Conn |-> none]
        /\ hand = [c \in Conn |-> none] /\ wire = [c \in Conn |-> none]
    BY DEF WsInit
  <2> HIDE DEF none
  <2>2. /\ sent \in Seq({"event"}) /\ inbox \in [Conn -> Seq(Line)] /\ queue \in [Conn -> Seq(Items)]
        /\ hand \in [Conn -> Seq(Items)] /\ wire \in [Conn -> Seq(Items)]
    BY <1>1, <2>1
  <2>3. \A c \in Conn : lock = c <=> reader[c] = "handling"
    BY WsConstants DEF WsInit
  <2> QED BY <1>2, <2>2, <2>3 DEF WsInit, WsTypes
<1>4. PermitInv
  <2>1. Serving = {}
    BY DEF WsInit, Serving, Served
  <2> QED BY <1>2, <2>1, FS_EmptySet DEF PermitInv
<1>5. ASSUME NEW c \in Conn PROVE ConnInv(c)
  <2>1. /\ inbox[c] = none /\ queue[c] = none /\ hand[c] = none /\ wire[c] = none
        /\ lines[c] = 0 /\ asked[c] = 0 /\ heard[c] = 0 /\ answered[c] = 0
        /\ reader[c] = "none" /\ writer[c] = "none" /\ forwarder[c] = "none"
    BY DEF WsInit
  <2>2. Stream(c) = none
    BY <2>1 DEF Stream
  <2>3. Kept(none, Asking) = none /\ Kept(none, {Answer}) = none
    BY KeptEmpty
  <2>4. Behind(c) = {} /\ DOMAIN queue[c] = {}
    BY <2>1 DEF Behind
  <2>5. Due(c) = 0
    BY <1>1, <2>1, <2>3 DEF Due, Open
  <2>6. AnswerInv(c)
    BY <1>1, <2>1, <2>2, <2>3, <2>5 DEF AnswerInv
  <2>7. PhaseInv(c)
    BY <1>1, <2>1 DEF PhaseInv
  <2>8. BehindInv(c)
    BY <2>4 DEF BehindInv
  <2> QED BY <2>1, <2>6, <2>7, <2>8 DEF ConnInv, ToldInv
<1>6. \A c \in Conn : CauseInv(c)
  BY DEF WsInit, CauseInv
<1> QED BY <1>3, <1>4, <1>5, <1>6 DEF WsInv

LEMMA NextInv == WsInv /\ [WsNext]_wsVars => WsInv'
<1> SUFFICES ASSUME WsInv, [WsNext]_wsVars PROVE WsInv'
  OBVIOUS
<1> USE DEF clientVars, readerVars, forwardVars, writerVars
<1>1. WsTypes /\ PermitInv /\ \A c \in Conn : ConnInv(c) /\ CauseInv(c)
  BY DEF WsInv
<1>2. ASSUME NEW c \in Conn, Steps(c) \/ Accept(c) PROVE WsInv'
  <2>1. ConnInv(c)' /\ WsTypes'
    BY <1>2, StepsInv, AcceptKeeps
  <2>2. PermitInv'
    BY <1>2, PermitKept
  <2>3. ASSUME NEW d \in Conn PROVE ConnInv(d)'
    <3>1. CASE d = c
      BY <2>1, <3>1
    <3>2. CASE d # c
      <4>1. sent' = sent /\ View(d)' = View(d)
        BY <1>2, <3>2, StepsOwn, AcceptOwn
      <4> QED BY <1>1, <4>1, OthersKeep
    <3> QED BY <3>1, <3>2
  <2>4. \A d \in Conn : CauseInv(d)'
    BY <1>2, CauseKept
  <2> QED BY <2>1, <2>2, <2>3, <2>4 DEF WsInv
<1>3. CASE ProviderEvent
  <2>1. /\ sent' = Append(sent, "event") /\ sent \in Seq({"event"})
        /\ UNCHANGED <<inbox, lines, asked, reader, current, lock, hungUp, broken, forwarder, at, base,
                       queue, writer, hand, wire, heard, answered>>
    BY <1>1, <1>3 DEF ProviderEvent, Send, WsTypes
  <2>2. sent' \in Seq({"event"}) /\ Len(sent') = Len(sent) + 1
    BY <2>1, AppendProperties
  <2>3. WsTypes'
    BY <1>1, <2>1, <2>2 DEF WsTypes
  <2>4. PermitInv'
    BY <1>1, <2>1 DEF PermitInv, Serving
  <2>5. ASSUME NEW d \in Conn PROVE ConnInv(d)'
    <3>1. View(d)' = View(d)
      BY <2>1 DEF View
    <3> QED BY <1>1, <2>2, <3>1, OthersKeep
  <2>6. \A d \in Conn : CauseInv(d)'
    BY <1>1, <2>1 DEF CauseInv
  <2> QED BY <2>3, <2>4, <2>5, <2>6 DEF WsInv
<1>4. CASE UNCHANGED wsVars
  <2>1. UNCHANGED <<sent, inbox, lines, asked, reader, current, lock, hungUp, broken, forwarder, at, base,
                    queue, writer, hand, wire, heard, answered>>
    BY <1>4 DEF wsVars
  <2>2. WsTypes' /\ PermitInv'
    BY <1>1, <2>1 DEF WsTypes, PermitInv, Serving
  <2>3. ASSUME NEW d \in Conn PROVE ConnInv(d)'
    <3>1. View(d)' = View(d)
      BY <2>1 DEF View
    <3> QED BY <1>1, <2>1, <3>1, OthersKeep
  <2>4. \A d \in Conn : CauseInv(d)'
    BY <1>1, <2>1 DEF CauseInv
  <2> QED BY <2>2, <2>3, <2>4 DEF WsInv
<1> QED BY <1>2, <1>3, <1>4 DEF WsNext, Steps

\* Whatever the connections, their clients and the sockets do.
THEOREM WsInvHolds == WsSpec => []WsInv
BY InitInv, NextInv, PTL DEF WsSpec

\* The variables of the transport keep their types, a queue never holds more than
\* QueueMax items and the two that wait behind them, and no more connections are
\* served than there are permits (MAX_CONNECTIONS, OUT_QUEUE_CAPACITY).
THEOREM WsTypeCorrect == WsSpec => []WsTypeOK
BY WsInvHolds, WsBounds, PTL

\* A connection the server closes on a sound socket (after shutdown, because its queue
\* is full) has been sent all that was queued: the answers, and after an overflow the
\* notice of it (comment of OUT_QUEUE_CAPACITY); so has one whose client hung up, if
\* its writer came to the end of the queue.
THEOREM ClosedInOrderHolds == WsSpec => []ClosedInOrder
<1>1. WsInv => ClosedInOrder
  <2> SUFFICES ASSUME WsInv, NEW c \in Conn, reader[c] = "gone", c \notin broken,
                      c \in hungUp => writer[c] = "ended"
               PROVE  /\ Responses(c) = answered[c]
                      /\ answered[c] + Len(Kept(inbox[c], Asking)) < asked[c]
                           => \E i \in DOMAIN wire[c] : wire[c][i] = Overflow
    BY DEF ClosedInOrder
  <2> DEFINE none == <<>>
             w == wire[c]
             h == hand[c]
             k == Kept(inbox[c], Asking)
  <2>0. writer[c] = "ended"
    BY DEF WsInv, CauseInv
  <2>1. WsTypes /\ ConnInv(c) /\ queue[c] = none /\ Len(h) = 0
    BY <2>0 DEF WsInv, ConnInv, PhaseInv
  <2>2. w \in Seq(Items) /\ h \in Seq(Items) /\ answered[c] \in Nat
    BY <2>1 DEF WsTypes
  <2>3. Stream(c) = w
    <3>1. Stream(c) = (w \o h) \o none
      BY <2>1 DEF Stream
    <3> HIDE DEF w, h
    <3>2. h = none
      BY <2>1, <2>2, EmptySeq
    <3> HIDE DEF none
    <3>3. w \o none = w
      BY <2>2, ConcatEmptySeq DEF none
    <3> QED BY <3>1, <3>2, <3>3
  <2>4. Due(c) = answered[c] + Len(k)
    <3>1. Open(c) = 0
      BY DEF Open
    <3>2. k \in Seq(Line)
      BY <2>1, KeptIsSublist DEF WsTypes
    <3>3. Len(k) \in Nat
      BY <3>2, LenProperties
    <3> QED BY <2>2, <3>1, <3>3 DEF Due
  <2> QED BY <2>0, <2>1, <2>3, <2>4 DEF ConnInv, AnswerInv, Responses
<1> QED BY <1>1, WsInvHolds, PTL

\* Only a connection that has been accepted does something, and it stays accepted.
LEMMA StepsAccepted ==
  ASSUME WsInv, NEW c \in Conn, Steps(c)
  PROVE  reader[c] # "none" /\ reader'[c] # "none"
<1>1. WsTypes /\ ConnInv(c)
  BY DEF WsInv
<1>2. ASSUME NEW line \in Says[c], ClientSends(c, line)
      PROVE  reader[c] # "none" /\ reader' = reader
  BY <1>2 DEF ClientSends, Served, readerVars
<1>3. CASE ReadRequest(c) \/ ReadClose(c) \/ Lock(c) \/ Noticed(c) \/ Exit(c) \/ ReadFails(c)
           \/ Leave(c)
  BY <1>1, <1>3 DEF ReadRequest, ReadClose, Takes, Lock, Noticed, Exit, ReadFails, Leave,
                    LeaveKeeping, WsTypes
<1>4. CASE ReadBad(c) \/ Handled(c)
  BY <1>4, ReadBadInv, HandledInv
<1>5. CASE Forwarder(c)
  <2>1. forwarder[c] = "running" /\ reader' = reader
    BY <1>5 DEF Forwarder, Forward, ForwardLag, Forwarding, ForwardEnds, Forwards, readerVars
  <2> QED BY <1>1, <2>1 DEF ConnInv, PhaseInv
<1>6. CASE Writer(c) \/ Socket(c)
  <2>1. writer[c] \in {"receiving", "sending"} /\ reader' = reader
    BY <1>6 DEF Writer, Socket, Receive, QueueClosed, Write, WriteFails, WriteRefused,
                    WriterFails, readerVars
  <2> QED BY <1>1, <2>1 DEF ConnInv, PhaseInv
<1> QED BY <1>2, <1>3, <1>4, <1>5, <1>6 DEF Steps, ReadLoop

\* Only the writer's send changes what the client has.
LEMMA OnlyWriteSends ==
  ASSUME WsInv, NEW c \in Conn, Steps(c), ~Write(c)
  PROVE  wire' = wire /\ heard' = heard
<1> USE DEF clientVars, readerVars, forwardVars, writerVars
<1>1. ASSUME NEW line \in Says[c], ClientSends(c, line) PROVE wire' = wire /\ heard' = heard
  BY <1>1 DEF ClientSends
<1>2. CASE ReadLoop(c) \/ ReadFails(c)
  BY <1>2 DEF ReadLoop, ReadRequest, ReadBad, ReadClose, Takes, Lock, Handled, Handles, Noticed,
              Leave, LeaveKeeping, Exit, ReadFails
<1>3. CASE Forwarder(c)
  BY <1>3 DEF Forwarder, Forward, ForwardLag, Forwarding, ForwardEnds
<1>4. CASE Writer(c) \/ WriteFails(c) \/ WriteRefused(c)
  BY <1>4 DEF Writer, Receive, QueueClosed, WriteFails, WriteRefused, WriterFails
<1> QED BY <1>1, <1>2, <1>3, <1>4 DEF Steps, Socket

\* What the connection observed was produced for.
For == IF reader[Observed] = "none" THEN 0 ELSE Len(sent) - base[Observed]

\* Each step is a step of HonestStream or leaves it alone.
LEMMA WsStepRefines ==
  ASSUME WsInv, [WsNext]_wsVars
  PROVE  [HS!Next]_<<For, heard[Observed], Heard(Observed)>>
<1> DEFINE o == Observed
           seen == UNCHANGED <<For, heard[o], Heard(o)>>
<1>1. o \in Conn /\ WsTypes /\ ConnInv(o) /\ Len(sent) \in Nat /\ base[o] \in Nat
  BY WsConstants, LenProperties DEF WsInv, WsTypes
<1>2. ASSUME View(o)' = View(o), sent' = sent PROVE seen
  BY <1>2 DEF View, For, Heard
<1>3. ASSUME NEW c \in Conn, Accept(c) PROVE seen
  <2>1. CASE c = o
    <3>1. /\ reader[o] = "none" /\ base'[o] = Len(sent) /\ reader'[o] = "reading"
          /\ UNCHANGED <<sent, wire, heard>>
      BY <1>1, <1>3, <2>1 DEF Accept, WsTypes
    <3>2. For = 0 /\ For' = 0
      BY <1>1, <3>1 DEF For
    <3> QED BY <3>1, <3>2 DEF Heard
  <2>2. CASE c # o
    BY <1>1, <1>2, <1>3, <2>2, AcceptOwn
  <2> QED BY <2>1, <2>2
<1>4. ASSUME NEW c \in Conn, Steps(c), c # o PROVE seen
  BY <1>1, <1>2, <1>4, StepsOwn
<1>5. ASSUME Steps(o), ~Write(o) PROVE seen
  <2>1. /\ sent' = sent /\ base' = base /\ wire' = wire /\ heard' = heard
        /\ reader[o] # "none" /\ reader'[o] # "none"
    BY <1>1, <1>5, StepsOwn, StepsAccepted, OnlyWriteSends
  <2> QED BY <2>1 DEF For, Heard
<1>6. ASSUME Write(o) PROVE HS!Next \/ seen
  <2> DEFINE item == hand[o][1]
             w == wire[o]
             H == Heard(o)
             n == heard[o]
             m == heard'[o]
  <2>1. /\ n \in Nat /\ m \in Nat
        /\ \/ item \notin Written /\ m = n
           \/ item = Frame(m) /\ m = n + 1
           \/ \E k \in Nat \ {0} : item = Dropped(k) /\ m = n + k
        /\ base[o] < at[o] /\ at[o] <= Subscribed
        /\ \E pos : /\ Told(pos, Stream(o)) /\ pos[Len(w) + 1] = m
                    /\ \A i \in 0 .. Len(Stream(o)) : pos[i] <= at[o] - base[o] - 1
    BY <1>1, <1>6, WriteTells
  <2>2. Len(w) + 1 \in 1 .. Len(Stream(o)) /\ Len(Stream(o)) \in Nat
    BY <1>1, <1>6, WriterMoves, StreamFacts, LenProperties
  <2>3. m <= at[o] - base[o] - 1
    BY <2>1, <2>2
  <2>4. Steps(o)
    BY <1>6 DEF Steps, Socket
  <2>5. sent' = sent /\ base' = base /\ reader[o] # "none" /\ reader'[o] # "none"
    BY <1>1, <2>4, StepsOwn, StepsAccepted
  <2>6. For = Len(sent) - base[o] /\ For' = For /\ m <= For
    <3> DEFINE a == at[o]
               b == base[o]
               l == Len(sent)
    <3>1. l \in Nat /\ a \in Nat /\ b \in Nat
      BY <1>1, LenProperties DEF WsTypes
    <3>2. For = l - b /\ For' = l - b
      BY <2>5 DEF For
    <3>3. m <= a - b - 1 /\ a <= l + 1
      BY <2>1, <2>3 DEF Subscribed
    <3> HIDE DEF a, b, l
    <3>4. m <= l - b
      BY <2>1, <3>1, <3>3
    <3> QED BY <3>2, <3>4 DEF b, l
  <2>7. wire'[o] = Append(w, item) /\ w \in Seq(Items)
    BY <1>1, <1>6 DEF Write, WsTypes
  <2>8. Heard(o)' = IF item \in Written THEN Append(H, item) ELSE H
    <3> HIDE DEF w, item
    <3>1. Kept(Append(w, item), Written)
            = IF item \in Written THEN Append(Kept(w, Written), item) ELSE Kept(w, Written)
      BY <2>7, KeptAppend
    <3> QED BY <2>7, <3>1 DEF Heard, w
  <2>9. CASE item \notin Written /\ m = n
    BY <2>6, <2>8, <2>9
  <2>10. CASE item = Frame(m) /\ m = n + 1
    <3>1. item \in Written /\ item = HS!Frame(m)
      BY <2>1, <2>10 DEF Frame, HS!Frame, Written
    <3>2. Heard(o)' = Append(Heard(o), HS!Frame(heard'[o]))
      BY <2>8, <3>1
    <3>3. heard[o] < For
      BY <1>1, <2>1, <2>6, <2>10
    <3>4. HS!Deliver
      BY <2>6, <2>10, <3>2, <3>3 DEF HS!Deliver, For
    <3> QED BY <3>4 DEF HS!Next
  <2>11. ASSUME NEW k \in Nat \ {0}, item = Dropped(k), m = n + k PROVE HS!Next
    <3>1. m - n = k /\ m \in (n + 1) .. For /\ n < For
      BY <1>1, <2>1, <2>6, <2>11
    <3>2. item \in Written /\ item = HS!Dropped(m - n)
      BY <2>11, <3>1 DEF Dropped, HS!Dropped, Written
    <3>3. Heard(o)' = Append(Heard(o), HS!Dropped(heard'[o] - heard[o]))
      BY <2>8, <3>2
    <3>4. HS!Announce
      BY <2>6, <3>1, <3>3 DEF HS!Announce, For
    <3> QED BY <3>4 DEF HS!Next
  <2> QED BY <2>1, <2>9, <2>10, <2>11
<1>7. CASE ProviderEvent
  <2>1. /\ Len(sent') = Len(sent) + 1 /\ base' = base /\ reader' = reader /\ wire' = wire
        /\ heard' = heard
    <3>1. sent' = Append(sent, "event") /\ sent \in Seq({"event"})
      BY <1>1, <1>7 DEF ProviderEvent, Send, WsTypes
    <3>2. Len(sent') = Len(sent) + 1
      BY <3>1, AppendProperties
    <3> QED BY <1>7, <3>2 DEF ProviderEvent, readerVars, forwardVars, writerVars
  <2>2. CASE reader[o] = "none"
    BY <2>1, <2>2 DEF For, Heard
  <2>3. CASE reader[o] # "none"
    <3>1. For' = For + 1 /\ Heard(o)' = Heard(o) /\ heard'[o] = heard[o]
      BY <1>1, <2>1, <2>3 DEF For, Heard
    <3>2. HS!Produce
      BY <3>1 DEF HS!Produce, For
    <3> QED BY <3>2 DEF HS!Next
  <2> QED BY <2>2, <2>3
<1>8. CASE UNCHANGED wsVars
  BY <1>2, <1>8 DEF wsVars, clientVars, readerVars, forwardVars, writerVars, View
<1>9. ASSUME NEW c \in Conn, Steps(c) PROVE HS!Next \/ seen
  BY <1>4, <1>5, <1>6, <1>9
<1>10. CASE WsNext
  <2>1. (\E c \in Conn : Accept(c) \/ Steps(c)) \/ ProviderEvent
    BY <1>10 DEF WsNext, Steps
  <2> QED BY <1>3, <1>7, <1>9, <2>1
<1> QED BY <1>8, <1>10

\* Between the answers every client gets the events since it connected, in order
\* and each once, with a notice of the right count where the ring has overrun its
\* forwarder, however slow it is and whatever the others do.
THEOREM HonestEventsHolds == WsSpec => HonestEvents
<1>1. WsInit => HS!Init
  <2>1. Observed \in Conn
    BY WsConstants
  <2> QED BY <2>1, KeptEmpty DEF WsInit, HS!Init, Heard
<1> QED BY <1>1, WsInvHolds, WsStepRefines, PTL DEF HonestEvents, WsSpec, HS!Spec, For
=============================================================================
