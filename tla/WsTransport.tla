---------------------------- MODULE WsTransport ----------------------------
(***************************************************************************)
(* The WebSocket transport (crates/provider-transport/src/ws.rs): for each *)
(* connection a read loop that handles one request at a time under the lock*)
(* of the shared state, a forwarder that carries the broadcast ring to the *)
(* connection's own bounded queue, and a writer that alone owns the socket.*)
(***************************************************************************)
EXTENDS OutboundRing, Sublists, FiniteSets

CONSTANTS
  Conn,       \* connections that clients try to open
  Reading,    \* those whose client reads what is sent, or goes away
  Observed,   \* the one whose stream is compared with HonestStream
  Permits,    \* MAX_CONNECTIONS, 256 in the code
  QueueMax,   \* OUT_QUEUE_CAPACITY, 1024 in the code
  Says,       \* the kinds of frames each client sends
  MaxLines,   \* bound: how many of them, the close not counted
  MaxEvents,  \* bound: events the providers report
  Faulty      \* the connections whose socket may fail

Nobody == "nobody"

ASSUME WsConstants ==
  /\ Nobody \notin Conn
  /\ Reading \subseteq Conn
  /\ Observed \in Conn
  /\ Permits \in Nat
  /\ QueueMax \in Nat \ {0}
  /\ Says \in [Conn -> SUBSET {"request", "silent", "bad", "shutdown", "close"}]
  /\ MaxLines \in Nat
  /\ MaxEvents \in Nat
  /\ Faulty \subseteq Conn

VARIABLES
  inbox,      \* frames of the client not yet read
  lines,      \* how many it has sent
  asked,      \* history: how many of them want an answer
  reader,     \* where handle_connection is
  current,    \* the request it has read
  lock,       \* who handles a request on the shared state
  forwarder,  \* the forwarder task
  at,         \* its cursor in the ring
  base,       \* the last frame sent before it subscribed
  queue,      \* the mpsc queue; what is behind QueueMax waits for room
  writer,     \* the writer task
  hand,       \* what it is sending, a sequence of at most one
  wire,       \* what the client can read
  heard,      \* history: how many events that accounts for
  hungUp,     \* the connections whose client's close has been read
  broken,     \* history: the connections whose socket has failed
  answered    \* history: how many responses were accepted by the queue

clientVars  == <<inbox, lines, asked>>
readerVars  == <<reader, current, lock, hungUp, broken>>
forwardVars == <<forwarder, at, base>>
writerVars  == <<writer, hand, wire, heard>>
wsVars      == <<sent, clientVars, readerVars, forwardVars, queue, writerVars, answered>>

\* A client's frame: a request, one without an id, an unreadable one, the
\* shutdown request, or a close.
Line     == {"request", "silent", "bad", "shutdown", "close"}
Asking   == Line \ {"silent", "close"}
Answer   == [kind |-> "response", n |-> 0]
Overflow == [kind |-> "overflow", n |-> 0]   \* dropped_frames_notification(0)
Items    == Written \cup {Answer, Overflow}
Served   == {"reading", "locking", "handling", "noticing", "leaving", "flushing"}

WsTypeOK ==
  /\ sent \in Seq({"event"})
  /\ inbox \in [Conn -> Seq(Line)]
  /\ lines \in [Conn -> 0 .. MaxLines]
  /\ asked \in [Conn -> 0 .. MaxLines]
  /\ reader \in [Conn -> {"none", "gone"} \cup Served]
  /\ current \in [Conn -> {"none", "request", "silent", "shutdown"}]
  /\ lock \in Conn \cup {Nobody}
  /\ \A c \in Conn : lock = c <=> reader[c] = "handling"
  /\ forwarder \in [Conn -> {"none", "running", "ended"}]
  /\ at \in [Conn -> Nat]
  /\ base \in [Conn -> Nat]
  /\ queue \in [Conn -> Seq(Items)] /\ \A c \in Conn : Len(queue[c]) <= QueueMax + 2
  /\ writer \in [Conn -> {"none", "receiving", "sending", "ended", "failed"}]
  /\ hand \in [Conn -> Seq(Items)]
  /\ wire \in [Conn -> Seq(Items)]
  /\ heard \in [Conn -> Nat]
  /\ answered \in [Conn -> 0 .. MaxLines]
  /\ hungUp \subseteq Conn
  /\ broken \subseteq Conn
  /\ Cardinality({c \in Conn : reader[c] \in Served}) <= Permits

WsInit ==
  /\ sent = <<>>
  /\ inbox = [c \in Conn |-> <<>>]
  /\ lines = [c \in Conn |-> 0]
  /\ asked = [c \in Conn |-> 0]
  /\ reader = [c \in Conn |-> "none"]
  /\ current = [c \in Conn |-> "none"]
  /\ lock = Nobody
  /\ forwarder = [c \in Conn |-> "none"]
  /\ at = [c \in Conn |-> 0]
  /\ base = [c \in Conn |-> 0]
  /\ queue = [c \in Conn |-> <<>>]
  /\ writer = [c \in Conn |-> "none"]
  /\ hand = [c \in Conn |-> <<>>]
  /\ wire = [c \in Conn |-> <<>>]
  /\ heard = [c \in Conn |-> 0]
  /\ answered = [c \in Conn |-> 0]
  /\ hungUp = {}
  /\ broken = {}
-----------------------------------------------------------------------------
(* Clients, providers and the accept loop.                                 *)

\* A Close is no line, and after it the client sends nothing more.
ClientSends(c, line) ==
  /\ reader[c] \in Served
  /\ c \notin hungUp /\ \A i \in DOMAIN inbox[c] : inbox[c][i] # "close"
  /\ line = "close" \/ lines[c] < MaxLines
  /\ lines' = [lines EXCEPT ![c] = IF line = "close" THEN @ ELSE @ + 1]
  /\ inbox' = [inbox EXCEPT ![c] = Append(@, line)]
  /\ asked' = [asked EXCEPT ![c] = IF line \in Asking THEN @ + 1 ELSE @]
  /\ UNCHANGED <<sent, readerVars, forwardVars, queue, writerVars, answered>>

ProviderEvent ==
  /\ Len(sent) < MaxEvents
  /\ Send("event")
  /\ UNCHANGED <<clientVars, readerVars, forwardVars, queue, writerVars, answered>>

\* serve_ws: a permit, the handshake, then the connection's tasks.  Beyond the
\* limit, or from a foreign origin, the socket is just closed.
Accept(c) ==
  /\ reader[c] = "none"
  /\ Cardinality({d \in Conn : reader[d] \in Served}) < Permits
  /\ reader' = [reader EXCEPT ![c] = "reading"]
  /\ forwarder' = [forwarder EXCEPT ![c] = "running"]
  /\ writer' = [writer EXCEPT ![c] = "receiving"]
  /\ at' = [at EXCEPT ![c] = Subscribed]
  /\ base' = [base EXCEPT ![c] = Len(sent)]
  /\ UNCHANGED <<sent, clientVars, current, lock, hungUp, broken, queue, hand, wire, heard,
                 answered>>
-----------------------------------------------------------------------------
(* The read loop.                                                          *)

Takes(c, line) ==
  /\ reader[c] = "reading"
  /\ inbox[c] # <<>>
  /\ Head(inbox[c]) = line
  /\ inbox' = [inbox EXCEPT ![c] = Tail(@)]
  /\ UNCHANGED <<sent, lines, asked, lock, broken, forwardVars, writerVars>>

\* queue_or_close: room, and the loop goes on as `next` says; no room, and the
\* notice waits for it before the connection is left; nobody to take it.
QueueOrClose(c, next) ==
  \/ /\ writer[c] # "failed"
     /\ Len(queue[c]) < QueueMax
     /\ queue' = [queue EXCEPT ![c] = Append(@, Answer)]
     /\ answered' = [answered EXCEPT ![c] = @ + 1]
     /\ reader' = [reader EXCEPT ![c] = next]
  \/ /\ writer[c] # "failed"
     /\ Len(queue[c]) >= QueueMax
     /\ queue' = [queue EXCEPT ![c] = Append(@, Overflow)]
     /\ reader' = [reader EXCEPT ![c] = "noticing"]
     /\ UNCHANGED answered
  \/ /\ writer[c] = "failed"
     /\ reader' = [reader EXCEPT ![c] = "leaving"]
     /\ UNCHANGED <<queue, answered>>

ReadRequest(c) ==
  /\ \E line \in {"request", "silent", "shutdown"} :
       /\ Takes(c, line)
       /\ current' = [current EXCEPT ![c] = line]
  /\ reader' = [reader EXCEPT ![c] = "locking"]
  /\ UNCHANGED <<hungUp, queue, answered>>

ReadBad(c) ==
  /\ Takes(c, "bad")
  /\ QueueOrClose(c, "reading")
  /\ UNCHANGED <<current, hungUp>>

\* From here on the library refuses what the writer begins to send.
ReadClose(c) ==
  /\ Takes(c, "close")
  /\ hungUp' = hungUp \cup {c}
  /\ reader' = [reader EXCEPT ![c] = "leaving"]
  /\ UNCHANGED <<current, queue, answered>>

Breaks(c) ==
  /\ c \in Faulty
  /\ broken' = broken \cup {c}

\* `message?`: the function is left as it stands, its tasks go on by themselves.
ReadFails(c) ==
  /\ Breaks(c)
  /\ reader[c] = "reading"
  /\ reader' = [reader EXCEPT ![c] = "gone"]
  /\ UNCHANGED <<sent, clientVars, current, lock, hungUp, forwardVars, queue, writerVars,
                 answered>>

Lock(c) ==
  /\ reader[c] = "locking"
  /\ lock = Nobody
  /\ lock' = c
  /\ reader' = [reader EXCEPT ![c] = "handling"]
  /\ UNCHANGED <<sent, clientVars, current, hungUp, broken, forwardVars, queue, writerVars,
                 answered>>

Handles(c) ==
  /\ reader[c] = "handling"
  /\ current' = [current EXCEPT ![c] = "none"]
  /\ CASE current[c] = "request"  -> QueueOrClose(c, "reading")
       [] current[c] = "shutdown" -> QueueOrClose(c, "leaving")
       [] current[c] = "silent"   -> /\ reader' = [reader EXCEPT ![c] = "reading"]
                                     /\ UNCHANGED <<queue, answered>>
  /\ UNCHANGED <<sent, clientVars, hungUp, broken, forwardVars, writerVars>>

\* Mutants: the lock is not released; it is held until the queue has taken the
\* answer.
HandledLocked(c) == Handles(c) /\ UNCHANGED lock
HandledHolding(c) ==
  /\ Len(queue[c]) < QueueMax \/ writer[c] = "failed"
  /\ Handles(c)
  /\ lock' = Nobody

\* The guard of the lock is gone before the answer is queued.
Handled(c) == Handles(c) /\ lock' = Nobody

\* The notice has found room, or nobody is left to read it.
Noticed(c) ==
  /\ reader[c] = "noticing"
  /\ \A i \in DOMAIN queue[c] : queue[c][i] = Overflow => i <= QueueMax
  /\ reader' = [reader EXCEPT ![c] = "leaving"]
  /\ UNCHANGED <<sent, clientVars, current, lock, hungUp, broken, forwardVars, queue, writerVars,
                 answered>>

\* The forwarder is aborted, with what it waits to queue; the senders go.
LeaveKeeping(c, kept) ==
  /\ reader[c] = "leaving"
  /\ reader' = [reader EXCEPT ![c] = "flushing"]
  /\ forwarder' = [forwarder EXCEPT ![c] = "ended"]
  /\ queue' = [queue EXCEPT ![c] = kept]
  /\ UNCHANGED <<sent, clientVars, current, lock, hungUp, broken, at, base, writerVars, answered>>

\* Mutant: the queue goes as well.
LeaveAtOnce(c) == LeaveKeeping(c, <<>>)

Leave(c) ==
  LeaveKeeping(c, SubSeq(queue[c], 1, IF Len(queue[c]) < QueueMax THEN Len(queue[c])
                                      ELSE QueueMax))

\* The writer has been awaited; the permit goes back.
Exit(c) ==
  /\ reader[c] = "flushing"
  /\ writer[c] \in {"ended", "failed"}
  /\ reader' = [reader EXCEPT ![c] = "gone"]
  /\ UNCHANGED <<sent, clientVars, current, lock, hungUp, broken, forwardVars, queue, writerVars,
                 answered>>
-----------------------------------------------------------------------------
(* The forwarder.                                                          *)

Forwards(c) ==
  /\ forwarder[c] = "running"
  /\ \A i \in DOMAIN queue[c] : i > QueueMax => queue[c][i] = Overflow
  /\ Ready(at[c]) \/ Lags(at[c])

Forwarding(c, item, cursor) ==
  /\ Forwards(c)
  /\ writer[c] # "failed"
  /\ queue' = [queue EXCEPT ![c] = Append(@, item)]
  /\ at' = [at EXCEPT ![c] = cursor]
  /\ UNCHANGED <<sent, clientVars, readerVars, forwarder, base, writerVars, answered>>

Forward(c) == Ready(at[c]) /\ Forwarding(c, Frame(at[c] - base[c]), at[c] + 1)

\* Mutant: all that is unread counts as dropped.
LagOvercounted(c) == Lags(at[c]) /\ Forwarding(c, Dropped(Subscribed - at[c]), Oldest)

ForwardLag(c) == Lags(at[c]) /\ Forwarding(c, Dropped(Oldest - at[c]), Oldest)

\* The queue has no receiver any more: the forwarder sees it with its next frame.
ForwardEnds(c) ==
  /\ Forwards(c)
  /\ writer[c] = "failed"
  /\ forwarder' = [forwarder EXCEPT ![c] = "ended"]
  /\ UNCHANGED <<sent, clientVars, readerVars, at, base, queue, writerVars, answered>>
-----------------------------------------------------------------------------
(* The writer.                                                             *)

Receive(c) ==
  /\ writer[c] = "receiving"
  /\ c \notin hungUp
  /\ queue[c] # <<>>
  /\ hand' = [hand EXCEPT ![c] = <<Head(queue[c])>>]
  /\ queue' = [queue EXCEPT ![c] = Tail(@)]
  /\ writer' = [writer EXCEPT ![c] = "sending"]
  /\ UNCHANGED <<sent, clientVars, readerVars, forwardVars, wire, heard, answered>>

\* The client takes the frame, one that was on its way when it hung up included.
Write(c) ==
  LET item == hand[c][1]
  IN /\ writer[c] = "sending"
     /\ wire' = [wire EXCEPT ![c] = Append(@, item)]
     /\ heard' = [heard EXCEPT ![c] = IF item \in Written THEN @ + Covers(item) ELSE @]
     /\ hand' = [hand EXCEPT ![c] = <<>>]
     /\ writer' = [writer EXCEPT ![c] = "receiving"]
     /\ UNCHANGED <<sent, clientVars, readerVars, forwardVars, queue, answered>>

\* A send returns an error: the writer ends, and what is queued is lost.
WriterFails(c) ==
  /\ writer' = [writer EXCEPT ![c] = "failed"]
  /\ hand' = [hand EXCEPT ![c] = <<>>]
  /\ queue' = [queue EXCEPT ![c] = <<>>]
  /\ UNCHANGED <<sent, clientVars, reader, current, lock, hungUp, forwardVars, wire, heard,
                 answered>>

\* The socket is gone.
WriteFails(c) ==
  /\ Breaks(c)
  /\ writer[c] = "sending"
  /\ WriterFails(c)

\* SendAfterClosing: the client has hung up before the send began.
WriteRefused(c) ==
  /\ c \in hungUp
  /\ writer[c] = "sending" \/ (writer[c] = "receiving" /\ queue[c] # <<>>)
  /\ WriterFails(c)
  /\ UNCHANGED broken

\* Every sender is gone and the queue is empty.
QueueClosed(c) ==
  /\ writer[c] = "receiving"
  /\ queue[c] = <<>>
  /\ reader[c] \in {"flushing", "gone"}
  /\ forwarder[c] = "ended"
  /\ writer' = [writer EXCEPT ![c] = "ended"]
  /\ UNCHANGED <<sent, clientVars, readerVars, forwardVars, queue, hand, wire, heard,
                 answered>>
-----------------------------------------------------------------------------
ReadLoop(c) ==
  \/ ReadRequest(c)
  \/ ReadBad(c)
  \/ ReadClose(c)
  \/ Lock(c)
  \/ Handled(c)
  \/ Noticed(c)
  \/ Leave(c)
  \/ Exit(c)

Forwarder(c) == Forward(c) \/ ForwardLag(c) \/ ForwardEnds(c)
Socket(c)    == Write(c) \/ WriteFails(c) \/ WriteRefused(c)
Writer(c)    == Receive(c) \/ QueueClosed(c)

WsNext ==
  \/ ProviderEvent
  \/ \E c \in Conn :
       \/ Accept(c)
       \/ \E line \in Says[c] : ClientSends(c, line)
       \/ ReadLoop(c)
       \/ ReadFails(c)
       \/ Forwarder(c)
       \/ Writer(c)
       \/ Socket(c)

WsSpec == WsInit /\ [][WsNext]_wsVars

(***************************************************************************)
(* The runtime polls every task, the mutex is fair (its waiters are served *)
(* in the order of their coming) and handle_request comes back (AppServer  *)
(* shows it).  A socket that takes nothing any more gives nothing either.   *)
(* Only the clients in Reading read what they are sent.                    *)
(***************************************************************************)
FairWsSpec ==
  /\ WsSpec
  /\ \A c \in Conn :
       /\ WF_wsVars(ReadLoop(c))
       /\ SF_wsVars(Lock(c))
       /\ WF_wsVars(Forwarder(c))
       /\ WF_wsVars(Writer(c))
       /\ WF_wsVars(writer[c] = "failed" /\ ReadFails(c))
       /\ c \in Reading => WF_wsVars(Socket(c))
-----------------------------------------------------------------------------
Heard(c)     == Kept(wire[c], Written)
Responses(c) == Len(Kept(wire[c], {Answer}))

HS == INSTANCE HonestStream
        WITH produced <- IF reader[Observed] = "none" THEN 0 ELSE Len(sent) - base[Observed],
             upTo <- heard[Observed], stream <- Heard(Observed)

\* Between the answers each client gets the events since it connected, in order
\* and each once, with a notice of the right count where the ring has overrun
\* its forwarder: a connection, whichever is observed, implements HonestStream.
HonestEvents == HS!Spec

\* Whoever asks and reads is answered or loses the connection, also while other
\* clients let their queues fill up and never read again.
AnswersArrive ==
  \A c \in Reading : \A n \in 1 .. MaxLines :
    asked[c] >= n ~> Responses(c) >= n \/ reader[c] = "gone"

\* A connection closed by the server on a sound socket (after shutdown, because
\* its queue is full) has been sent all that was queued: the answers, and after
\* an overflow the notice of it (comment of OUT_QUEUE_CAPACITY, ws.rs:144-147).
\* A client that hangs up with something still queued loses it; one that hangs up
\* with the queue drained has all its answers too.
ClosedInOrder ==
  \A c \in Conn : reader[c] = "gone" /\ c \notin broken /\ (c \in hungUp => writer[c] = "ended") =>
    /\ Responses(c) = answered[c]
    /\ answered[c] + Len(Kept(inbox[c], Asking)) < asked[c]
         => \E i \in DOMAIN wire[c] : wire[c][i] = Overflow
=============================================================================
