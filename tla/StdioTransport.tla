--------------------------- MODULE StdioTransport ---------------------------
(***************************************************************************)
(* The stdio sidecar (crates/provider-transport/src/stdio.rs): a read loop *)
(* that handles one line of stdin at a time, provider tasks that report    *)
(* events at any moment, and a writer task that alone owns stdout.  Both   *)
(* responses and events reach the writer through the broadcast ring.       *)
(***************************************************************************)
EXTENDS OutboundRing

CONSTANTS
  MaxLines,   \* bound: how many lines the client writes
  MaxEvents   \* bound: how many events the providers report

ASSUME BoundsType == MaxLines \in Nat /\ MaxEvents \in Nat

VARIABLES
  stdin,    \* the lines written and not yet read
  lines,    \* how many lines the client has written
  eof,      \* the client has closed its end
  events,   \* how many events the providers have reported
  reader,   \* where serve_stdio is
  writer,   \* where write_loop is
  at,       \* the writer's cursor in the ring
  hand,     \* what it is writing, a sequence of at most one
  stdout    \* what the client can read

inVars  == <<stdin, lines, eof>>
outVars == <<writer, at, hand, stdout>>
vars    == <<sent, inVars, events, reader, outVars>>

\* A line is a request, one that is blank or has no id, an unreadable or
\* oversized one, or the shutdown request.
Line == {"request", "silent", "bad", "shutdown"}

TypeOK ==
  /\ sent \in Seq({"event", "response"})
  /\ stdin \in Seq(Line)
  /\ lines \in 0 .. MaxLines
  /\ eof \in BOOLEAN
  /\ events \in 0 .. MaxEvents
  /\ reader \in {"reading", "handling", "stopping", "flushing", "exited"}
  /\ writer \in {"receiving", "writing", "done", "failed"}
  /\ at \in Nat \ {0}
  /\ hand \in Seq(Written)
  /\ stdout \in Seq(Written)

Init ==
  /\ sent = <<>>
  /\ stdin = <<>>
  /\ lines = 0
  /\ eof = FALSE
  /\ events = 0
  /\ reader = "reading"
  /\ writer = "receiving"
  /\ at = Subscribed
  /\ hand = <<>>
  /\ stdout = <<>>

\* Mutant: one sender survives the state.
SenderKept == reader # "exited"

\* The senders live in the state, the registry and its providers; serve_stdio
\* drops the last of them when every provider has been stopped.
ChannelOpen == reader \notin {"flushing", "exited"}

-----------------------------------------------------------------------------
(* The client and the providers.                                           *)

ClientWrites(line) ==
  /\ ~eof
  /\ lines < MaxLines
  /\ lines' = lines + 1
  /\ stdin' = Append(stdin, line)
  /\ UNCHANGED <<sent, eof, events, reader, outVars>>

ClientCloses ==
  /\ ~eof
  /\ eof' = TRUE
  /\ UNCHANGED <<sent, stdin, lines, events, reader, outVars>>

\* Providers report from tasks of their own, also while they are being stopped.
ProviderEvent ==
  /\ ChannelOpen
  /\ events < MaxEvents
  /\ events' = events + 1
  /\ Send("event")
  /\ UNCHANGED <<inVars, reader, outVars>>

-----------------------------------------------------------------------------
(* serve_stdio.                                                            *)

ReadLine(line) ==
  /\ reader = "reading"
  /\ stdin # <<>>
  /\ Head(stdin) = line
  /\ stdin' = Tail(stdin)
  /\ UNCHANGED <<lines, eof, events, outVars>>

\* handle_request may wait on a provider; the next line is not read before.
ReadRequest ==
  /\ ReadLine("request")
  /\ reader' = "handling"
  /\ UNCHANGED sent

ReadSilent ==
  /\ ReadLine("silent")
  /\ UNCHANGED <<sent, reader>>

\* Answered with an error and no id.
ReadBad ==
  /\ ReadLine("bad")
  /\ Send("response")
  /\ UNCHANGED reader

ReadShutdown ==
  /\ ReadLine("shutdown")
  /\ Send("response")
  /\ reader' = "stopping"

ReadEof ==
  /\ reader = "reading"
  /\ stdin = <<>>
  /\ eof
  /\ reader' = "stopping"
  /\ UNCHANGED <<sent, inVars, events, outVars>>

\* stdin cannot be read any more: the same end, with an error for the caller.
ReadFails ==
  /\ reader = "reading"
  /\ reader' = "stopping"
  /\ UNCHANGED <<sent, inVars, events, outVars>>

Handled ==
  /\ reader = "handling"
  /\ Send("response")
  /\ reader' = "reading"
  /\ UNCHANGED <<inVars, events, outVars>>

\* stop_all has returned; the state and the last sender are dropped.
Stopped ==
  /\ reader = "stopping"
  /\ reader' = "flushing"
  /\ UNCHANGED <<sent, inVars, events, outVars>>

\* Mutant: serve_stdio returns without awaiting the writer task.
ExitAtOnce ==
  /\ reader = "flushing"
  /\ reader' = "exited"
  /\ UNCHANGED <<sent, inVars, events, outVars>>

Exit ==
  /\ reader = "flushing"
  /\ writer \in {"done", "failed"}
  /\ reader' = "exited"
  /\ UNCHANGED <<sent, inVars, events, outVars>>

-----------------------------------------------------------------------------
(* write_loop.                                                             *)

Take(what, cursor) ==
  /\ writer = "receiving"
  /\ hand' = <<what>>
  /\ at' = cursor
  /\ writer' = "writing"
  /\ UNCHANGED <<sent, inVars, events, reader, stdout>>

Receive == Ready(at) /\ Take(Frame(at), at + 1)

\* Mutants: the count with its operands swapped; the writer starts again at
\* the end of the ring.
LagMiscounted == Lags(at) /\ Take(Dropped(at - Oldest), Oldest)
LagToEnd      == Lags(at) /\ Take(Dropped(Oldest - at), Subscribed)

\* The writer owns stdout, so it writes the notice itself, in the place of
\* the frames that are gone.
Lag == Lags(at) /\ Take(Dropped(Oldest - at), Oldest)

\* Mutant: the writer ends as soon as it sees the channel closed.
ChannelClosedEarly ==
  /\ writer = "receiving"
  /\ ~ChannelOpen
  /\ writer' = "done"
  /\ UNCHANGED <<sent, inVars, events, reader, at, hand, stdout>>

\* recv reports the end of the channel only behind its last frame.
ChannelClosed ==
  /\ writer = "receiving"
  /\ Drained(at)
  /\ ~ChannelOpen
  /\ writer' = "done"
  /\ UNCHANGED <<sent, inVars, events, reader, at, hand, stdout>>

\* The pipe takes the line and the flush; with a client that does not read
\* this may take as long as it likes.
Flushed ==
  /\ writer = "writing"
  /\ stdout' = Append(stdout, hand[1])
  /\ hand' = <<>>
  /\ writer' = "receiving"
  /\ UNCHANGED <<sent, inVars, events, reader, at>>

\* stdout is gone: the writer task ends with what it had in hand, and the read
\* loop does not notice.
WriteFails ==
  /\ writer = "writing"
  /\ writer' = "failed"
  /\ UNCHANGED <<sent, inVars, events, reader, at, hand, stdout>>

-----------------------------------------------------------------------------
Reader ==
  \/ ReadRequest
  \/ ReadSilent
  \/ ReadBad
  \/ ReadShutdown
  \/ ReadEof
  \/ Handled
  \/ Stopped
  \/ Exit

Pipe == Flushed \/ WriteFails

Writer == Receive \/ Lag \/ ChannelClosed \/ Pipe

Exited == reader = "exited" /\ UNCHANGED vars

Next ==
  \/ \E line \in Line : ClientWrites(line)
  \/ ClientCloses
  \/ ProviderEvent
  \/ Reader
  \/ ReadFails
  \/ Writer
  \/ Exited

Spec == Init /\ [][Next]_vars

(***************************************************************************)
(* The runtime polls both tasks, and handle_request and stop_all come back *)
(* (AppServer shows it).  Reading stdin need never fail.  Pipe is fair for *)
(* a client that goes on reading or goes away; nothing in the code bounds a*)
(* client that does neither.                                               *)
(***************************************************************************)
FairSpec == Spec /\ WF_vars(Reader) /\ WF_vars(Writer)

-----------------------------------------------------------------------------
(***************************************************************************)
(* What the sidecar promises.                                              *)
(***************************************************************************)

\* The last frame the client has received or been told of.
Accounted == IF hand = <<>> THEN at - 1 ELSE at - 1 - Covers(hand[1])

HS == INSTANCE HonestStream
        WITH produced <- Len(sent), upTo <- Accounted, stream <- stdout

\* stdout carries the frames in the order they were produced, none twice, and
\* where the ring overran the writer a notice in their place with the right
\* count: the sidecar implements HonestStream.
HonestStdout == HS!Spec

\* The sidecar does not exit on top of frames it could still have written: all
\* that was sent up to the end of stop_all is on stdout or announced as dropped,
\* unless stdout itself failed.
DrainedOnExit ==
  reader = "exited" => (Accounted = Len(sent) \/ writer = "failed")

\* Every frame sent is written or announced in the end, also the frames of the
\* last moment.
FramesAccounted ==
  \A i \in 1 .. MaxLines + MaxEvents :
    (Len(sent) >= i) ~> (Accounted >= i \/ writer = "failed")

\* The sidecar ends when its client asks for it or closes stdin, whatever is
\* still unread, unsent or unwritten.
SidecarExits ==
  /\ eof ~> reader = "exited"
  /\ reader = "stopping" ~> reader = "exited"
=============================================================================
