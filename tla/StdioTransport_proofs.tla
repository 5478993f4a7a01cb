----------------------- MODULE StdioTransport_proofs -----------------------
(***************************************************************************)
(* The sidecar's stdout is honest for every ring capacity and every bound  *)
(* on the client's and the providers' activity.                            *)
(***************************************************************************)
EXTENDS StdioTransport, SequenceTheorems, TLAPS

\* What the writer has in hand is the frame before its cursor, or a notice for
\* frames that all lie before its cursor, which itself never passes the end.
WriterInv ==
  /\ at <= Subscribed
  /\ writer \in {"receiving", "done"} => hand = <<>>
  /\ writer \in {"writing", "failed"} =>
       \/ at > 1 /\ hand = <<Frame(at - 1)>>
       \/ \E k \in 1 .. at - 1 : hand = <<Dropped(k)>>

\* The writer ends by itself only at the end of a closed channel, and
\* serve_stdio returns only after it.
EndInv ==
  /\ writer = "done" => ~ChannelOpen /\ Drained(at)
  /\ reader = "exited" => writer \in {"done", "failed"}

StdioInv == TypeOK /\ WriterInv /\ EndInv

\* The initial state satisfies the invariant.
LEMMA InitInv == Init => StdioInv
<1> SUFFICES ASSUME Init PROVE StdioInv
  OBVIOUS
<1>1. Len(sent) = 0 /\ at = 1
  BY DEF Init, Subscribed
<1>2. TypeOK
  <2>1. /\ sent \in Seq({"event", "response"})
        /\ stdin \in Seq(Line)
        /\ hand \in Seq(Written)
        /\ stdout \in Seq(Written)
    BY EmptySeq DEF Init
  <2>2. lines \in 0 .. MaxLines /\ events \in 0 .. MaxEvents /\ at \in Nat \ {0}
    BY <1>1, BoundsType DEF Init
  <2>3. /\ eof \in BOOLEAN
        /\ reader = "reading"
        /\ writer = "receiving"
    BY DEF Init
  <2> QED BY <2>1, <2>2, <2>3 DEF TypeOK
<1>3. WriterInv /\ EndInv
  BY <1>1 DEF Init, WriterInv, EndInv, Subscribed
<1> QED BY <1>2, <1>3 DEF StdioInv

\* Whatever a transition leaves alone beside `sent` growing at its end keeps
\* the writer's part of the invariant.
LEMMA SendKeeps ==
  ASSUME StdioInv, NEW frame \in {"event", "response"}, Send(frame)
  PROVE  /\ sent' \in Seq({"event", "response"})
         /\ Len(sent') = Len(sent) + 1
  BY DEF StdioInv, TypeOK, Send

\* A step of the client, the providers or the reader keeps the invariant.
LEMMA InputInv ==
  ASSUME StdioInv,
         \/ \E line \in Line : ClientWrites(line)
         \/ ClientCloses
         \/ ProviderEvent
         \/ Reader
         \/ ReadFails
  PROVE  StdioInv'
<1> USE DEF StdioInv, TypeOK, WriterInv, EndInv, inVars, outVars, ChannelOpen,
            Subscribed, Drained, Frame, Dropped
<1>1. CASE \E line \in Line : ClientWrites(line)
  <2>1. PICK line \in Line : ClientWrites(line)
    BY <1>1
  <2> QED BY <2>1, BoundsType DEF ClientWrites
<1>2. CASE ClientCloses
  BY <1>2 DEF ClientCloses
<1>3. CASE ProviderEvent
  <2>1. sent' \in Seq({"event", "response"}) /\ Len(sent') = Len(sent) + 1
    BY <1>3, SendKeeps DEF ProviderEvent
  <2> QED BY <2>1, <1>3, BoundsType DEF ProviderEvent
<1>4. CASE ReadRequest \/ ReadSilent
  <2>1. CASE ReadRequest
    BY <2>1 DEF ReadRequest, ReadLine
  <2>2. CASE ReadSilent
    BY <2>2 DEF ReadSilent, ReadLine
  <2> QED BY <1>4, <2>1, <2>2
<1>5. CASE ReadBad \/ ReadShutdown \/ Handled
  <2>1. sent' \in Seq({"event", "response"}) /\ Len(sent') = Len(sent) + 1
    BY <1>5, SendKeeps DEF ReadBad, ReadShutdown, Handled
  <2>2. CASE ReadBad
    BY <2>1, <2>2 DEF ReadBad, ReadLine
  <2>3. CASE ReadShutdown
    BY <2>1, <2>3 DEF ReadShutdown, ReadLine
  <2>4. CASE Handled
    BY <2>1, <2>4 DEF Handled
  <2> QED BY <1>5, <2>2, <2>3, <2>4
<1>6. CASE ReadEof \/ ReadFails \/ Stopped \/ Exit
  BY <1>6 DEF ReadEof, ReadFails, Stopped, Exit
<1> QED
  BY <1>1, <1>2, <1>3, <1>4, <1>5, <1>6 DEF Reader

\* A step of the writer keeps the invariant.
LEMMA WriterStepInv ==
  ASSUME StdioInv, Writer
  PROVE  StdioInv'
<1> USE CapacityPositive
        DEF StdioInv, TypeOK, WriterInv, EndInv, inVars, outVars, ChannelOpen,
            Subscribed, Drained, Frame, Dropped, Written
<1>1. CASE Receive
  BY <1>1 DEF Receive, Take, Ready, Oldest
<1>2. CASE Lag
  <2>1. /\ Oldest \in Nat \ {0}
        /\ Oldest <= Len(sent)
        /\ Oldest - at \in 1 .. Oldest - 1
    BY <1>2 DEF Lag, Lags, Oldest
  <2> QED BY <2>1, <1>2 DEF Lag, Take
<1>3. CASE ChannelClosed
  BY <1>3 DEF ChannelClosed
<1>4. CASE Flushed
  BY <1>4 DEF Flushed
<1>5. CASE WriteFails
  BY <1>5 DEF WriteFails
<1> QED
  BY <1>1, <1>2, <1>3, <1>4, <1>5 DEF Writer, Pipe

\* The invariant holds in every reachable state.
THEOREM InvHolds == Spec => []StdioInv
<1>1. StdioInv /\ [Next]_vars => StdioInv'
  <2> SUFFICES ASSUME StdioInv, [Next]_vars PROVE StdioInv'
    OBVIOUS
  <2>1. CASE Next
    BY <2>1, InputInv, WriterStepInv
       DEF Next, Exited, vars, inVars, outVars, StdioInv, TypeOK, WriterInv,
           EndInv, ChannelOpen, Subscribed, Drained
  <2>2. CASE UNCHANGED vars
    BY <2>2 DEF vars, inVars, outVars, StdioInv, TypeOK, WriterInv, EndInv,
                ChannelOpen, Subscribed, Drained
  <2> QED BY <2>1, <2>2
<1> QED BY InitInv, <1>1, PTL DEF Spec

\* Every variable keeps its type.
THEOREM TypeCorrect == Spec => []TypeOK
  BY InvHolds, PTL DEF StdioInv

\* When the sidecar exits everything sent is on stdout or announced, unless
\* stdout failed.
THEOREM DrainedOnExitHolds == Spec => []DrainedOnExit
<1>1. StdioInv => DrainedOnExit
  BY DEF StdioInv, TypeOK, WriterInv, EndInv, DrainedOnExit, Accounted, Drained,
         Subscribed
<1> QED BY InvHolds, <1>1, PTL

\* Each step is a step of HonestStream or leaves it alone.
LEMMA StepRefines ==
  ASSUME StdioInv, [Next]_vars
  PROVE  [HS!Next]_<<Len(sent), Accounted, stdout>>
<1> USE DEF StdioInv, TypeOK, WriterInv, inVars, outVars
<1>1. ASSUME NEW frame \in {"event", "response"}, Send(frame),
             UNCHANGED outVars
      PROVE  HS!Next
  <2>1. Len(sent') = Len(sent) + 1
    BY <1>1, SendKeeps
  <2> QED BY <2>1, <1>1 DEF HS!Next, HS!Produce, Accounted
<1>2. ASSUME UNCHANGED <<sent, outVars>>
      PROVE  UNCHANGED <<Len(sent), Accounted, stdout>>
  BY <1>2 DEF Accounted
<1>3. CASE \/ \E line \in Line : ClientWrites(line)
           \/ ClientCloses
           \/ ReadFails
           \/ Exited
           \/ UNCHANGED vars
  BY <1>3, <1>2 DEF ClientWrites, ClientCloses, ReadFails, Exited, vars
<1>4. CASE ProviderEvent
  BY <1>4, <1>1 DEF ProviderEvent
<1>5. CASE Reader
  BY <1>5, <1>1, <1>2
     DEF Reader, ReadRequest, ReadSilent, ReadBad, ReadShutdown, ReadEof, Handled,
         Stopped, Exit, ReadLine
<1>6. CASE Receive \/ Lag
  <2>1. Accounted = at - 1 /\ Accounted' = at - 1
    BY <1>6, CapacityPositive
       DEF Receive, Lag, Take, Accounted, Covers, Frame, Dropped, Ready, Lags,
           Oldest
  <2> QED BY <2>1, <1>6 DEF Receive, Lag, Take
<1>7. CASE Flushed
  <2>1. Accounted' = at - 1 /\ at - 1 <= Len(sent)
    BY <1>7 DEF Flushed, Accounted, Subscribed
  <2>2. CASE at > 1 /\ hand = <<Frame(at - 1)>>
    <3>1. Accounted = at - 2
      BY <2>2 DEF Accounted, Covers, Frame
    <3>2. HS!Deliver
      BY <1>7, <2>1, <2>2, <3>1
         DEF Flushed, HS!Deliver, HS!Frame, Frame
    <3> QED BY <3>2 DEF HS!Next
  <2>3. CASE \E k \in 1 .. at - 1 : hand = <<Dropped(k)>>
    <3>1. PICK k \in 1 .. at - 1 : hand = <<Dropped(k)>>
      BY <2>3
    <3>2. Accounted = at - 1 - k
      BY <3>1 DEF Accounted, Covers, Dropped
    <3>3. HS!Announce
      BY <1>7, <2>1, <3>1, <3>2
         DEF Flushed, HS!Announce, HS!Dropped, Dropped
    <3> QED BY <3>3 DEF HS!Next
  <2> QED BY <1>7, <2>2, <2>3 DEF Flushed
<1>8. CASE ChannelClosed \/ WriteFails
  BY <1>8 DEF ChannelClosed, WriteFails, Accounted
<1> QED
  BY <1>3, <1>4, <1>5, <1>6, <1>7, <1>8 DEF Next, Writer, Pipe

\* The sidecar implements HonestStream: stdout carries the frames in the order
\* they were produced, with a notice of the right count where some are missing.
THEOREM HonestStdoutHolds == Spec => HonestStdout
<1>1. Init => HS!Init
  BY DEF Init, HS!Init, Accounted, Subscribed
<1> QED
  BY <1>1, InvHolds, StepRefines, PTL DEF HonestStdout, Spec, HS!Spec
=============================================================================
