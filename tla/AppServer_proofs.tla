-------------------------- MODULE AppServer_proofs --------------------------
(***************************************************************************)
(* Proofs about registry and server, for any sets of providers and of      *)
(* connections.  First the registry: its invariants become inductive       *)
(* together with four facts about the calls in progress (who can hold a    *)
(* task, what the outcome of a start task says of the provider's handle,   *)
(* what start_all has achieved so far, what stop_all has still to do).     *)
(* Then the server, which uses the registry only as the registry allows:   *)
(* each of its steps is a registry step or leaves the registry alone, so   *)
(* what is proved of the registry holds of the server, and with it what the*)
(* exit of the process leaves behind.                                      *)
(***************************************************************************)
EXTENDS AppServer, SequenceTheorems, TLAPS

\* A start task that succeeded left its provider with a handle, a failed one
\* without.
TaskOutcome ==
  \A p \in Provider :
    /\ joinset[p] = "ok" => p \in handle
    /\ joinset[p] = "err" => p \notin handle

\* Only a provider that was registered can hold a task.
HandleConfigured == handle \subseteq configured

\* As long as start_all saw no error, all it put back is started.
StartAllSoFar == call = "start_all" /\ ~failed => registered \subseteq started

\* stop_all still knows of everything that is started.
StopAllTodo == call = "stop_all" => started \subseteq toStop

RegistryInv ==
  /\ TypeOK
  /\ Bookkeeping
  /\ ProvidersAccounted
  /\ NoUnownedLoop
  /\ TaskOutcome
  /\ HandleConfigured
  /\ StartAllSoFar
  /\ StopAllTodo

-----------------------------------------------------------------------------
\* The empty registry satisfies the invariant.
LEMMA InitInv == Init => RegistryInv
  BY DEF Init, RegistryInv, TypeOK, Bookkeeping, ProvidersAccounted,
         NoUnownedLoop, TaskOutcome, HandleConfigured, StartAllSoFar,
         StopAllTodo, InJoinSet,
         LoopState, JoinSetState, Call

\* Every step of the registry keeps the variables in their types.
LEMMA StepType == TypeOK /\ [Next]_vars => TypeOK'
<1> SUFFICES ASSUME TypeOK, [Next]_vars PROVE TypeOK'
  OBVIOUS
<1> USE DEF TypeOK, LoopState, JoinSetState, Call
<1>1. ASSUME NEW p \in Provider, Register(p) PROVE TypeOK'
  BY <1>1 DEF Register
<1>2. ASSUME NEW S \in SUBSET Provider, Start(S) PROVE TypeOK'
  BY <1>2 DEF Start, SpawnLoops
<1>3. ASSUME NEW p \in Provider, StartTask(p) PROVE TypeOK'
  <2>1. CASE StartTaskOk(p)
    BY <2>1 DEF StartTaskOk, SpawnLoops
  <2>2. CASE StartTaskFails(p)
    BY <2>2 DEF StartTaskFails
  <2> QED BY <1>3, <2>1, <2>2 DEF StartTask
<1>4. ASSUME NEW p \in Provider, Join(p) PROVE TypeOK'
  BY <1>4 DEF Join
<1>5. ASSUME NEW p \in Provider, StopBegin(p) PROVE TypeOK'
  BY <1>5 DEF StopBegin
<1>6. ASSUME NEW p \in Provider, LoopDies(p) PROVE TypeOK'
  BY <1>6 DEF LoopDies
<1>7. CASE StartAllBegin
  BY <1>7 DEF StartAllBegin
<1>8. CASE StartAllEnd
  BY <1>8 DEF StartAllEnd
<1>9. CASE StartAllDropped
  BY <1>9 DEF StartAllDropped, InJoinSet
<1>10. CASE StopAllBegin
  BY <1>10 DEF StopAllBegin
<1>11. CASE StopEnd
  BY <1>11 DEF StopEnd
<1>12. CASE StopAllEnd
  BY <1>12 DEF StopAllEnd
<1>13. CASE UNCHANGED vars
  BY <1>13 DEF vars
<1> QED
  BY <1>1, <1>2, <1>3, <1>4, <1>5, <1>6, <1>7, <1>8, <1>9, <1>10, <1>11,
     <1>12, <1>13 DEF Next

\* Every step of the registry preserves the invariant.
LEMMA StepInv == RegistryInv /\ [Next]_vars => RegistryInv'
<1> SUFFICES ASSUME RegistryInv, [Next]_vars PROVE RegistryInv'
  OBVIOUS
<1>0. TypeOK'
  BY StepType DEF RegistryInv
<1> USE <1>0 DEF RegistryInv, TypeOK, LoopState, JoinSetState, Call,
                 Bookkeeping, ProvidersAccounted, NoUnownedLoop, TaskOutcome,
                 HandleConfigured, StartAllSoFar, StopAllTodo, InJoinSet
<1>1. ASSUME NEW p \in Provider, Register(p) PROVE RegistryInv'
  BY <1>1 DEF Register
<1>2. ASSUME NEW S \in SUBSET Provider, Start(S) PROVE RegistryInv'
  BY <1>2 DEF Start, SpawnLoops
<1>3. ASSUME NEW p \in Provider, StartTask(p) PROVE RegistryInv'
  <2>1. CASE StartTaskOk(p)
    BY <2>1 DEF StartTaskOk, SpawnLoops
  <2>2. CASE StartTaskFails(p)
    BY <2>2 DEF StartTaskFails
  <2> QED BY <1>3, <2>1, <2>2 DEF StartTask
<1>4. ASSUME NEW p \in Provider, Join(p) PROVE RegistryInv'
  <2>1. CASE joinset[p] = "ok"
    <3>1. InJoinSet' = InJoinSet \ {p}
      BY <1>4, <2>1 DEF Join
    <3>2. Bookkeeping' /\ TaskOutcome' /\ HandleConfigured'
      BY <1>4, <2>1 DEF Join
    <3>3. ProvidersAccounted'
      BY <1>4, <2>1, <3>1 DEF Join
    <3>4. NoUnownedLoop'
      BY <1>4, <2>1 DEF Join
    <3>5. StartAllSoFar' /\ StopAllTodo'
      BY <1>4, <2>1 DEF Join
    <3> QED BY <3>2, <3>3, <3>4, <3>5
  <2>2. CASE joinset[p] = "err"
    <3>1. InJoinSet' = InJoinSet \ {p}
      BY <1>4, <2>2 DEF Join
    <3>2. Bookkeeping' /\ TaskOutcome' /\ HandleConfigured'
      BY <1>4, <2>2 DEF Join
    <3>3. ProvidersAccounted'
      BY <1>4, <2>2, <3>1 DEF Join
    <3>4. NoUnownedLoop'
      BY <1>4, <2>2 DEF Join
    <3>5. StartAllSoFar' /\ StopAllTodo'
      BY <1>4, <2>2 DEF Join
    <3> QED BY <3>2, <3>3, <3>4, <3>5
  <2>3. CASE joinset[p] = "panic"
    <3>1. InJoinSet' = InJoinSet \ {p}
      BY <1>4, <2>3 DEF Join
    <3>2. Bookkeeping' /\ TaskOutcome' /\ HandleConfigured'
      BY <1>4, <2>3 DEF Join
    <3>3. ProvidersAccounted'
      BY <1>4, <2>3, <3>1 DEF Join
    <3>4. NoUnownedLoop'
      BY <1>4, <2>3 DEF Join
    <3>5. StartAllSoFar' /\ StopAllTodo'
      BY <1>4, <2>3 DEF Join
    <3> QED BY <3>2, <3>3, <3>4, <3>5
  <2> QED BY <1>4, <2>1, <2>2, <2>3 DEF Join
<1>5. ASSUME NEW p \in Provider, StopBegin(p) PROVE RegistryInv'
  BY <1>5 DEF StopBegin
<1>6. ASSUME NEW p \in Provider, LoopDies(p) PROVE RegistryInv'
  BY <1>6 DEF LoopDies
<1>7. CASE StartAllBegin
  BY <1>7 DEF StartAllBegin
<1>8. CASE StartAllEnd
  BY <1>8 DEF StartAllEnd
<1>9. CASE StartAllDropped
  BY <1>9 DEF StartAllDropped
<1>10. CASE StopAllBegin
  BY <1>10 DEF StopAllBegin
<1>11. CASE StopEnd
  BY <1>11 DEF StopEnd
<1>12. CASE StopAllEnd
  BY <1>12 DEF StopAllEnd
<1>13. CASE UNCHANGED vars
  BY <1>13 DEF vars
<1> QED
  BY <1>1, <1>2, <1>3, <1>4, <1>5, <1>6, <1>7, <1>8, <1>9, <1>10, <1>11,
     <1>12, <1>13 DEF Next

-----------------------------------------------------------------------------
(* The theorems.                                                           *)

THEOREM InvHolds == Spec => []RegistryInv
  BY InitInv, StepInv, PTL DEF Spec

\* The variables keep their types: in particular every id the registry knows,
\* starts or stops is one the host has compiled in.
THEOREM TypeCorrect == Spec => []TypeOK
  BY InvHolds, PTL DEF RegistryInv

\* The registry's `started` and the providers' task handles always agree, so
\* no provider is ever asked to start twice.
THEOREM BookkeepingHolds == Spec => []Bookkeeping
  BY InvHolds, PTL DEF RegistryInv

\* No provider disappears but with a start task that panicked or was dropped.
THEOREM ProvidersAccountedHolds == Spec => []ProvidersAccounted
  BY InvHolds, PTL DEF RegistryInv

\* No background task runs that nobody can stop, those of lost providers apart.
THEOREM NoUnownedLoopHolds == Spec => []NoUnownedLoop
  BY InvHolds, PTL DEF RegistryInv

\* When start_all reports success every provider still there is started.
THEOREM StartAllCompletes == Spec => StartAllComplete
<1>1. RegistryInv /\ [Next]_vars
        => [(StartAllEnd /\ ~failed) => configured \ lost \subseteq started']_vars
  BY DEF RegistryInv, ProvidersAccounted, StartAllSoFar, StartAllEnd
<1> QED
  BY <1>1, InvHolds, PTL DEF Spec, StartAllComplete

\* When stop_all returns nothing is started and no loop runs on, those of lost
\* providers apart.
THEOREM StopAllCompletes == Spec => StopAllComplete
<1>1. RegistryInv /\ [Next]_vars
        => [StopAllEnd =>
              /\ started' = {}
              /\ \A p \in Provider \ lost : loop'[p] # "running"]_vars
  BY DEF RegistryInv, ProvidersAccounted, NoUnownedLoop, StopAllTodo,
         StopAllEnd, InJoinSet
<1> QED
  BY <1>1, InvHolds, PTL DEF Spec, StopAllComplete
-----------------------------------------------------------------------------
(* The server.                                                             *)

\* Every step of the server is a step or a stutter of the registry.
LEMMA StepRefines == [ServerNext]_allVars => [Next]_vars
<1> SUFFICES ASSUME [ServerNext]_allVars PROVE [Next]_vars
  OBVIOUS
<1>1. ASSUME NEW p \in Provider, Configure(p) PROVE [Next]_vars
  BY <1>1 DEF Configure, Next
<1>2. ASSUME NEW c \in Conn, Accept(c) \/ Receive(c) \/ WsDisconnect(c)
      PROVE [Next]_vars
  BY <1>2 DEF Accept, Receive, WsDisconnect, vars
<1>3. ASSUME NEW c \in Conn, Handle(c) PROVE [Next]_vars
  <2>1. CASE HandleInfo(c) \/ HandleShutdown(c) \/ HandleSend(c) \/ SendEnd(c)
    BY <2>1 DEF HandleInfo, HandleShutdown, HandleSend, SendEnd, vars
  <2>2. CASE HandleListen(c)
    BY <2>2 DEF HandleListen, Next
  <2>3. CASE HandleListenAll(c)
    BY <2>3 DEF HandleListenAll, Next, vars
  <2>4. CASE ListenAllEnd(c)
    BY <2>4 DEF ListenAllEnd, Next
  <2> QED BY <1>3, <2>1, <2>2, <2>3, <2>4 DEF Handle
<1>4. ASSUME NEW c \in Conn, HttpDisconnect(c) PROVE [Next]_vars
  BY <1>4 DEF HttpDisconnect, Next
<1>5. CASE ProviderStep
  BY <1>5 DEF ProviderStep, Next
<1>6. CASE GraceEnds
  BY <1>6 DEF GraceEnds, Next
<1>7. CASE CtrlC
  BY <1>7 DEF CtrlC
<1>8. CASE ShutdownBegin
  BY <1>8 DEF ShutdownBegin, Next
<1>9. CASE ShutdownEnd
  BY <1>9 DEF ShutdownEnd, Next
<1>10. CASE Exited \/ UNCHANGED allVars
  BY <1>10 DEF Exited, allVars
<1> QED
  BY <1>1, <1>2, <1>3, <1>4, <1>5, <1>6, <1>7, <1>8, <1>9, <1>10
     DEF ServerNext, ServerStep

\* The server implements the registry's specification.
THEOREM ServerRefinesRegistry == ServerSpec => Spec
<1>1. ServerInit => Init
  BY DEF ServerInit
<1> QED BY <1>1, StepRefines, PTL DEF ServerSpec, Spec

\* When the process exits, stop_all has just returned, and nothing runs after.
THEOREM ExitIsCleanHolds == ServerSpec => []ExitIsClean
<1>1. ServerInit => ExitIsClean
  BY DEF ServerInit, ExitIsClean
<1>2. RegistryInv /\ ExitIsClean /\ [ServerNext]_allVars => ExitIsClean'
  <2> SUFFICES ASSUME RegistryInv, ExitIsClean, [ServerNext]_allVars,
                      phase' = "done"
               PROVE  ExitIsClean'
    BY DEF ExitIsClean
  <2>1. CASE phase = "done"
    <3>1. UNCHANGED allVars
      BY <2>1 DEF ServerNext, ServerStep, Exited
    <3> QED BY <2>1, <3>1 DEF ExitIsClean, allVars, vars, InJoinSet
  <2>2. CASE phase # "done"
    <3>1. ShutdownEnd
      BY <2>2 DEF ServerNext, ServerStep, Exited, allVars, serverVars,
         Configure, Accept, Receive, WsDisconnect, HttpDisconnect, Handle,
         HandleInfo, HandleShutdown, HandleListen, HandleListenAll,
         ListenAllEnd, HandleSend, SendEnd, Reply, ProviderStep, GraceEnds,
         CtrlC, ShutdownBegin
    <3> QED
      BY <3>1 DEF ShutdownEnd, StopAllEnd, RegistryInv, ProvidersAccounted,
         NoUnownedLoop, StopAllTodo, ExitIsClean, InJoinSet
  <2> QED BY <2>1, <2>2
<1>3. ServerSpec => []RegistryInv
  BY ServerRefinesRegistry, InvHolds, PTL
<1> QED BY <1>1, <1>2, <1>3, PTL DEF ServerSpec
-----------------------------------------------------------------------------
(* The mutex: everyone who waits or works under it is in its queue once.   *)

\* The holder leaves: the others keep their places.
LEMMA TailOfQueue ==
  ASSUME NEW S, NEW q \in Seq(S), q # <<>>, IsInjective(q)
  PROVE  /\ Tail(q) \in Seq(S) /\ IsInjective(Tail(q))
         /\ ToSet(Tail(q)) = ToSet(q) \ {Head(q)}
<1>1. /\ Tail(q) \in Seq(S) /\ Len(Tail(q)) = Len(q) - 1 /\ Len(q) \in Nat \ {0}
      /\ \A i \in 1 .. Len(q) - 1 : Tail(q)[i] = q[i + 1]
      /\ Head(q) = q[1]
  OBVIOUS
<1>2. DOMAIN q = 1 .. Len(q) /\ DOMAIN Tail(q) = 1 .. Len(q) - 1
  BY <1>1
<1>3. IsInjective(Tail(q))
  BY <1>1, <1>2 DEF IsInjective
<1>4. ASSUME NEW i \in 1 .. Len(q) - 1
      PROVE  Tail(q)[i] \in ToSet(q) \ {Head(q)}
  <2>1. Tail(q)[i] = q[i + 1] /\ i + 1 \in DOMAIN q /\ 1 \in DOMAIN q /\ i + 1 # 1
    BY <1>1, <1>2
  <2>2. q[i + 1] # q[1]
    BY <2>1 DEF IsInjective
  <2> QED BY <1>1, <2>1, <2>2 DEF ToSet
<1>5. ASSUME NEW i \in 1 .. Len(q), q[i] # Head(q)
      PROVE  q[i] \in ToSet(Tail(q))
  <2>1. i - 1 \in 1 .. Len(q) - 1 /\ Tail(q)[i - 1] = q[i]
    BY <1>1, <1>5
  <2> QED BY <1>2, <2>1 DEF ToSet
<1>6. ToSet(Tail(q)) \subseteq ToSet(q) \ {Head(q)}
  BY <1>2, <1>4 DEF ToSet
<1>7. ToSet(q) \ {Head(q)} \subseteq ToSet(Tail(q))
  BY <1>2, <1>5 DEF ToSet
<1> QED BY <1>1, <1>3, <1>6, <1>7

\* A newcomer stands at the end.
LEMMA AppendToQueue ==
  ASSUME NEW S, NEW q \in Seq(S), NEW e \in S, IsInjective(q), e \notin ToSet(q)
  PROVE  /\ Append(q, e) \in Seq(S) /\ IsInjective(Append(q, e))
         /\ ToSet(Append(q, e)) = ToSet(q) \cup {e}
         /\ Append(q, e) # <<>>
         /\ q # <<>> => Head(Append(q, e)) = Head(q)
<1>1. /\ Append(q, e) \in Seq(S) /\ Len(Append(q, e)) = Len(q) + 1 /\ Len(q) \in Nat
      /\ \A i \in 1 .. Len(q) : Append(q, e)[i] = q[i]
      /\ Append(q, e)[Len(q) + 1] = e
      /\ Append(q, e) # <<>>
      /\ q # <<>> => Head(Append(q, e)) = Head(q)
  OBVIOUS
<1>2. DOMAIN q = 1 .. Len(q) /\ DOMAIN Append(q, e) = 1 .. Len(q) + 1
  BY <1>1
<1>3. \A i \in 1 .. Len(q) : q[i] # e
  BY <1>2 DEF ToSet
<1>4. IsInjective(Append(q, e))
  BY <1>1, <1>2, <1>3 DEF IsInjective
<1>5. ToSet(Append(q, e)) = ToSet(q) \cup {e}
  <2>1. Len(q) + 1 \in DOMAIN Append(q, e)
    BY <1>1, <1>2
  <2>2. \A i \in DOMAIN Append(q, e) : i \in DOMAIN q \/ i = Len(q) + 1
    BY <1>1, <1>2
  <2>3. DOMAIN q \subseteq DOMAIN Append(q, e)
    BY <1>1, <1>2
  <2> QED BY <1>1, <1>2, <2>1, <2>2, <2>3 DEF ToSet
<1> QED BY <1>1, <1>4, <1>5

\* One who gives up: the others keep their order, and the holder the lock.
LEMMA RemoveFromQueue ==
  ASSUME NEW S, NEW q \in Seq(S), NEW e, IsInjective(q)
  PROVE  /\ RemoveFirst(q, e) \in Seq(S) /\ IsInjective(RemoveFirst(q, e))
         /\ ToSet(RemoveFirst(q, e)) = ToSet(q) \ {e}
         /\ q # <<>> /\ Head(q) # e
              => RemoveFirst(q, e) # <<>> /\ Head(RemoveFirst(q, e)) = Head(q)
<1>1. Len(q) \in Nat /\ DOMAIN q = 1 .. Len(q)
  OBVIOUS
<1>2. CASE e \notin ToSet(q)
  <2>1. RemoveFirst(q, e) = q
    BY <1>1, <1>2 DEF RemoveFirst, ToSet
  <2> QED BY <1>2, <2>1
<1>3. CASE e \in ToSet(q)
  <2>1. PICK n \in 1 .. Len(q) : q[n] = e
    BY <1>1, <1>3 DEF ToSet
  <2>2. {i \in 1 .. Len(q) : q[i] = e} = {n}
    BY <1>1, <2>1 DEF IsInjective
  <2>3. Min({n}) = n
    BY <2>1 DEF Min
  <2>4. SelectInSeq(q, LAMBDA v : v = e) = n
    BY <2>2, <2>3 DEF SelectInSeq
  <2> DEFINE rest == RemoveFirst(q, e)
  <2>5. rest = SubSeq(q, 1, n - 1) \o SubSeq(q, n + 1, Len(q))
    BY <2>1, <2>4 DEF RemoveFirst, RemoveAt
  <2>6. /\ SubSeq(q, 1, n - 1) \in Seq(S) /\ Len(SubSeq(q, 1, n - 1)) = n - 1
        /\ \A i \in 1 .. n - 1 : SubSeq(q, 1, n - 1)[i] = q[i]
    BY <1>1, <2>1
  <2>7. /\ SubSeq(q, n + 1, Len(q)) \in Seq(S) /\ Len(SubSeq(q, n + 1, Len(q))) = Len(q) - n
        /\ \A i \in 1 .. Len(q) - n : SubSeq(q, n + 1, Len(q))[i] = q[n + i]
    BY <1>1, <2>1
  <2>8. /\ rest \in Seq(S) /\ Len(rest) = Len(q) - 1
        /\ \A i \in 1 .. Len(q) - 1 : rest[i] = IF i < n THEN q[i] ELSE q[i + 1]
    <3> DEFINE front == SubSeq(q, 1, n - 1)
               back  == SubSeq(q, n + 1, Len(q))
    <3>1. /\ front \in Seq(S) /\ Len(front) = n - 1 /\ back \in Seq(S)
          /\ Len(back) = Len(q) - n /\ rest = front \o back
      BY <2>5, <2>6, <2>7
    <3>2. /\ \A i \in 1 .. n - 1 : front[i] = q[i]
          /\ \A i \in 1 .. Len(q) - n : back[i] = q[n + i]
      BY <2>6, <2>7
    <3> HIDE DEF rest, front, back
    <3>3. /\ rest \in Seq(S) /\ Len(rest) = Len(q) - 1
          /\ \A i \in 1 .. n - 1 : rest[i] = front[i]
          /\ \A i \in n .. Len(q) - 1 : rest[i] = back[i - (n - 1)]
      <4>1. /\ rest \in Seq(S) /\ Len(rest) = Len(front) + Len(back)
            /\ \A i \in 1 .. Len(front) + Len(back) :
                 rest[i] = IF i <= Len(front) THEN front[i] ELSE back[i - Len(front)]
        BY <3>1, ConcatProperties
      <4> QED BY <1>1, <2>1, <3>1, <4>1
    <3>4. ASSUME NEW i \in 1 .. Len(q) - 1
          PROVE  rest[i] = IF i < n THEN q[i] ELSE q[i + 1]
      <4>1. CASE i < n
        <5>1. i \in 1 .. n - 1
          BY <2>1, <4>1
        <5> QED BY <3>2, <3>3, <4>1, <5>1
      <4>2. CASE ~(i < n)
        <5>1. i \in n .. Len(q) - 1 /\ i - (n - 1) \in 1 .. Len(q) - n
          BY <1>1, <2>1, <4>2
        <5>2. n + (i - (n - 1)) = i + 1
          BY <1>1, <2>1
        <5> QED BY <3>2, <3>3, <4>2, <5>1, <5>2
      <4> QED BY <4>1, <4>2
    <3> QED BY <3>3, <3>4
  <2>9. DOMAIN rest = 1 .. Len(q) - 1
    BY <2>8
  <2> HIDE DEF rest
  <2>10. IsInjective(rest)
    BY SMTT(20), <1>1, <2>1, <2>8, <2>9 DEF IsInjective
  <2>11. ToSet(rest) \subseteq ToSet(q) \ {e}
    <3> SUFFICES ASSUME NEW i \in 1 .. Len(q) - 1 PROVE rest[i] \in ToSet(q) \ {e}
      BY <2>9 DEF ToSet
    <3>1. CASE i < n
      <4>1. rest[i] = q[i] /\ i \in DOMAIN q /\ i # n /\ n \in DOMAIN q
        BY <1>1, <2>1, <2>8, <3>1
      <4> QED BY <2>1, <4>1 DEF IsInjective, ToSet
    <3>2. CASE ~(i < n)
      <4>1. rest[i] = q[i + 1] /\ i + 1 \in DOMAIN q /\ i + 1 # n /\ n \in DOMAIN q
        BY <1>1, <2>1, <2>8, <3>2
      <4> QED BY <2>1, <4>1 DEF IsInjective, ToSet
    <3> QED BY <3>1, <3>2
  <2>12. ToSet(q) \ {e} \subseteq ToSet(rest)
    <3> SUFFICES ASSUME NEW i \in 1 .. Len(q), q[i] # e PROVE q[i] \in ToSet(rest)
      BY <1>1 DEF ToSet
    <3>1. CASE i < n
      <4>1. i \in DOMAIN rest /\ rest[i] = q[i]
        BY <1>1, <2>1, <2>8, <2>9, <3>1
      <4> QED BY <4>1 DEF ToSet
    <3>2. CASE ~(i < n)
      <4>1. i - 1 \in DOMAIN rest /\ rest[i - 1] = q[i]
        BY <1>1, <2>1, <2>8, <2>9, <3>2
      <4> QED BY <4>1 DEF ToSet
    <3> QED BY <3>1, <3>2
  <2>13. ASSUME q # <<>>, Head(q) # e PROVE rest # <<>> /\ Head(rest) = Head(q)
    <3>1. Head(q) = q[1] /\ n # 1
      BY <1>1, <2>1, <2>13
    <3>2. Len(rest) > 0 /\ rest[1] = q[1]
      BY <1>1, <2>1, <2>8, <3>1
    <3> QED BY <2>8, <3>1, <3>2
  <2> QED BY <2>8, <2>10, <2>11, <2>12, <2>13 DEF rest
<1> QED BY <1>2, <1>3

-----------------------------------------------------------------------------
ConnectionsOK ==
  /\ conn \in [Conn -> ConnState]
  /\ req \in [Conn -> Request \cup {NoRequest}]
  /\ lockq \in Seq(Conn \cup {Signal})
  /\ phase \in {"serving", "stopping", "done"}

QueueInv ==
  /\ IsInjective(lockq)
  /\ ToSet(lockq) = Asking

LockInv ==
  /\ ConnectionsOK
  /\ QueueInv
  /\ CallHeldUnderLock

\* The holder of the lock is one of those who asked.
LEMMA HolderAsked ==
  ASSUME LockInv, NEW a, Holds(a)
  PROVE  /\ lockq # <<>> /\ a \in Asking
         /\ a \in Conn => conn[a] \in {"queued", "listening", "sending"}
         /\ a = Signal => phase # "serving"
<1>1. lockq \in Seq(Conn \cup {Signal}) /\ lockq # <<>> /\ Head(lockq) = a
  BY DEF LockInv, ConnectionsOK, Holds
<1>2. 1 \in DOMAIN lockq /\ lockq[1] = a
  BY <1>1
<1>3. a \in ToSet(lockq)
  BY <1>2 DEF ToSet
<1> QED BY <1>1, <1>3, ActorsDistinct DEF LockInv, QueueInv, Asking

\* A holder that is not in a call of the registry knows that nobody is.
LEMMA HolderAlone ==
  ASSUME LockInv, call \in Call, NEW c \in Conn, Holds(c), conn[c] # "listening"
  PROVE  call = "idle"
<1>1. call # "stop_all"
  BY ActorsDistinct DEF LockInv, CallHeldUnderLock, Holds
<1>2. call # "start_all"
  BY DEF LockInv, CallHeldUnderLock, Holds
<1> QED BY <1>1, <1>2 DEF Call

\* A reply gives the lock to the next one.
LEMMA ReplyInv ==
  ASSUME LockInv, NEW c \in Conn, Holds(c), NEW next \in {"idle", "none"},
         Reply(c, next), call' = "idle"
  PROVE  LockInv'
<1>1. /\ conn' = [conn EXCEPT ![c] = next] /\ req' = [req EXCEPT ![c] = NoRequest]
      /\ lockq' = Tail(lockq) /\ phase' = phase
  BY DEF Reply
<1>2. lockq \in Seq(Conn \cup {Signal}) /\ lockq # <<>> /\ Head(lockq) = c
  BY HolderAsked DEF Holds, LockInv, ConnectionsOK
<1>3. /\ lockq' \in Seq(Conn \cup {Signal}) /\ IsInjective(lockq')
      /\ ToSet(lockq') = Asking \ {c}
  BY <1>1, <1>2, TailOfQueue DEF LockInv, QueueInv
<1>4. ConnectionsOK'
  BY <1>1, <1>3 DEF LockInv, ConnectionsOK, ConnState
<1>5. Asking' = Asking \ {c}
  BY <1>1, ActorsDistinct DEF LockInv, ConnectionsOK, Asking
<1>6. \A d \in Conn : conn'[d] \notin {"listening", "sending"}
  BY <1>1, <1>2 DEF LockInv, ConnectionsOK, CallHeldUnderLock, Holds
<1>7. CallHeldUnderLock'
  BY <1>6 DEF CallHeldUnderLock
<1> QED BY <1>3, <1>4, <1>5, <1>7 DEF LockInv, QueueInv

\* A handler that has its turn enters a call and keeps the lock.
LEMMA EnterInv ==
  ASSUME LockInv, call = "idle", NEW c \in Conn, Holds(c),
         NEW next \in {"listening", "sending"},
         conn' = [conn EXCEPT ![c] = next], UNCHANGED <<req, lockq, phase>>,
         call' = IF next = "listening" THEN "start_all" ELSE "idle"
  PROVE  LockInv'
<1>1. ConnectionsOK'
  BY DEF LockInv, ConnectionsOK, ConnState
<1>2. conn[c] \in {"queued", "listening", "sending"}
  BY HolderAsked
<1>3. Asking' = Asking
  BY <1>2 DEF LockInv, ConnectionsOK, Asking
<1>4. \A d \in Conn : d # c => conn'[d] \notin {"listening", "sending"}
  BY DEF LockInv, ConnectionsOK, CallHeldUnderLock, Holds
<1>5. conn'[c] = next
  BY DEF LockInv, ConnectionsOK
<1>6. CallHeldUnderLock'
  BY <1>4, <1>5 DEF CallHeldUnderLock, Holds
<1> QED BY <1>1, <1>3, <1>6 DEF LockInv, QueueInv

\* The steps of a connection's own keep the invariant.
LEMMA HandleInv ==
  ASSUME LockInv, call \in Call, NEW c \in Conn, Handle(c)
  PROVE  LockInv'
<1>1. CASE HandleInfo(c) \/ HandleShutdown(c)
  <2>1. /\ Holds(c) /\ conn[c] = "queued" /\ call' = call
        /\ \E next \in {"idle", "none"} : Reply(c, next)
    BY <1>1 DEF HandleInfo, HandleShutdown, Turn, vars
  <2>2. call = "idle"
    BY <2>1, HolderAlone
  <2> QED BY <2>1, <2>2, ReplyInv
<1>2. CASE HandleListen(c)
  <2>1. Holds(c) /\ conn[c] = "queued" /\ call' = call /\ Reply(c, "idle")
    BY <1>2 DEF HandleListen, Turn, Start, vars
  <2>2. call = "idle"
    BY <2>1, HolderAlone
  <2> QED BY <2>1, <2>2, ReplyInv
<1>3. CASE HandleListenAll(c)
  <2>1. Holds(c) /\ conn[c] = "queued"
    BY <1>3 DEF HandleListenAll, Turn
  <2>2. call = "idle"
    BY <2>1, HolderAlone
  <2>3. CASE /\ call' = "start_all" /\ conn' = [conn EXCEPT ![c] = "listening"]
             /\ UNCHANGED <<req, lockq, phase>>
    BY <2>1, <2>2, <2>3, EnterInv
  <2>4. CASE Reply(c, "idle") /\ call' = call
    BY <2>1, <2>2, <2>4, ReplyInv
  <2> QED BY <1>3, <2>3, <2>4 DEF HandleListenAll, StartAllBegin, vars
<1>4. CASE ListenAllEnd(c)
  <2>1. Holds(c) /\ call' = "idle" /\ Reply(c, "idle")
    BY <1>4 DEF ListenAllEnd, StartAllEnd, LockInv, CallHeldUnderLock
  <2> QED BY <2>1, ReplyInv
<1>5. CASE HandleSend(c)
  <2>1. Holds(c) /\ conn[c] = "queued" /\ call' = call
    BY <1>5 DEF HandleSend, Turn, vars
  <2>2. call = "idle"
    BY <2>1, HolderAlone
  <2>3. CASE conn' = [conn EXCEPT ![c] = "sending"] /\ UNCHANGED <<req, lockq, phase>>
    BY <2>1, <2>2, <2>3, EnterInv
  <2>4. CASE Reply(c, "idle")
    BY <2>1, <2>2, <2>4, ReplyInv
  <2> QED BY <1>5, <2>3, <2>4 DEF HandleSend
<1>6. CASE SendEnd(c)
  <2>1. Holds(c) /\ conn[c] = "sending" /\ call' = call /\ Reply(c, "idle")
    BY <1>6 DEF SendEnd, LockInv, CallHeldUnderLock, vars
  <2>2. call = "idle"
    BY <2>1, HolderAlone
  <2> QED BY <2>1, <2>2, ReplyInv
<1> QED BY <1>1, <1>2, <1>3, <1>4, <1>5, <1>6 DEF Handle

\* Whoever asks stands behind the holder.
LEMMA AskInv ==
  ASSUME LockInv, NEW a \in Conn \cup {Signal}, a \notin Asking,
         lockq' = Append(lockq, a), ConnectionsOK', Asking' = Asking \cup {a},
         call' = call,
         \A d \in Conn : /\ conn'[d] = "listening" <=> conn[d] = "listening"
                         /\ conn'[d] = "sending" <=> conn[d] = "sending"
  PROVE  LockInv'
<1>1. lockq \in Seq(Conn \cup {Signal}) /\ IsInjective(lockq) /\ a \notin ToSet(lockq)
  BY DEF LockInv, ConnectionsOK, QueueInv
<1>2. /\ IsInjective(lockq') /\ ToSet(lockq') = ToSet(lockq) \cup {a}
      /\ lockq' # <<>> /\ (lockq # <<>> => Head(lockq') = Head(lockq))
  BY <1>1, AppendToQueue
<1>3. QueueInv'
  BY <1>2 DEF LockInv, QueueInv
<1>4. CallHeldUnderLock'
  BY <1>2 DEF LockInv, CallHeldUnderLock, Holds
<1> QED BY <1>3, <1>4 DEF LockInv

\* A client that leaves takes its place in the queue, and its call, with it.
LEMMA DisconnectInv ==
  ASSUME LockInv, call \in Call, NEW c \in Conn, HttpDisconnect(c)
  PROVE  LockInv'
<1>1. /\ conn' = [conn EXCEPT ![c] = "none"] /\ req' = [req EXCEPT ![c] = NoRequest]
      /\ lockq' = RemoveFirst(lockq, c) /\ phase' = phase
      /\ call' = IF conn[c] = "listening" THEN "idle" ELSE call
  BY DEF HttpDisconnect, StartAllDropped, StartAllEnd, vars
<1>2. lockq \in Seq(Conn \cup {Signal}) /\ IsInjective(lockq)
  BY DEF LockInv, ConnectionsOK, QueueInv
<1>3. /\ lockq' \in Seq(Conn \cup {Signal}) /\ IsInjective(lockq')
      /\ ToSet(lockq') = Asking \ {c}
      /\ \A a : Holds(a) /\ a # c => Holds(a)'
  BY <1>1, <1>2, RemoveFromQueue DEF LockInv, QueueInv, Holds
<1>4. ConnectionsOK'
  BY <1>1, <1>3 DEF LockInv, ConnectionsOK, ConnState
<1>5. Asking' = Asking \ {c}
  BY <1>1, ActorsDistinct DEF LockInv, ConnectionsOK, Asking
<1>6. conn'[c] = "none" /\ \A d \in Conn : d # c => conn'[d] = conn[d]
  BY <1>1 DEF LockInv, ConnectionsOK
<1>7. \A d \in Conn : conn'[d] \in {"listening", "sending"} => Holds(d)'
  BY <1>3, <1>6 DEF LockInv, CallHeldUnderLock
<1>8. call' = "stop_all" => Holds(Signal)'
  BY <1>1, <1>3, ActorsDistinct DEF LockInv, CallHeldUnderLock
<1>9. call' = "start_all" <=> \E d \in Conn : conn'[d] = "listening"
  <2>1. CASE conn[c] = "listening"
    BY <1>1, <1>6, <2>1 DEF LockInv, CallHeldUnderLock, Holds
  <2>2. CASE conn[c] # "listening"
    BY <1>1, <1>6, <2>2 DEF LockInv, CallHeldUnderLock
  <2> QED BY <2>1, <2>2
<1>10. CallHeldUnderLock'
  BY <1>7, <1>8, <1>9 DEF CallHeldUnderLock
<1> QED BY <1>3, <1>4, <1>5, <1>10 DEF LockInv, QueueInv

\* Every step of the server keeps the invariant.
LEMMA LockStepInv ==
  ASSUME LockInv, call \in Call, [ServerNext]_allVars
  PROVE  LockInv'
<1> DEFINE Kept == UNCHANGED <<conn, req, lockq, phase>>
<1>1. ASSUME Kept, call' = call PROVE LockInv'
  BY <1>1 DEF LockInv, ConnectionsOK, QueueInv, Asking, CallHeldUnderLock, Holds
<1>2. ASSUME NEW p \in Provider, Configure(p) PROVE LockInv'
  BY <1>1, <1>2 DEF Configure, Register, serverVars
<1>3. ASSUME NEW c \in Conn, Accept(c) \/ WsDisconnect(c) PROVE LockInv'
  <2>1. /\ conn[c] \in {"none", "idle"} /\ UNCHANGED <<req, lockq, phase>> /\ call' = call
        /\ \E next \in {"none", "idle"} : conn' = [conn EXCEPT ![c] = next]
    BY <1>3 DEF Accept, WsDisconnect, vars
  <2>2. ConnectionsOK' /\ Asking' = Asking
    BY <2>1 DEF LockInv, ConnectionsOK, ConnState, Asking
  <2>3. \A d \in Conn : /\ conn'[d] = "listening" <=> conn[d] = "listening"
                        /\ conn'[d] = "sending" <=> conn[d] = "sending"
    BY <2>1 DEF LockInv, ConnectionsOK
  <2> QED BY <2>1, <2>2, <2>3 DEF LockInv, QueueInv, CallHeldUnderLock, Holds
<1>4. ASSUME NEW c \in Conn, Receive(c) PROVE LockInv'
  <2>1. /\ conn[c] = "idle" /\ conn' = [conn EXCEPT ![c] = "queued"]
        /\ lockq' = Append(lockq, c) /\ phase' = phase /\ call' = call
        /\ \E r \in Request : req' = [req EXCEPT ![c] = r]
    BY <1>4 DEF Receive, vars
  <2>2. c \notin Asking /\ Asking' = Asking \cup {c}
    BY <2>1, ActorsDistinct DEF LockInv, ConnectionsOK, Asking
  <2>3. ConnectionsOK'
    BY <2>1 DEF LockInv, ConnectionsOK, ConnState
  <2>4. \A d \in Conn : /\ conn'[d] = "listening" <=> conn[d] = "listening"
                        /\ conn'[d] = "sending" <=> conn[d] = "sending"
    BY <2>1 DEF LockInv, ConnectionsOK
  <2> QED BY <2>1, <2>2, <2>3, <2>4, AskInv
<1>5. ASSUME NEW c \in Conn, Handle(c) PROVE LockInv'
  BY <1>5, HandleInv
<1>6. ASSUME NEW c \in Conn, HttpDisconnect(c) PROVE LockInv'
  BY <1>6, DisconnectInv
<1>7. CASE ProviderStep \/ GraceEnds
  BY <1>1, <1>7 DEF ProviderStep, GraceEnds, StartTask, StartTaskOk, StartTaskFails, Join,
                    StopBegin, LoopDies, StopEnd, serverVars
<1>8. CASE CtrlC
  <2>1. /\ phase = "serving" /\ phase' = "stopping" /\ lockq' = Append(lockq, Signal)
        /\ UNCHANGED <<conn, req>> /\ call' = call
    BY <1>8 DEF CtrlC, vars
  <2>2. Signal \notin Asking /\ Asking' = Asking \cup {Signal}
    BY <2>1, ActorsDistinct DEF Asking
  <2>3. ConnectionsOK'
    BY <2>1 DEF LockInv, ConnectionsOK
  <2> QED BY <2>1, <2>2, <2>3, AskInv
<1>9. CASE ShutdownBegin
  BY <1>9 DEF ShutdownBegin, StopAllBegin, serverVars, LockInv, ConnectionsOK, QueueInv,
              Asking, CallHeldUnderLock, Holds
<1>10. CASE ShutdownEnd
  <2>1. /\ call = "stop_all" /\ call' = "idle" /\ phase' = "done"
        /\ UNCHANGED <<conn, req, lockq>>
    BY <1>10 DEF ShutdownEnd, StopAllEnd
  <2>2. phase # "serving"
    BY <2>1, HolderAsked DEF LockInv, CallHeldUnderLock
  <2>3. ConnectionsOK' /\ Asking' = Asking
    BY <2>1, <2>2 DEF LockInv, ConnectionsOK, Asking
  <2> QED BY <2>1, <2>3 DEF LockInv, QueueInv, CallHeldUnderLock, Holds
<1>11. CASE Exited \/ UNCHANGED allVars
  BY <1>1, <1>11 DEF Exited, allVars, vars, serverVars
<1> HIDE DEF Kept
<1> QED
  BY <1>2, <1>3, <1>4, <1>5, <1>6, <1>7, <1>8, <1>9, <1>10, <1>11
     DEF ServerNext, ServerStep

\* The queue of the mutex holds exactly those who asked, each once.
THEOREM LockInvHolds == ServerSpec => []LockInv
<1>1. ServerInit => LockInv
  <2> SUFFICES ASSUME ServerInit PROVE LockInv
    OBVIOUS
  <2>1. ConnectionsOK
    BY DEF ServerInit, ConnectionsOK, ConnState
  <2>2. QueueInv
    <3>1. DOMAIN lockq = {}
      BY DEF ServerInit
    <3>2. Asking = {}
      BY DEF ServerInit, Asking
    <3> QED BY <3>1, <3>2 DEF QueueInv, IsInjective, ToSet
  <2>3. CallHeldUnderLock
    BY DEF ServerInit, Init, CallHeldUnderLock
  <2> QED BY <2>1, <2>2, <2>3 DEF LockInv
<1>2. LockInv /\ RegistryInv /\ [ServerNext]_allVars => LockInv'
  BY LockStepInv DEF RegistryInv, TypeOK
<1>3. ServerSpec => []RegistryInv
  BY ServerRefinesRegistry, InvHolds, PTL
<1> QED BY <1>1, <1>2, <1>3, PTL DEF ServerSpec

\* The variables of registry, connections and lock keep their types, and the queue of
\* the mutex holds whoever handles a request, each once.
THEOREM ServerTypeCorrect == ServerSpec => []ServerTypeOK
<1>1. LockInv /\ RegistryInv => ServerTypeOK
  BY DEF LockInv, ConnectionsOK, QueueInv, RegistryInv, ServerTypeOK
<1>2. ServerSpec => []RegistryInv
  BY ServerRefinesRegistry, InvHolds, PTL
<1> QED BY <1>1, <1>2, LockInvHolds, PTL

\* Whoever is inside the registry holds the one Mutex<AppState>, however clients
\* come, go and disconnect in the middle of a call.
THEOREM CallHeldUnderLockHolds == ServerSpec => []CallHeldUnderLock
<1>1. LockInv => CallHeldUnderLock
  BY DEF LockInv
<1> QED BY <1>1, LockInvHolds, PTL
=============================================================================
