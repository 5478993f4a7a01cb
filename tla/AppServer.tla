----------------------------- MODULE AppServer ------------------------------
(***************************************************************************)
(* `pc serve`: the JSON-RPC dispatcher (crates/provider-transport/src/     *)
(* state.rs) behind the one Arc<Mutex<AppState>> that every WebSocket and  *)
(* HTTP connection and the Ctrl-C handler lock (ws.rs, http.rs, run_serve  *)
(* in bin/pc/src/main.rs), over the provider registry.                     *)
(*                                                                         *)
(* tokio's Mutex hands the lock to its waiters in the order they asked:    *)
(* `lockq` is that queue and its head holds the lock.                      *)
(***************************************************************************)
EXTENDS ProviderRegistry, Sequences, SequencesExt

CONSTANTS
  WsConn,     \* WebSocket connections
  HttpConn,   \* HTTP connections, whose handler is dropped on disconnect
  Signal      \* the Ctrl-C handler

Conn == WsConn \cup HttpConn

ASSUME ActorsDistinct == WsConn \cap HttpConn = {} /\ Signal \notin Conn

VARIABLES
  conn,    \* state of each connection
  req,     \* the request it handles, NoRequest between requests
  lockq,   \* the mutex: its holder, then its waiters
  phase    \* "serving", "stopping" after Ctrl-C, "done" when pc exits

serverVars == <<conn, req, lockq, phase>>
allVars == <<vars, serverVars>>

ConnState == {"none", "idle", "queued", "listening", "sending"}

\* initialize, capabilities and refused requests touch no provider: "info".
NoRequest == [method |-> "none"]
Request ==
  [method : {"info", "shutdown", "listen_all"}]
    \cup [method : {"listen"}, ids : SUBSET Provider]
    \cup [method : {"send"}, provider : Provider]

\* Who has asked for the lock and not given it back.
Asking ==
  {c \in Conn : conn[c] \in {"queued", "listening", "sending"}}
    \cup (IF phase = "serving" THEN {} ELSE {Signal})

\* The types, and the mutex's queue: whoever handles a request is in it, at most
\* once, since a connection's next request is read when this one is answered.
ServerTypeOK ==
  /\ TypeOK
  /\ conn \in [Conn -> ConnState]
  /\ req \in [Conn -> Request \cup {NoRequest}]
  /\ lockq \in Seq(Conn \cup {Signal})
  /\ IsInjective(lockq) /\ ToSet(lockq) = Asking
  /\ phase \in {"serving", "stopping", "done"}

\* run_serve registers the configured providers before it binds a listener.
ServerInit ==
  /\ Init
  /\ conn = [c \in Conn |-> "none"]
  /\ req = [c \in Conn |-> NoRequest]
  /\ lockq = <<>>
  /\ phase = "serving"

Holds(a) == lockq # <<>> /\ Head(lockq) = a

-----------------------------------------------------------------------------
(* Connections.                                                            *)

Configure(p) ==
  /\ \A c \in Conn : conn[c] = "none"
  /\ phase = "serving"
  /\ Register(p)
  /\ UNCHANGED serverVars

\* Ctrl-C aborts the accept loops, not the connections they accepted.
Accept(c) ==
  /\ phase = "serving"
  /\ conn[c] = "none"
  /\ conn' = [conn EXCEPT ![c] = "idle"]
  /\ UNCHANGED <<vars, req, lockq, phase>>

\* Mutant: the read loop goes on to the next request while this one waits.
ReceivePipelined(c) ==
  /\ conn[c] \in {"idle", "queued"}
  /\ \E r \in Request : req' = [req EXCEPT ![c] = r]
  /\ conn' = [conn EXCEPT ![c] = "queued"]
  /\ lockq' = Append(lockq, c)
  /\ UNCHANGED <<vars, phase>>

Receive(c) ==
  /\ conn[c] = "idle"
  /\ \E r \in Request : req' = [req EXCEPT ![c] = r]
  /\ conn' = [conn EXCEPT ![c] = "queued"]
  /\ lockq' = Append(lockq, c)
  /\ UNCHANGED <<vars, phase>>

\* The reply is sent and the guard released.
Reply(c, next) ==
  /\ conn' = [conn EXCEPT ![c] = next]
  /\ req' = [req EXCEPT ![c] = NoRequest]
  /\ lockq' = Tail(lockq)
  /\ UNCHANGED phase

Turn(c, method) ==
  /\ conn[c] = "queued"
  /\ Holds(c)
  /\ req[c].method = method

HandleInfo(c) ==
  /\ Turn(c, "info")
  /\ Reply(c, "idle")
  /\ UNCHANGED vars

\* A shutdown request ends the WebSocket connection it came on; over HTTP it
\* is only answered.
HandleShutdown(c) ==
  /\ Turn(c, "shutdown")
  /\ Reply(c, IF c \in WsConn THEN "none" ELSE "idle")
  /\ UNCHANGED vars

\* listen with a list starts its ids in order and stops at the first error.
HandleListen(c) ==
  /\ Turn(c, "listen")
  /\ \/ \E S \in SUBSET Provider : S \subseteq req[c].ids /\ Start(S)
     \/ UNCHANGED vars
  /\ Reply(c, "idle")

HandleListenAll(c) ==
  /\ Turn(c, "listen_all")
  /\ \/ /\ StartAllBegin
        /\ conn' = [conn EXCEPT ![c] = "listening"]
        /\ UNCHANGED <<req, lockq, phase>>
     \/ /\ registered \ started = {}
        /\ Reply(c, "idle")
        /\ UNCHANGED vars

ListenAllEnd(c) ==
  /\ conn[c] = "listening"
  /\ StartAllEnd
  /\ Reply(c, "idle")

\* send keeps the lock while it waits for the provider's network.
HandleSend(c) ==
  /\ Turn(c, "send")
  /\ \/ /\ req[c].provider \in started
        /\ conn' = [conn EXCEPT ![c] = "sending"]
        /\ UNCHANGED <<req, lockq, phase>>
     \/ /\ req[c].provider \notin started
        /\ Reply(c, "idle")
  /\ UNCHANGED vars

SendEnd(c) ==
  /\ conn[c] = "sending"
  /\ Reply(c, "idle")
  /\ UNCHANGED vars

\* A WebSocket's read loop notices a disconnect between requests only ...
WsDisconnect(c) ==
  /\ c \in WsConn
  /\ conn[c] = "idle"
  /\ conn' = [conn EXCEPT ![c] = "none"]
  /\ UNCHANGED <<vars, req, lockq, phase>>

\* Mutants: the guard is released, the call in the registry goes on; or a
\* waiter that is gone keeps its place in the lock queue.
HttpDisconnectDetaches(c) ==
  /\ c \in HttpConn
  /\ conn[c] # "none"
  /\ conn' = [conn EXCEPT ![c] = "none"]
  /\ req' = [req EXCEPT ![c] = NoRequest]
  /\ lockq' = RemoveFirst(lockq, c)
  /\ UNCHANGED <<vars, phase>>

HttpDisconnectLeaks(c) ==
  /\ c \in HttpConn
  /\ conn[c] # "none"
  /\ IF conn[c] = "listening" THEN StartAllDropped \/ StartAllEnd
                              ELSE UNCHANGED vars
  /\ conn' = [conn EXCEPT ![c] = "none"]
  /\ req' = [req EXCEPT ![c] = NoRequest]
  /\ UNCHANGED <<lockq, phase>>

\* ... while hyper drops the handler's future wherever it waits: in the lock
\* queue, in send, or in start_all.
HttpDisconnect(c) ==
  /\ c \in HttpConn
  /\ conn[c] # "none"
  /\ IF conn[c] = "listening" THEN StartAllDropped \/ StartAllEnd
                              ELSE UNCHANGED vars
  /\ conn' = [conn EXCEPT ![c] = "none"]
  /\ req' = [req EXCEPT ![c] = NoRequest]
  /\ lockq' = RemoveFirst(lockq, c)
  /\ UNCHANGED phase

-----------------------------------------------------------------------------
(* Provider tasks, and the end of the process.                             *)

ProviderStep ==
  /\ \E p \in Provider : StartTask(p) \/ Join(p) \/ StopBegin(p) \/ LoopDies(p)
  /\ UNCHANGED serverVars

GraceEnds == StopEnd /\ UNCHANGED serverVars

CtrlC ==
  /\ phase = "serving"
  /\ phase' = "stopping"
  /\ lockq' = Append(lockq, Signal)
  /\ UNCHANGED <<vars, conn, req>>

ShutdownBegin ==
  /\ phase = "stopping"
  /\ Holds(Signal)
  /\ StopAllBegin
  /\ UNCHANGED serverVars

\* Mutant: pc exits without waiting for the grace windows.
ShutdownEndEarly ==
  /\ call = "stop_all"
  /\ UNCHANGED vars
  /\ phase' = "done"
  /\ UNCHANGED <<conn, req, lockq>>

\* The guard is released and block_on returns: no task runs any more.
ShutdownEnd ==
  /\ StopAllEnd
  /\ phase' = "done"
  /\ UNCHANGED <<conn, req, lockq>>

Exited == phase = "done" /\ UNCHANGED allVars

Handle(c) ==
  \/ HandleInfo(c)
  \/ HandleShutdown(c)
  \/ HandleListen(c)
  \/ HandleListenAll(c)
  \/ ListenAllEnd(c)
  \/ HandleSend(c)
  \/ SendEnd(c)

ServerStep ==
  /\ phase # "done"
  /\ \/ \E p \in Provider : Configure(p)
     \/ \E c \in Conn :
          \/ Accept(c)
          \/ Receive(c)
          \/ Handle(c)
          \/ WsDisconnect(c)
          \/ HttpDisconnect(c)
     \/ ProviderStep
     \/ GraceEnds
     \/ CtrlC
     \/ ShutdownBegin
     \/ ShutdownEnd

ServerNext == ServerStep \/ Exited

ServerSpec == ServerInit /\ [][ServerNext]_allVars

(***************************************************************************)
(* The runtime polls whatever is ready: the handler whose turn it is, start*)
(* tasks (at most 49 ms of jitter, then a start() that does not wait), the *)
(* 500 ms grace window, and a send (both HTTP clients have a timeout of    *)
(* 60 s).  Clients, the providers' servers and Ctrl-C are under no         *)
(* fairness.                                                               *)
(***************************************************************************)
Fairness ==
  /\ \A c \in Conn : WF_allVars(phase # "done" /\ Handle(c))
  /\ \A p \in Provider :
       /\ WF_allVars(phase # "done" /\ StartTask(p) /\ UNCHANGED serverVars)
       /\ WF_allVars(phase # "done" /\ Join(p) /\ UNCHANGED serverVars)
       /\ WF_allVars(phase # "done" /\ StopBegin(p) /\ UNCHANGED serverVars)
  /\ WF_allVars(phase # "done" /\ GraceEnds)
  /\ WF_allVars(phase # "done" /\ ShutdownBegin)
  /\ WF_allVars(phase # "done" /\ ShutdownEnd)

FairServerSpec == ServerSpec /\ Fairness

-----------------------------------------------------------------------------
(***************************************************************************)
(* What the server promises.                                               *)
(***************************************************************************)

\* Every registry call in progress belongs to the holder of the mutex, and a
\* handler that waits inside one holds it: a disconnect releases both the
\* lock and the call, and nobody else is ever in the registry.
CallHeldUnderLock ==
  /\ \A c \in Conn : conn[c] \in {"listening", "sending"} => Holds(c)
  /\ call = "start_all" <=> \E c \in Conn : conn[c] = "listening"
  /\ call = "stop_all" => Holds(Signal)

\* Ctrl-C leaves no provider running behind the process's back: when pc exits
\* every provider it still had was stopped, with requests still queued behind
\* the handler.
ExitIsClean ==
  phase = "done" =>
    /\ started = {}
    /\ \A p \in Provider \ lost : loop[p] # "running"
    /\ InJoinSet = {}

\* `pc serve` "holds provider connections once": agents come and go, and the
\* providers the host configured stay in the registry.
ProvidersHeld == call = "idle" => configured \subseteq registered

\* The one global lock starves nobody: a request that was received is answered,
\* unless its client leaves or pc exits first.
RequestsAnswered ==
  \A c \in Conn :
    conn[c] \in {"queued", "listening", "sending"} ~>
      (conn[c] \in {"idle", "none"} \/ phase = "done")

\* After Ctrl-C pc does exit, whatever was in progress or queued before it.
ShutdownCompletes == phase = "stopping" ~> phase = "done"
=============================================================================
