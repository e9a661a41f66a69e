--------------------------- MODULE WsClientProofs ---------------------------
(***************************************************************************)
(* Theorems about WsClient, for any number of goroutines, handles and      *)
(* fragments: callers are told causes, no connection is left behind in the *)
(* bridge, success is never reported of a connection the call's context    *)
(* closes, a cancelled call leaves no usable one, and the peer's Close is  *)
(* not lost to a write.                                                    *)
(***************************************************************************)
EXTENDS WsClient, WsConnProofs

-----------------------------------------------------------------------------
(* The invariant. *)

Calling == {"dial", "read", "write", "ping", "close"}
Cancelling == {"swapped", "closing", "done"}

(* The operation of the bridge a method calls, and what that can report.   *)
Doing(m) == IF m = "dial" THEN "connect" ELSE IF m \in {"read", "write"} THEN m ELSE "control"

ResultsOf(m) ==
  {"closed", "websocket"} \union
  (IF m = "dial" THEN {"data", "invalid_input", "handshake"}
   ELSE IF m = "read" THEN {"data", "ping", "close", "eof"}
   ELSE {"handle", "closing", "invalid_input"})

(* The client is in the registry until its handle was taken.               *)
ClientOK == TheClient \in IssuedClients /\ (handle # 0 => TheClient \in clients)

(* What a goroutine has with it where it is. *)
StageOK(g) ==
  /\ at[g] = "idle" =>
       call[g] = "none" /\ on[g] = 0 /\ after[g] = "unset" /\ verdict[g] = "none"
  /\ at[g] \in {"new", "made", "refused"} =>
       call[g] = "dial" /\ on[g] = 0 /\ after[g] = "unset"
  /\ at[g] \in {"call", "stop"} =>
       call[g] \in Calling /\ on[g] \in IssuedConns /\ after[g] \in Cancelling \union {"armed"}
  /\ at[g] \in {"ctx", "client", "conn", "settle"} =>
       call[g] \in Calling /\ on[g] \in IssuedConns /\ after[g] \in {"stopped", "done"}
  /\ at[g] = "conn" => call[g] # "dial"
  /\ at[g] \in {"client", "conn"} => after[g] = "stopped"
  /\ at[g] = "settle" /\ after[g] = "done" => verdict[g] = "ctx"
  /\ at[g] \in {"native", "closed"} =>
       /\ on[g] \in shut
       /\ after[g] \in {"unset", "stopped", "done"}
       /\ \/ call[g] \in Calling /\ Failed(verdict[g])
          \/ call[g] = "Close" /\ verdict[g] = "none"
  /\ at[g] \in {"clientNative", "clientClosed"} =>
       call[g] = "Close" /\ verdict[g] = "none" /\ on[g] = 0 /\ after[g] = "unset" /\ handle = 0
  /\ after[g] \in Cancelling => g \in ctxDone /\ on[g] \in shut

(* What a goroutine's thread does in the bridge, and what its callback's.  *)
PlaceOK(g) ==
  /\ pc[g] # "idle" =>
       \/ at[g] = "made" /\ op[g] = "create_connection" /\ arg[g] = TheClient
       \/ at[g] = "stop" /\ op[g] = Doing(call[g]) /\ arg[g] = on[g]
       \/ at[g] = "closed" /\ op[g] = "close_connection"
       \/ at[g] = "clientClosed" /\ op[g] = "close"
  /\ pc[Callback[g]] # "idle" => op[Callback[g]] = "close_connection" /\ after[g] = "closing"

(* The connection of a goroutine; a Dial has its own before it knows.      *)
JustMade(g) == at[g] = "made" /\ pc[g] = "idle" /\ res[g] = "handle"
Its(g) == IF JustMade(g) THEN arg[g] ELSE on[g]

MadeOK(g) ==
  /\ at[g] = "made" /\ pc[g] = "idle" =>
       \/ res[g] = "handle" /\ arg[g] \in IssuedConns
       \/ res[g] = "closed" /\ handle = 0 /\ arg[g] = 0
       \/ res[g] = "internal" /\ arg[g] = 0
  /\ at[g] = "refused" => verdict[g] \in {"internal", "ErrClientClosed"} /\ arg[g] = 0

(* A Dial's connection is nobody else's.  Only the Dial's own end or its   *)
(* context closes it; other methods have one that a Dial returned.         *)
OwnOK(g) ==
  /\ call[g] = "dial" =>
       /\ Its(g) \notin opened
       /\ Its(g) \in shut => at[g] \in {"native", "closed"} \/ after[g] \in Cancelling
       /\ \A h \in Users : call[h] = "dial" /\ Its(h) = Its(g) /\ Its(g) # 0 => h = g
  /\ call[g] # "dial" /\ on[g] # 0 => on[g] \in opened

(* Nobody holds the peer's Close of k any more, and nobody will.           *)
ReadsOver(k) ==
  /\ sock[k] = "over" \/ k \in peerClosed
  /\ \A t \in Threads : op[t] = "read" /\ arg[t] = k => held[t] # "close"

(* What the bridge reported is explained. *)
Explained(g, v) ==
  /\ v \in ResultsOf(call[g])
  /\ v = "closed" => handle = 0 \/ on[g] \in shut
  /\ v = "eof" => ReadsOver(on[g])
  /\ call[g] = "dial" /\ v = "data" => on[g] \in readers

AnswerOK(g) ==
  /\ at[g] = "stop" /\ pc[g] = "idle" => Explained(g, res[g])
  /\ at[g] \in {"ctx", "client", "conn"} => Explained(g, verdict[g])
  /\ at[g] = "conn" /\ verdict[g] = "closed" => on[g] \in shut
  /\ at[g] = "settle" =>
       \/ verdict[g] = "ctx"
       \/ verdict[g] = "ErrClientClosed" /\ handle = 0
       \/ verdict[g] = "ErrConnClosed" /\ on[g] \in shut
       \/ verdict[g] # "closed" /\ Explained(g, verdict[g])

(* Why a connection may have been closed: for these reasons no reader with *)
(* the peer's Close in hand minds.                                         *)
FairlyClosed(k, v) ==
  \/ v \in {"ctx", "Close", "websocket"}
  \/ handle = 0
  \/ k \notin opened
  \/ v = "eof" /\ ReadsOver(k)

InDial(k) == \E g \in Users : call[g] = "dial" /\ Its(g) = k

ConnOK(k) ==
  /\ k \in shut \union opened => k \in IssuedConns
  /\ k \in opened => k \in readers
  /\ k \in IssuedConns \ conns => handle = 0 \/ k \in shut
  /\ k \in conns /\ k \in shut => BeingClosed(k)
  /\ k \in conns /\ k \notin shut => k \in opened \/ InDial(k)
  /\ k \in shut => FairlyClosed(k, closer[k])

GoInv ==
  /\ RegistryInv /\ ConnInv /\ WsTypeOK /\ ClientOK
  /\ \A g \in Users : StageOK(g) /\ PlaceOK(g) /\ MadeOK(g) /\ OwnOK(g) /\ AnswerOK(g)
  /\ \A k \in Ids : ConnOK(k)

-----------------------------------------------------------------------------
(* Goroutines and their threads. *)

(* Every thread is a goroutine's or its callback's, and nobody's else.     *)
LEMMA Goroutines ==
  /\ \A g \in Users : g \in Threads /\ Callback[g] \in Threads /\ Callback[g] \notin Users
  /\ \A g, h \in Users : Callback[g] = Callback[h] => g = h
  /\ \A t \in Threads : t \in Users \/ \E g \in Users : t = Callback[g]
BY CallbackAssumption DEF Users, Callbacks

LEMMA ConnsIssued ==
  ASSUME GoInv
  PROVE  /\ IssuedConns \subseteq Ids /\ 0 \notin IssuedConns
         /\ shut \subseteq IssuedConns /\ opened \subseteq IssuedConns
         /\ conns \subseteq IssuedConns
<1>1. IssuedConns \subseteq Ids
  BY IssuedType DEF GoInv, RegistryInv, TypeOK
<1>2. 0 \notin Ids
  BY DEF Ids
<1>3. conns \subseteq IssuedConns
  BY DEF GoInv, RegistryInv, KindsDisjoint
<1> QED BY <1>1, <1>2, <1>3 DEF GoInv, WsTypeOK, ConnOK

-----------------------------------------------------------------------------
(* Steps, as the bridge sees them. *)

(* Copying a result out disturbs nothing in the bridge. *)
LEMMA TakeKeeps ==
  ASSUME RegistryInv, ConnInv, NEW t \in Threads, pc[t] = "idle", TakeResult(t)
  PROVE  RegistryInv' /\ ConnInv'
<1>1. /\ UNCHANGED <<nextId, clients, conns, owner, cancelled, pending, writers, readers,
                     peerClosed, readerQ, messageQ, gate, sock, reply, inbox, link, dialled,
                     assembling, torn, passed, pc, awake, op, held, sent>>
      /\ \A u \in Threads \ {t} : arg'[u] = arg[u] /\ res'[u] = res[u]
      /\ op[t] = "none"
  <2>1. TypeOK /\ Journeys
    BY DEF ConnInv
  <2> QED BY <2>1 DEF TakeResult, registryVars, connVars, lockVars, socketVars, history, TypeOK,
                ThreadsOK, Journeys, OnItsWay
<1>2. TypeOK'
  <2>1. ThreadsOK'
    <3>1. /\ arg' \in [Threads -> 0 .. MaxId] /\ res' \in [Threads -> Results]
          /\ \A u \in Threads : pc[u] # "idle" => arg'[u] \in Ids
      <4>1. 0 \in 0 .. MaxId /\ "none" \in Results
        BY WsAssumption DEF Results
      <4> QED BY <1>1, <4>1 DEF TakeResult, ConnInv, TypeOK, ThreadsOK
    <3> QED BY <1>1, <3>1 DEF ConnInv, TypeOK, ThreadsOK
  <2>2. RegistryOK' /\ ConnsOK' /\ QueuesOK' /\ SocketsOK' /\ PeerViewOK'
    BY <1>1 DEF ConnInv, TypeOK, RegistryOK, ConnsOK, QueuesOK, SocketsOK, PeerViewOK
  <2> QED BY <2>1, <2>2 DEF TypeOK
<1>3. RegistryInv'
  <2>1. pc'[t] \notin {"cancel", "build"} /\ pc'[t] \notin TaskPlaces /\ pc[t] # "cancel"
    BY <1>1 DEF TaskPlaces
  <2>2. UNCHANGED <<registryVars, cancelled>> /\ \A u \in Threads \ {t} : UNCHANGED <<pc[u], arg[u]>>
    BY <1>1 DEF registryVars
  <2> QED BY <1>2, <2>1, <2>2, WorkerMoves
<1>4. Journeys' /\ DialledOnce' /\ Undialled' /\ MessagesWhole' /\ ControlsComeNext'
  BY <1>1 DEF ConnInv, Journeys, OnItsWay, HoldsWhatFits, DialledOnce, Undialled, Issued,
              MessagesWhole, IsCancelled, ControlsComeNext
<1>5. \A u \in Threads : op[u] # "none" \/ pc[u] # "idle" => arg'[u] = arg[u]
  BY <1>1
<1>6. NoReadPastClose'
  BY <1>1, <1>5 DEF ConnInv, NoReadPastClose
<1>7. Guarded'
  <2>1. \A u \in Threads : \A k \in Ids : QueuedRight(k, u)'
    BY <1>1, <1>5 DEF ConnInv, Guarded, QueuedRight
  <2>2. \A u \in Threads : HoldsItsLocks(u)'
    BY <1>1, <1>5 DEF ConnInv, Guarded, HoldsItsLocks, HasGate
  <2> QED BY <1>1, <2>1, <2>2 DEF ConnInv, Guarded
<1>8. Unfinished'
  <2>1. \A u \in Threads : MidMessage(u)' => MidMessage(u) /\ arg'[u] = arg[u]
    BY <1>1, <1>5 DEF MidMessage
  <2>2. ASSUME NEW k \in Ids, assembling[k] # NoThread, MidMessage(assembling[k]),
               arg[assembling[k]] = k
        PROVE  MidMessage(assembling[k])' /\ arg'[assembling[k]] = k
    <3>1. assembling[k] \in Threads
      BY <2>2 DEF ConnInv, TypeOK, PeerViewOK
    <3> QED BY <1>1, <1>5, <2>2, <3>1 DEF MidMessage
  <2>3. \A k \in Ids : (Finished(k)' <=> Finished(k)) /\ (IsCancelled(k)' <=> IsCancelled(k))
    BY <1>1 DEF Finished, IsCancelled
  <2> QED BY <1>1, <2>1, <2>2, <2>3 DEF ConnInv, Unfinished
<1>9. PassedOnce'
  BY <1>1, <1>5 DEF ConnInv, PassedOnce
<1> QED BY <1>2, <1>3, <1>4, <1>6, <1>7, <1>8, <1>9 DEF ConnInv

Enters(g) == Dial(g) \/ CloseClient(g) \/ \E k \in Ids : CloseConn(g, k) \/ \E m \in Methods : Operate(g, m, k)
Decides(g) == DialRefused(g) \/ CheckContext(g) \/ CheckClient(g) \/ CheckConn(g) \/ Settle(g)
Thinks(g) == Enters(g) \/ Decides(g) \/ EndContext(g) \/ Fire(g)
Asks(g) == DialNew(g) \/ CallBridge(g) \/ NativeClose(g) \/ ClientNative(g)
Takes(g) == DialMade(g) \/ Stopped(g) \/ NativeClosed(g) \/ ClientClosed(g)
GoMoves(g) == Thinks(g) \/ Asks(g) \/ Takes(g) \/ FireClose(g) \/ FireDone(g)

Works(t) == Cancel(t) \/ Register(t) \/ Tasked(t)
Taken(t) == pc[t] = "idle" /\ TakeResult(t)

LEMMA GoSteps ==
  ASSUME [GoNext]_allVars
  PROVE  \/ \E g \in Users : GoMoves(g)
         \/ \E t \in Threads : Works(t) /\ UNCHANGED packageVars
         \/ \E k \in Ids : Peer(k) /\ UNCHANGED packageVars
         \/ UNCHANGED allVars
<1>1. ASSUME NEW g \in Users, GoEnter(g) PROVE GoMoves(g) \/ UNCHANGED allVars
  BY <1>1 DEF GoEnter, Refuse, GoMoves, Thinks, Enters
<1>2. ASSUME NEW g \in Users, GoStep(g) \/ CallbackStep(g) \/ EndContext(g) PROVE GoMoves(g)
  BY <1>2 DEF GoStep, CallbackStep, GoMoves, Thinks, Decides, Asks, Takes
<1>3. ASSUME NEW t \in Threads, Prompt(t) \/ Network(t) PROVE Works(t)
  BY <1>3 DEF Prompt, Network, Works, Tasked
<1> QED BY <1>1, <1>2, <1>3 DEF GoNext, BridgeStep

LEMMA ThinksAlone ==
  ASSUME NEW g \in Users, Thinks(g)
  PROVE  UNCHANGED vars
BY DEF Thinks, Enters, Decides, Dial, CloseClient, CloseConn, Operate, DialRefused, CheckContext,
       CheckClient, CheckConn, Settle, EndContext, Fire

LEMMA AsksEnter ==
  ASSUME GoInv, NEW g \in Users
  PROVE  /\ Asks(g) => Enter(g)
         /\ FireClose(g) => Enter(Callback[g])
<1>0. TheClient \in IssuedClients /\ StageOK(g) /\ shut \subseteq IssuedConns
  BY ConnsIssued DEF GoInv, ClientOK
<1>1. DialNew(g) \/ ClientNative(g) => Enter(g)
  BY <1>0 DEF DialNew, ClientNative, Enter
<1>2. ASSUME CallBridge(g) PROVE Enter(g)
  <2>1. on[g] \in IssuedConns
    BY <1>0, <1>2 DEF CallBridge, StageOK
  <2> QED BY <1>2, <2>1 DEF CallBridge, Enter
<1>3. ASSUME NativeClose(g) PROVE Enter(g)
  <2>1. on[g] \in IssuedConns
    BY <1>0, <1>3 DEF NativeClose, StageOK
  <2> QED BY <1>3, <2>1 DEF NativeClose, Enter
<1>4. ASSUME FireClose(g) PROVE Enter(Callback[g])
  <2>1. on[g] \in IssuedConns
    BY <1>0, <1>4 DEF FireClose, StageOK, Cancelling
  <2> QED BY <1>4, <2>1 DEF FireClose, Enter
<1> QED BY <1>1, <1>2, <1>3, <1>4 DEF Asks

LEMMA TakesTaken ==
  ASSUME NEW g \in Users
  PROVE  /\ Takes(g) => Taken(g)
         /\ FireDone(g) => Taken(Callback[g])
BY DEF Takes, DialMade, Stopped, NativeClosed, ClientClosed, Back, FireDone, Taken

(* The package makes the bridge's own steps, and copies results out.       *)
LEMMA BridgeMoves ==
  ASSUME GoInv, [GoNext]_allVars
  PROVE  [Next]_vars \/ \E t \in Threads : Taken(t)
<1>1. ASSUME NEW g \in Users, GoMoves(g) PROVE [Next]_vars \/ \E t \in Threads : Taken(t)
  BY <1>1, Goroutines, ThinksAlone, AsksEnter, TakesTaken DEF GoMoves, Next
<1>2. ASSUME NEW t \in Threads, Works(t) PROVE Next
  BY <1>2 DEF Works, Next, Tasked, Prompt, Network
<1>3. ASSUME NEW k \in Ids, Peer(k) PROVE Next
  BY <1>3 DEF Next
<1>4. UNCHANGED allVars => UNCHANGED vars
  BY DEF allVars
<1> QED BY <1>1, <1>2, <1>3, <1>4, GoSteps

LEMMA BridgeKept ==
  ASSUME GoInv, [GoNext]_allVars
  PROVE  RegistryInv' /\ ConnInv' /\ TypeOK'
BY BridgeMoves, RegistryNext, ConnNext, TakeKeeps DEF GoInv, Taken, ConnInv

-----------------------------------------------------------------------------
(* Type correctness. *)

LEMMA GoTypeInit == GoInit => WsTypeOK
<1> SUFFICES ASSUME GoInit PROVE WsTypeOK
  OBVIOUS
<1>0. TheClient \in Ids /\ TheClient \in 0 .. MaxId /\ 0 \in 0 .. MaxId /\ Fragments \in Nat \ {0}
  BY NewClientAssumption, WsAssumption DEF Ids
<1>1. RegistryOK /\ ConnsOK
  BY <1>0 DEF GoInit, NothingYet, RegistryOK, ConnsOK
<1>2. QueuesOK /\ SocketsOK
  BY DEF GoInit, NothingYet, QueuesOK, SocketsOK
<1>3. ThreadsOK /\ PeerViewOK
  BY <1>0 DEF GoInit, NothingYet, ThreadsOK, PeerViewOK, TaskPlaces, Operations, Results
<1> QED BY <1>0, <1>1, <1>2, <1>3 DEF WsTypeOK, GoInit, TypeOK, Positions, Results

(* The package's part of the type, for one step of one goroutine.          *)
GoTyped ==
  /\ handle \in {0, TheClient} /\ shut \subseteq Ids /\ opened \subseteq Ids
  /\ at \in [Users -> Positions]
  /\ call \in [Users -> {"none", "dial", "read", "write", "ping", "close", "Close"}]
  /\ on \in [Users -> 0 .. MaxId]
  /\ after \in [Users -> {"unset", "armed", "stopped", "swapped", "closing", "done"}]
  /\ ctxDone \subseteq Users
  /\ verdict \in [Users -> Results \union Errors]
  /\ closer \in [Ids -> Errors \union {"none", "Close"}]

LEMMA TypeMoves ==
  ASSUME GoInv, NEW g \in Users, GoMoves(g)
  PROVE  GoTyped'
<1>0. /\ GoTyped /\ res[g] \in Results /\ arg[g] \in 0 .. MaxId /\ 0 \in 0 .. MaxId
      /\ {"ctx", "ErrClientClosed", "ErrConnClosed"} \subseteq Errors
      /\ \A k \in Ids : k \in 0 .. MaxId
  <2>1. GoTyped
    BY DEF GoInv, WsTypeOK, GoTyped
  <2>2. res[g] \in Results /\ arg[g] \in 0 .. MaxId
    BY Goroutines DEF GoInv, WsTypeOK, TypeOK, ThreadsOK
  <2>3. {"ctx", "ErrClientClosed", "ErrConnClosed"} \subseteq Errors
    BY DEF Errors
  <2>4. 0 \in 0 .. MaxId /\ \A k \in Ids : k \in 0 .. MaxId
    BY WsAssumption DEF Ids
  <2> QED BY <2>1, <2>2, <2>3, <2>4
<1>1. Positions = {"idle", "new", "made", "call", "stop", "ctx", "client", "conn", "settle",
                   "refused", "native", "closed", "clientNative", "clientClosed"}
  BY DEF Positions
<1>2. {"none"} \subseteq Results
  BY DEF Results
<1>3. Enters(g) => GoTyped'
  BY <1>0, <1>1, MethodsAssumption
     DEF GoTyped, Enters, Dial, CloseClient, CloseConn, Operate, Begin, Swap
<1>4. ASSUME DialRefused(g) \/ CheckContext(g) \/ CheckClient(g) \/ CheckConn(g) PROVE GoTyped'
  BY <1>0, <1>1, <1>2, <1>4
     DEF GoTyped, DialRefused, CheckContext, CheckClient, CheckConn, Judge, Go, Give
<1>5. ASSUME Settle(g) PROVE GoTyped'
  <2>1. on[g] \in Ids
    BY <1>5, ConnsIssued DEF GoInv, Settle, StageOK
  <2>2. MustClose(g) => verdict[g] \in Errors
    BY DEF MustClose, Failed
  <2> QED BY <1>0, <1>1, <1>2, <1>5, <2>1, <2>2 DEF GoTyped, Settle, Give, Go, Swap
<1>6. ASSUME Fire(g) \/ FireClose(g) \/ FireDone(g) \/ EndContext(g) PROVE GoTyped'
  <2>1. Fire(g) => on[g] \in Ids
    BY ConnsIssued DEF GoInv, Fire, StageOK, WsTypeOK, Positions
  <2> QED BY <1>0, <1>6, <2>1 DEF GoTyped, Fire, FireClose, FireDone, EndContext, Swap, goVars
<1>7. ASSUME Asks(g) PROVE GoTyped'
  BY <1>0, <1>1, <1>7 DEF GoTyped, Asks, DialNew, CallBridge, NativeClose, ClientNative, Go
<1>8. ASSUME Takes(g) PROVE GoTyped'
  <2>1. DialMade(g) => GoTyped'
    BY <1>0, <1>1 DEF GoTyped, DialMade, Watch, Judge
  <2>2. Stopped(g) => GoTyped'
    BY <1>0, <1>1 DEF GoTyped, Stopped, Stop
  <2>3. NativeClosed(g) \/ ClientClosed(g) => GoTyped'
    BY <1>0, <1>1, <1>2 DEF GoTyped, NativeClosed, ClientClosed, Give
  <2> QED BY <1>8, <2>1, <2>2, <2>3 DEF Takes
<1> QED BY <1>3, <1>4, <1>5, <1>6, <1>7, <1>8 DEF GoMoves, Thinks, Decides

LEMMA TypeKept ==
  ASSUME GoInv, [GoNext]_allVars
  PROVE  WsTypeOK'
<1>1. CASE UNCHANGED packageVars
  BY <1>1, BridgeKept DEF GoInv, WsTypeOK, packageVars, goVars
<1>2. ASSUME NEW g \in Users, GoMoves(g) PROVE WsTypeOK'
  BY <1>2, BridgeKept, TypeMoves DEF WsTypeOK, GoTyped
<1> QED BY <1>1, <1>2, GoSteps DEF allVars

-----------------------------------------------------------------------------
(* What lasts. *)

(* Nobody can take the peer's Close from a stream that is over.            *)
LEMMA ReadsOverLasts ==
  ASSUME RegistryInv, ConnInv, NEW k \in Ids, ReadsOver(k),
         [Next]_vars \/ \E t \in Threads : Taken(t)
  PROVE  ReadsOver(k)'
<1>0. TypeOK /\ Journeys /\ NoReadPastClose
  BY DEF ConnInv
<1>1. CASE UNCHANGED vars \/ (\E p \in Ids : Peer(p)) \/ \E t \in Threads : Taken(t)
  <2>1. /\ UNCHANGED <<sock, peerClosed, op, held>>
        /\ UNCHANGED arg \/ \E t \in Threads : op[t] = "none" /\ \A u \in Threads \ {t} : arg'[u] = arg[u]
    <3>1. UNCHANGED vars \/ (\E p \in Ids : Peer(p)) => UNCHANGED <<sock, peerClosed, op, held, arg>>
      BY DEF vars, Peer, PeerSends, PeerVanishes, connVars, socketVars, callVars
    <3>2. ASSUME NEW t \in Threads, Taken(t)
          PROVE  /\ UNCHANGED <<sock, peerClosed, op, held>> /\ op[t] = "none"
                 /\ \A u \in Threads \ {t} : arg'[u] = arg[u]
      BY <1>0, <3>2 DEF Taken, TakeResult, connVars, socketVars, TypeOK, ThreadsOK, Journeys, OnItsWay
    <3> QED BY <1>1, <3>1, <3>2
  <2> QED BY <2>1 DEF ReadsOver
<1>2. ASSUME NEW t \in Threads, Enter(t) \/ Works(t) PROVE ReadsOver(k)'
  <2>1. \A u \in Threads \ {t} : UNCHANGED <<op[u], arg[u], held[u]>>
    BY <1>0, <1>2, OthersStay DEF Works, TypeOK
  <2>2. peerClosed \subseteq peerClosed' /\ (sock[k] = "over" => sock'[k] = "over")
    <3>1. CASE Enter(t)
      BY <3>1 DEF Enter, Create, Close, CloseConnection, CreateConnection, Connect, Read, Write,
                  Control, Lookup, connVars, socketVars
    <3>2. CASE Cancel(t) \/ Register(t)
      BY <3>2 DEF Cancel, Register, connVars, socketVars
    <3>3. CASE Tasked(t)
      <4>1. peerClosed \subseteq peerClosed'
        BY <3>3 DEF Tasked, Abort, Poll, Suspend, ConnectStart, Dialled, Connected, ReadStart,
              ReadLocked, ReadMessage, ReadNothing, ReadFlag, ReadAcknowledge, WriteStart,
              WriteLocked, ControlStart, NextFragment, SendFrame, SendRefused, Flushed,
              FlushFailed, connVars
      <4>2. \/ UNCHANGED sock
            \/ \E x : sock' = [sock EXCEPT ![arg[t]] = x] /\ (sock[arg[t]] = "over" => x = "over")
        BY <3>3 DEF Tasked, Abort, Poll, Suspend, ConnectStart, Dialled, Connected, ReadStart,
              ReadLocked, ReadMessage, Take, ReadNothing, ReadFlag, ReadAcknowledge, WriteStart,
              WriteLocked, ControlStart, NextFragment, SendFrame, SendRefused, Flushed,
              FlushFailed, socketVars
      <4> QED BY <1>0, <4>1, <4>2 DEF TypeOK, SocketsOK
    <3> QED BY <1>2, <3>1, <3>2, <3>3 DEF Works
  <2>3. op'[t] = "read" /\ arg'[t] = k => held'[t] # "close"
    <3>1. CASE Enter(t)
      <4>1. \/ \E h, r : StartAndReturn(t, h, r)
            \/ \E o, h, p, m : Start(t, o, h, p, m) /\ (o = "read" => m = "none")
        BY <3>1 DEF Enter, Create, Close, CloseConnection, CreateConnection, Connect, Read, Write,
                    Control, Lookup
      <4>2. pc[t] = "idle" => op[t] = "none"
        BY <1>0 DEF Journeys, OnItsWay
      <4> QED BY <1>0, <4>1, <4>2 DEF StartAndReturn, Start, TypeOK, ThreadsOK
    <3>2. CASE Cancel(t) \/ Register(t)
      BY <1>0, <3>2 DEF Cancel, Register, Answer, TypeOK, ThreadsOK
    <3>3. CASE Tasked(t)
      <4>1. CASE ReadMessage(t)
        <5>1. arg[t] \notin peerClosed /\ sock[arg[t]] # "over"
          BY <1>0, <4>1 DEF ReadMessage, Runs, NoReadPastClose
        <5>2. arg[t] # k
          BY <5>1 DEF ReadsOver
        <5>3. op'[t] = "none" \/ arg'[t] = arg[t]
          BY <1>0, <4>1 DEF ReadMessage, Return, Answer, TypeOK, ThreadsOK
        <5> QED BY <5>2, <5>3
      <4>2. CASE ~ReadMessage(t)
        <5>1. (\E r : Return(t, r)) \/ UNCHANGED <<op, arg, held>>
          BY <3>3, <4>2 DEF Tasked, Abort, Poll, Suspend, ConnectStart, Dialled, Connected,
                ReadStart, ReadLocked, ReadNothing, ReadFlag, ReadAcknowledge, WriteStart,
                WriteLocked, ControlStart, NextFragment, SendFrame, SendRefused, Flushed,
                FlushFailed, Goto
        <5> QED BY <1>0, <5>1 DEF Return, Answer, TypeOK, ThreadsOK, ReadsOver
      <4> QED BY <4>1, <4>2
    <3> QED BY <1>2, <3>1, <3>2, <3>3 DEF Works
  <2> QED BY <2>1, <2>2, <2>3 DEF ReadsOver
<1> QED BY <1>1, <1>2, NextSteps DEF Works

(* What a step never undoes. *)
Lasts ==
  /\ handle = 0 => handle' = 0
  /\ shut \subseteq shut' /\ opened \subseteq opened' /\ readers \subseteq readers'
  /\ IssuedConns \subseteq IssuedConns' /\ IssuedClients \subseteq IssuedClients'
  /\ \A k \in Ids : ReadsOver(k) => ReadsOver(k)'

LEMMA IssuedLasts ==
  ASSUME RegistryInv, ConnInv, [Next]_vars \/ \E t \in Threads : Taken(t)
  PROVE  /\ IssuedConns \subseteq IssuedConns' /\ IssuedClients \subseteq IssuedClients'
         /\ readers \subseteq readers'
<1>1. ASSUME NEW h \in Ids, Issue(h), owner' = owner \/ \E c : owner' = [owner EXCEPT ![h] = c]
      PROVE  IssuedConns \subseteq IssuedConns' /\ IssuedClients \subseteq IssuedClients'
  <2>1. Issued' = Issued \union {h} /\ h \notin Issued /\ owner \in [Ids -> 0 .. MaxId]
        /\ Issued \subseteq Ids
    BY <1>1, IssuedGrows, IssuedType DEF RegistryInv, TypeOK, RegistryOK
  <2>2. \A i \in Issued : owner'[i] = owner[i]
    BY <1>1, <2>1
  <2> QED BY <2>1, <2>2 DEF IssuedConns, IssuedClients
<1>2. ASSUME UNCHANGED <<nextId, owner>>
      PROVE  IssuedConns \subseteq IssuedConns' /\ IssuedClients \subseteq IssuedClients'
  <2>1. Issued' = Issued /\ owner' = owner
    BY <1>2 DEF Issued
  <2>2. IssuedConns' = IssuedConns
    BY <2>1 DEF IssuedConns
  <2> QED BY <2>1, <2>2 DEF IssuedClients
<1>3. CASE UNCHANGED vars \/ (\E p \in Ids : Peer(p)) \/ \E t \in Threads : Taken(t)
  <2>1. UNCHANGED <<nextId, owner, readers>>
    BY <1>3 DEF vars, registryVars, connVars, Peer, PeerSends, PeerVanishes, Taken, TakeResult
  <2> QED BY <1>2, <2>1
<1>4. ASSUME NEW t \in Threads, Enter(t)
      PROVE  /\ IssuedConns \subseteq IssuedConns' /\ IssuedClients \subseteq IssuedClients'
             /\ readers \subseteq readers'
  <2>1. readers' = readers
    BY <1>4 DEF Enter, Create, Close, CloseConnection, CreateConnection, Connect, Read, Write,
                Control, Lookup, connVars
  <2>2. Create(t) \/ UNCHANGED <<nextId, owner>>
    BY <1>4 DEF Enter, Close, CloseConnection, CreateConnection, Connect, Read, Write, Control,
                Lookup, registryVars
  <2> QED BY <1>1, <1>2, <2>1, <2>2 DEF Create
<1>5. ASSUME NEW t \in Threads, Works(t)
      PROVE  /\ IssuedConns \subseteq IssuedConns' /\ IssuedClients \subseteq IssuedClients'
             /\ readers \subseteq readers'
  <2>1. CASE Cancel(t)
    BY <1>2, <2>1 DEF Cancel, registryVars, connVars
  <2>2. CASE Register(t)
    BY <1>1, <1>2, <2>2 DEF Register
  <2>3. CASE Tasked(t)
    <3>1. UNCHANGED <<nextId, owner>>
      BY <2>3, TaskedWorks DEF RegistryInv, registryVars
    <3>2. readers \subseteq readers'
      BY <2>3 DEF Tasked, Abort, Poll, Suspend, ConnectStart, Dialled, Connected, ReadStart,
              ReadLocked, ReadMessage, ReadNothing, ReadFlag, ReadAcknowledge, WriteStart,
              WriteLocked, ControlStart, NextFragment, SendFrame, SendRefused, Flushed,
              FlushFailed, connVars
    <3> QED BY <1>2, <3>1, <3>2
  <2> QED BY <1>5, <2>1, <2>2, <2>3 DEF Works
<1> QED BY <1>3, <1>4, <1>5, NextSteps DEF Works

LEMMA Lasting ==
  ASSUME GoInv, [GoNext]_allVars
  PROVE  Lasts
<1>1. [Next]_vars \/ \E t \in Threads : Taken(t)
  BY BridgeMoves
<1>2. UNCHANGED packageVars => UNCHANGED <<handle, shut, opened>>
  BY DEF packageVars
<1>3. ASSUME NEW g \in Users, GoMoves(g)
      PROVE  (handle = 0 => handle' = 0) /\ shut \subseteq shut' /\ opened \subseteq opened'
  <2>1. CASE Thinks(g)
    BY <2>1 DEF Thinks, Enters, Decides, Dial, CloseClient, CloseConn, Operate, DialRefused,
                CheckContext, CheckClient, CheckConn, Settle, EndContext, Fire, Swap
  <2>2. CASE Asks(g) \/ Takes(g) \/ FireClose(g) \/ FireDone(g)
    BY <2>2 DEF Asks, DialNew, CallBridge, NativeClose, ClientNative, Takes, DialMade, Stopped,
                NativeClosed, ClientClosed, FireClose, FireDone
  <2> QED BY <1>3, <2>1, <2>2 DEF GoMoves
<1>4. (handle = 0 => handle' = 0) /\ shut \subseteq shut' /\ opened \subseteq opened'
  BY <1>2, <1>3, GoSteps DEF allVars
<1> QED BY <1>1, <1>4, IssuedLasts, ReadsOverLasts DEF GoInv, Lasts

-----------------------------------------------------------------------------
(* Who else moves. *)

(* A goroutine and what it holds are left alone, and so is its callback.   *)
Rests(h) ==
  /\ UNCHANGED <<at[h], call[h], on[h], after[h], verdict[h]>>
  /\ UNCHANGED <<pc[h], op[h], arg[h], res[h]>>
  /\ h \in ctxDone => h \in ctxDone'

Still(h) == Rests(h) /\ UNCHANGED <<pc[Callback[h]], op[Callback[h]]>>

LEMMA ThreadsStill ==
  ASSUME GoInv, NEW t \in Threads, Enter(t) \/ Works(t) \/ Taken(t)
  PROVE  \A u \in Threads \ {t} : UNCHANGED <<pc[u], op[u], arg[u], res[u]>>
<1>1. ThreadsOK
  BY DEF GoInv, ConnInv, TypeOK
<1>2. Taken(t) => \A u \in Threads \ {t} : UNCHANGED <<pc[u], op[u], arg[u], res[u]>>
  BY <1>1 DEF Taken, TakeResult, ThreadsOK
<1> QED BY <1>1, <1>2, OthersStay DEF Works

(* A step of a goroutine is one of its thread or its callback's in the     *)
(* bridge, or of none.                                                     *)
LEMMA ItsThread ==
  ASSUME GoInv, NEW g \in Users, GoMoves(g)
  PROVE  \/ UNCHANGED vars
         \/ \E t \in {g, Callback[g]} : Enter(t) \/ Taken(t)
BY Goroutines, ThinksAlone, AsksEnter, TakesTaken DEF GoMoves

LEMMA OthersStill ==
  ASSUME GoInv, NEW g \in Users, GoMoves(g), NEW h \in Users \ {g}
  PROVE  Still(h)
<1>0. GoTyped
  BY DEF GoInv, WsTypeOK, GoTyped
<1>1. /\ UNCHANGED <<at[h], call[h], on[h], after[h], verdict[h]>>
      /\ h \in ctxDone => h \in ctxDone'
  <2>1. CASE Thinks(g)
    <3>1. CASE Enters(g)
      BY <1>0, <3>1 DEF GoTyped, Enters, Dial, CloseClient, CloseConn, Operate, Begin
    <3>2. CASE Decides(g)
      BY <1>0, <3>2 DEF GoTyped, Decides, DialRefused, CheckContext, CheckClient, CheckConn,
                        Settle, Give, Judge, Go
    <3>3. CASE EndContext(g) \/ Fire(g)
      BY <1>0, <3>3 DEF GoTyped, EndContext, Fire, goVars
    <3> QED BY <2>1, <3>1, <3>2, <3>3 DEF Thinks
  <2>2. CASE Asks(g)
    BY <1>0, <2>2 DEF GoTyped, Asks, DialNew, CallBridge, NativeClose, ClientNative, Go
  <2>3. CASE Takes(g)
    BY <1>0, <2>3 DEF GoTyped, Takes, DialMade, Stopped, NativeClosed, ClientClosed, Watch,
                      Judge, Give, Stop
  <2>4. CASE FireClose(g) \/ FireDone(g)
    BY <1>0, <2>4 DEF GoTyped, FireClose, FireDone
  <2> QED BY <2>1, <2>2, <2>3, <2>4 DEF GoMoves
<1>2. UNCHANGED <<pc[h], op[h], arg[h], res[h], pc[Callback[h]], op[Callback[h]]>>
  <2>1. CASE UNCHANGED vars
    BY <2>1 DEF vars, callVars
  <2>2. ASSUME NEW t \in {g, Callback[g]}, Enter(t) \/ Taken(t)
        PROVE  UNCHANGED <<pc[h], op[h], arg[h], res[h], pc[Callback[h]], op[Callback[h]]>>
    <3>1. t \in Threads /\ h \in Threads \ {t} /\ Callback[h] \in Threads \ {t}
      BY Goroutines
    <3> QED BY <2>2, <3>1, ThreadsStill
  <2> QED BY <2>1, <2>2, ItsThread
<1> QED BY <1>1, <1>2 DEF Still, Rests

LEMMA BridgeStill ==
  ASSUME GoInv, UNCHANGED packageVars, NEW h \in Users,
         \/ \E t \in Threads \ {h, Callback[h]} : Works(t)
         \/ \E k \in Ids : Peer(k)
         \/ UNCHANGED vars
  PROVE  Still(h)
<1>1. UNCHANGED <<at[h], call[h], on[h], after[h], verdict[h], ctxDone>>
  BY DEF packageVars, goVars
<1>2. h \in Threads /\ Callback[h] \in Threads
  BY Goroutines
<1>3. ASSUME NEW t \in Threads \ {h, Callback[h]}, Works(t)
      PROVE  UNCHANGED <<pc[h], op[h], arg[h], res[h], pc[Callback[h]], op[Callback[h]]>>
  BY <1>2, <1>3, ThreadsStill
<1>4. ASSUME UNCHANGED vars \/ \E k \in Ids : Peer(k)
      PROVE  UNCHANGED <<pc[h], op[h], arg[h], res[h], pc[Callback[h]], op[Callback[h]]>>
  BY <1>4 DEF vars, callVars, Peer, PeerSends, PeerVanishes
<1> QED BY <1>1, <1>3, <1>4 DEF Still, Rests

LEMMA RestOK ==
  ASSUME GoInv, Lasts, NEW h \in Users, Rests(h)
  PROVE  /\ Its(h)' = Its(h)
         /\ StageOK(h)' /\ MadeOK(h)' /\ AnswerOK(h)'
<1>0. StageOK(h) /\ MadeOK(h) /\ AnswerOK(h)
  BY DEF GoInv
<1>1. Its(h)' = Its(h)
  BY DEF Rests, Its, JustMade
<1>2. StageOK(h)'
  BY <1>0 DEF StageOK, Rests, Lasts, Failed
<1>3. MadeOK(h)'
  BY <1>0 DEF MadeOK, Rests, Lasts
<1>4. at[h] \in {"stop", "ctx", "client", "conn", "settle"} => on[h] \in Ids
  BY <1>0, ConnsIssued DEF StageOK
<1>5. \A v : at[h] \in {"stop", "ctx", "client", "conn", "settle"} /\ Explained(h, v)
               => Explained(h, v)'
  BY <1>4 DEF Explained, Rests, Lasts
<1>6. AnswerOK(h)'
  BY <1>0, <1>5 DEF AnswerOK, Rests, Lasts
<1> QED BY <1>1, <1>2, <1>3, <1>6

LEMMA StillPlace ==
  ASSUME GoInv, NEW h \in Users, Still(h)
  PROVE  PlaceOK(h)'
BY DEF GoInv, PlaceOK, Still, Rests

-----------------------------------------------------------------------------
(* What the bridge reports. *)

(* Once a reader has been told of the end, no other holds the peer's Close.*)
LEMMA EndIsOver ==
  ASSUME ConnInv, NEW t \in Threads, Tasked(t), op[t] = "read", pc'[t] = "idle", res'[t] = "eof",
         NEW k, arg[t] = k
  PROVE  ReadsOver(k)'
<1>0. TypeOK /\ Journeys /\ Guarded
  BY DEF ConnInv
<1>1. pc[t] \in TaskPlaces /\ arg[t] \in Ids
  BY <1>0, TaskedWorks
<1>2. ReadLocked(t) \/ ReadNothing(t)
  <2>1. Abort(t) \/ ReadMessage(t) \/ ReadNothing(t) \/ ReadAcknowledge(t) \/ ReadLocked(t)
    BY <1>0, <1>1, Returns
    DEF Connected, ConnectStart, Dialled, SendRefused, Flushed, FlushFailed, Runs, Journeys,
        OnItsWay, TaskPlaces
  <2>2. ~Abort(t)
    BY <1>0 DEF Abort, Return, Answer, TypeOK, ThreadsOK
  <2>3. ~ReadMessage(t)
    BY <1>0 DEF ReadMessage, Return, Answer, TypeOK, ThreadsOK
  <2>4. ~ReadAcknowledge(t)
    BY <1>0 DEF ReadAcknowledge, Runs, Return, Answer, TypeOK, ThreadsOK, Journeys, HoldsWhatFits
  <2> QED BY <2>1, <2>2, <2>3, <2>4
<1>3. /\ First(readerQ[arg[t]], t)
      /\ sock[arg[t]] = "over" \/ arg[t] \in peerClosed
      /\ UNCHANGED <<sock, peerClosed>> /\ op'[t] = "none"
  <2>1. CASE ReadLocked(t)
    BY <1>0, <2>1 DEF ReadLocked, AfterPeerClose, Return, Answer, Goto, TypeOK, ThreadsOK,
                      socketVars, connVars, Runs, TaskPlaces
  <2>2. CASE ReadNothing(t)
    BY <1>0, <2>2 DEF ReadNothing, Return, Answer, TypeOK, ThreadsOK, connVars, Runs, Guarded,
                      HoldsItsLocks
  <2> QED BY <1>2, <2>1, <2>2
<1>4. ASSUME NEW u \in Threads \ {t}, op[u] = "read", arg[u] = arg[t] PROVE held[u] # "close"
  <2>1. pc[u] \in {"flag", "gate"} => First(readerQ[arg[t]], u)
    BY <1>0, <1>4 DEF Guarded, HoldsItsLocks
  <2>2. pc[u] \notin {"flag", "gate"}
    BY <1>3, <2>1 DEF First
  <2> QED BY <1>0, <1>4, <2>2 DEF Journeys, OnItsWay, HoldsWhatFits
<1>5. \A u \in Threads \ {t} : UNCHANGED <<op[u], arg[u], held[u]>>
  BY <1>0, OthersStay DEF TypeOK
<1> QED BY <1>3, <1>4, <1>5 DEF ReadsOver

LEMMA TaskAnswers ==
  ASSUME ConnInv, NEW t \in Threads, Tasked(t), pc'[t] = "idle"
  PROVE  /\ op[t] = "connect" =>
              /\ res'[t] \in ResultsOf("dial")
              /\ res'[t] = "data" => arg[t] \in readers'
         /\ op[t] = "read" => res'[t] \in ResultsOf("read") \/ arg[t] \notin readers
         /\ op[t] \in {"write", "control"} => res'[t] \in ResultsOf("write")
         /\ res'[t] = "closed" => IsCancelled(arg[t])
<1>0. TypeOK /\ Journeys
  BY DEF ConnInv
<1>1. pc[t] \in TaskPlaces /\ arg[t] \in Ids
  BY <1>0, TaskedWorks
<1>2. CASE Abort(t)
  BY <1>0, <1>2 DEF Abort, Return, Answer, TypeOK, ThreadsOK, ResultsOf
<1>3. CASE ConnectStart(t) \/ Dialled(t) \/ Connected(t)
  BY <1>0, <1>3 DEF ConnectStart, Dialled, Connected, Runs, Goto, Return, Answer, TypeOK,
                    ThreadsOK, ResultsOf
<1>4. CASE ReadLocked(t) \/ ReadMessage(t) \/ ReadNothing(t)
  BY <1>0, <1>4 DEF ReadLocked, ReadMessage, ReadNothing, Runs, Goto, Return, Answer, TypeOK,
                    ThreadsOK, ResultsOf
<1>5. CASE ReadAcknowledge(t)
  <2>1. held[t] \in {"ping", "close"} /\ op[t] = "read"
    BY <1>0, <1>5 DEF ReadAcknowledge, Runs, Journeys, HoldsWhatFits
  <2> QED BY <1>0, <1>5, <2>1 DEF ReadAcknowledge, Return, Answer, TypeOK, ThreadsOK, ResultsOf
<1>6. CASE SendRefused(t) \/ Flushed(t) \/ FlushFailed(t)
  <2>1. op[t] \in {"write", "control"}
    BY <1>0, <1>6 DEF SendRefused, Flushed, FlushFailed, Journeys, OnItsWay
  <2>2. \E r \in {"invalid_input", "closing", "websocket", "handle"} : Return(t, r)
    BY <1>0, <1>6 DEF SendRefused, Flushed, FlushFailed, WriteErrors, TypeOK, ThreadsOK
  <2> QED BY <1>0, <2>1, <2>2 DEF Return, Answer, TypeOK, ThreadsOK, ResultsOf
<1> QED BY <1>0, <1>2, <1>3, <1>4, <1>5, <1>6, Returns

(* A connection that is cancelled, or just out of the registry, was closed *)
(* by this package.                                                        *)
LEMMA CancelledWhy ==
  ASSUME GoInv, NEW k \in IssuedConns, IsCancelled(k) \/ k \notin conns
  PROVE  handle = 0 \/ k \in shut
<1>1. k \notin conns
  BY LiveOfInv DEF GoInv
<1>2. ConnOK(k)
  BY ConnsIssued DEF GoInv
<1> QED BY <1>1, <1>2 DEF ConnOK

-----------------------------------------------------------------------------
(* A goroutine whose thread is at work in the bridge. *)

(* Where the thread is. *)
LEMMA AtWork ==
  ASSUME GoInv, NEW g \in Users, Works(g)
  PROVE  \/ at[g] = "made" /\ Register(g) /\ arg[g] = TheClient
         \/ at[g] = "stop" /\ Tasked(g) /\ op[g] = Doing(call[g]) /\ arg[g] = on[g]
         \/ at[g] \in {"closed", "clientClosed"} /\ Cancel(g)
<1>0. g \in Threads /\ TypeOK /\ OnItsWay(g) /\ PlaceOK(g) /\ StageOK(g)
  BY Goroutines DEF GoInv, ConnInv, Journeys
<1>1. /\ Cancel(g) => pc[g] = "cancel"
      /\ Register(g) => pc[g] = "build"
      /\ Tasked(g) => pc[g] \in TaskPlaces
  BY <1>0, TaskedWorks DEF Cancel, Register
<1>2. TaskPlaces \intersect {"cancel", "build", "idle"} = {}
  BY DEF TaskPlaces
<1>3. pc[g] # "idle"
  BY <1>1, <1>2 DEF Works
<1>4. CASE at[g] = "made"
  <2>1. pc[g] = "build"
    BY <1>0, <1>3, <1>4 DEF PlaceOK, OnItsWay
  <2> QED BY <1>0, <1>1, <1>2, <1>3, <1>4, <2>1 DEF Works, PlaceOK
<1>5. CASE at[g] = "stop"
  <2>1. op[g] = Doing(call[g]) /\ arg[g] = on[g] /\ op[g] \in {"connect", "read", "write", "control"}
    BY <1>0, <1>3, <1>5 DEF PlaceOK, Doing
  <2>2. pc[g] \notin {"cancel", "build"}
    BY <1>0, <2>1 DEF OnItsWay
  <2> QED BY <1>1, <1>5, <2>1, <2>2 DEF Works
<1>6. CASE at[g] \in {"closed", "clientClosed"}
  <2>1. pc[g] = "cancel"
    BY <1>0, <1>3, <1>6 DEF PlaceOK, OnItsWay
  <2> QED BY <1>1, <1>2, <1>6, <2>1 DEF Works
<1> QED BY <1>0, <1>3, <1>4, <1>5, <1>6 DEF PlaceOK

(* A Dial is answered by create_connection. *)
LEMMA RegisterOK ==
  ASSUME GoInv, Lasts, UNCHANGED packageVars, NEW g \in Users, at[g] = "made", Register(g)
  PROVE  /\ StageOK(g)' /\ PlaceOK(g)' /\ MadeOK(g)' /\ AnswerOK(g)'
         /\ call[g] = "dial" /\ Its(g) = 0
         /\ \/ Its(g)' = 0 /\ conns' = conns /\ IssuedConns' = IssuedConns
            \/ /\ Its(g)' \notin IssuedConns
               /\ IssuedConns' = IssuedConns \union {Its(g)'} /\ conns' = conns \union {Its(g)'}
<1>0. g \in Threads /\ Callback[g] \in Threads /\ Callback[g] # g
  BY Goroutines
<1>1. StageOK(g) /\ PlaceOK(g) /\ pc[g] = "build" /\ TypeOK /\ RegistryInv
  BY DEF GoInv, Register, RegistryInv
<1>2. /\ arg[g] = TheClient
      /\ call[g] = "dial" /\ on[g] = 0 /\ after[g] = "unset" /\ Its(g) = 0
      /\ UNCHANGED <<at, call, on, after, verdict, ctxDone, handle, shut>>
  BY <1>1 DEF PlaceOK, StageOK, Its, JustMade, packageVars, goVars
<1>3. /\ pc' = [pc EXCEPT ![g] = "idle"]
      /\ \/ \E h \in Ids : /\ Issue(h) /\ owner' = [owner EXCEPT ![h] = TheClient]
                           /\ conns' = conns \union {h} /\ res'[g] = "handle" /\ arg'[g] = h
         \/ /\ arg'[g] = 0 /\ UNCHANGED <<conns, nextId, owner>>
            /\ res'[g] = "internal" \/ (res'[g] = "closed" /\ handle = 0)
  <2>1. handle = 0 \/ StillOpen(TheClient)
    BY DEF GoInv, ClientOK, StillOpen
  <2>2. \A h, r : Answer(g, h, r) =>
          pc' = [pc EXCEPT ![g] = "idle"] /\ res'[g] = r /\ arg'[g] = h
    BY <1>0, <1>1 DEF Answer, TypeOK, ThreadsOK
  <2>3. \/ \E h \in Ids : /\ Issue(h) /\ owner' = [owner EXCEPT ![h] = TheClient]
                           /\ conns' = conns \union {h} /\ Answer(g, h, "handle")
        \/ UNCHANGED <<conns, nextId, owner>> /\ Answer(g, 0, "internal")
        \/ ~StillOpen(TheClient) /\ UNCHANGED <<conns, nextId, owner>> /\ Answer(g, 0, "closed")
    BY <1>2 DEF Register
  <2> QED BY <2>1, <2>2, <2>3
<1>4. pc'[g] = "idle" /\ pc'[Callback[g]] = pc[Callback[g]] /\ op'[Callback[g]] = op[Callback[g]]
  BY <1>0, <1>1, <1>3 DEF Register, Answer, TypeOK, ThreadsOK
<1>5. ASSUME NEW h \in Ids, Issue(h), owner' = [owner EXCEPT ![h] = TheClient]
      PROVE  IssuedConns' = IssuedConns \union {h} /\ h \notin IssuedConns
  <2>1. Issued' = Issued \union {h} /\ h \notin Issued /\ owner \in [Ids -> 0 .. MaxId]
        /\ Issued \subseteq Ids
    BY <1>1, <1>5, IssuedGrows, IssuedType DEF TypeOK, RegistryOK
  <2> QED BY <2>1, <1>5 DEF IssuedConns, TheClient
<1>11. UNCHANGED <<nextId, owner>> => IssuedConns' = IssuedConns
  BY DEF IssuedConns, Issued
<1>6. StageOK(g)'
  BY <1>1, <1>2 DEF StageOK
<1>7. PlaceOK(g)'
  BY <1>1, <1>2, <1>4 DEF PlaceOK
<1>8. MadeOK(g)'
  BY <1>2, <1>3, <1>5 DEF MadeOK
<1>9. AnswerOK(g)'
  BY <1>2 DEF AnswerOK
<1>10. Its(g)' = IF res'[g] = "handle" THEN arg'[g] ELSE 0
  BY <1>2, <1>4 DEF Its, JustMade
<1>12. CASE /\ arg'[g] = 0 /\ UNCHANGED <<conns, nextId, owner>>
  BY <1>2, <1>6, <1>7, <1>8, <1>9, <1>10, <1>11, <1>12
<1>13. ASSUME NEW h \in Ids, Issue(h), owner' = [owner EXCEPT ![h] = TheClient],
              conns' = conns \union {h}, res'[g] = "handle", arg'[g] = h
       PROVE  /\ Its(g)' \notin IssuedConns
              /\ IssuedConns' = IssuedConns \union {Its(g)'} /\ conns' = conns \union {Its(g)'}
  BY <1>5, <1>10, <1>13
<1> QED BY <1>2, <1>3, <1>6, <1>7, <1>8, <1>9, <1>12, <1>13

(* A method's call goes on, or is answered.                                *)
LEMMA TaskOK ==
  ASSUME GoInv, Lasts, UNCHANGED packageVars, NEW g \in Users, at[g] = "stop", Tasked(g)
  PROVE  StageOK(g)' /\ PlaceOK(g)' /\ MadeOK(g)' /\ AnswerOK(g)' /\ Its(g)' = Its(g)
<1>0. g \in Threads /\ Callback[g] \in Threads \ {g}
  BY Goroutines
<1>1. StageOK(g) /\ PlaceOK(g) /\ AnswerOK(g) /\ pc[g] \in TaskPlaces /\ TypeOK /\ Works(g)
  BY <1>0, TaskedWorks DEF GoInv, RegistryInv, Works
<1>2. /\ op[g] = Doing(call[g]) /\ arg[g] = on[g] /\ on[g] \in IssuedConns /\ call[g] \in Calling
      /\ UNCHANGED <<at, call, on, after, verdict, ctxDone, handle, shut>>
  BY <1>0, <1>1, AtWork DEF StageOK, packageVars, goVars
<1>3. UNCHANGED <<pc[Callback[g]], op[Callback[g]]>>
  BY <1>0, <1>1, ThreadsStill
<1>4. StageOK(g)'
  BY <1>1, <1>2 DEF StageOK, Lasts
<1>5. PlaceOK(g)'
  BY <1>0, <1>1, <1>2, <1>3, TaskStays DEF PlaceOK
<1>6. MadeOK(g)' /\ Its(g)' = Its(g)
  BY <1>2 DEF MadeOK, Its, JustMade
<1>7. ASSUME pc'[g] = "idle" PROVE Explained(g, res[g])'
  <2>1. on[g] \in opened => on[g] \in readers
    BY <1>2, ConnsIssued DEF GoInv, ConnOK
  <2>2. call[g] # "dial" => on[g] \in opened
    BY <1>2, ConnsIssued DEF GoInv, OwnOK
  <2>3. res'[g] \in ResultsOf(call[g])
    BY <1>0, <1>2, <1>7, <2>1, <2>2, TaskAnswers DEF GoInv, Doing, Calling, ResultsOf
  <2>4. res'[g] = "closed" => handle = 0 \/ on[g] \in shut
    BY <1>0, <1>2, <1>7, TaskAnswers, CancelledWhy DEF GoInv
  <2>5. res'[g] = "eof" => call[g] = "read"
    BY <1>2, <2>3 DEF ResultsOf
  <2>6. ASSUME NEW k, k = on[g], res'[g] = "eof" PROVE ReadsOver(k)'
    BY <1>0, <1>2, <1>7, <2>5, <2>6, EndIsOver DEF GoInv, Doing
  <2>7. call[g] = "dial" /\ res'[g] = "data" => on[g] \in readers'
    BY <1>0, <1>2, <1>7, TaskAnswers DEF GoInv, Doing
  <2>8. on'[g] = on[g] /\ call'[g] = call[g]
    BY <1>2
  <2>9. res'[g] = "eof" => ReadsOver(on[g])'
    BY <2>6, <2>8
  <2> QED BY <1>2, <2>3, <2>4, <2>7, <2>9 DEF Explained
<1>8. AnswerOK(g)'
  BY <1>2, <1>7 DEF AnswerOK
<1> QED BY <1>4, <1>5, <1>6, <1>8

(* What a step does to the connections there are, and to whose they are:   *)
(* nothing, or a Dial's is made.                                           *)
SameConns ==
  conns' = conns /\ IssuedConns' = IssuedConns /\ \A h \in Users : Its(h)' = Its(h)

NewConn(g, k) ==
  /\ call[g] = "dial" /\ Its(g) = 0 /\ Its(g)' = k
  /\ k \in Ids /\ k \notin IssuedConns
  /\ IssuedConns' = IssuedConns \union {k} /\ conns' = conns \union {k}
  /\ \A h \in Users \ {g} : Its(h)' = Its(h)

LEMMA QuietConns ==
  ASSUME GoInv, (\E t \in Threads : Cancel(t) \/ Tasked(t)) \/ (\E k \in Ids : Peer(k)) \/ UNCHANGED vars
  PROVE  conns' = conns /\ IssuedConns' = IssuedConns
<1>1. UNCHANGED <<nextId, owner, conns>>
  <2>1. ASSUME NEW t \in Threads, Cancel(t) \/ Tasked(t) PROVE UNCHANGED <<nextId, owner, conns>>
    BY <2>1, TaskedWorks DEF GoInv, ConnInv, Cancel, registryVars
  <2>2. ASSUME UNCHANGED vars \/ \E k \in Ids : Peer(k) PROVE UNCHANGED <<nextId, owner, conns>>
    BY <2>2 DEF vars, registryVars, Peer, PeerSends, PeerVanishes
  <2> QED BY <2>1, <2>2
<1> QED BY <1>1 DEF IssuedConns, Issued

LEMMA CancelOK ==
  ASSUME GoInv, Lasts, UNCHANGED packageVars, NEW g \in Users,
         at[g] \in {"closed", "clientClosed"}, Cancel(g)
  PROVE  StageOK(g)' /\ PlaceOK(g)' /\ MadeOK(g)' /\ AnswerOK(g)' /\ Its(g)' = Its(g)
<1>0. g \in Threads /\ Callback[g] \in Threads \ {g}
  BY Goroutines
<1>1. StageOK(g) /\ PlaceOK(g) /\ TypeOK
      /\ UNCHANGED <<at, call, on, after, verdict, ctxDone, handle, shut>>
  BY DEF GoInv, RegistryInv, packageVars, goVars
<1>2. UNCHANGED <<pc[Callback[g]], op[Callback[g]]>>
  BY <1>0, ThreadsStill DEF Works
<1>3. pc'[g] = "idle"
  BY <1>0, <1>1 DEF Cancel, Answer, TypeOK, ThreadsOK
<1> QED BY <1>1, <1>2, <1>3 DEF StageOK, PlaceOK, MadeOK, AnswerOK, Its, JustMade, Lasts, Failed

LEMMA CallbackWorks ==
  ASSUME GoInv, Lasts, UNCHANGED packageVars, NEW g \in Users, Works(Callback[g])
  PROVE  Cancel(Callback[g]) /\ Rests(g) /\ PlaceOK(g)'
<1> DEFINE c == Callback[g]
<1>0. g \in Threads \ {c} /\ c \in Threads
  BY Goroutines
<1>1. PlaceOK(g) /\ TypeOK /\ OnItsWay(c)
      /\ UNCHANGED <<at, call, on, after, verdict, ctxDone, handle, shut>>
  BY <1>0 DEF GoInv, RegistryInv, packageVars, goVars, ConnInv, Journeys
<1>2. /\ Cancel(c) => pc[c] = "cancel"
      /\ Register(c) => pc[c] = "build"
      /\ Tasked(c) => pc[c] \in TaskPlaces
  BY <1>0, <1>1, TaskedWorks DEF Cancel, Register
<1>3. Cancel(c)
  BY <1>1, <1>2 DEF Works, PlaceOK, OnItsWay, TaskPlaces
<1>4. Rests(g)
  BY <1>0, <1>1, ThreadsStill DEF Rests
<1>5. pc'[c] = "idle"
  BY <1>0, <1>1, <1>3 DEF Cancel, Answer, TypeOK, ThreadsOK
<1> QED BY <1>1, <1>3, <1>4, <1>5 DEF PlaceOK, Rests

Fine(g) == StageOK(g) /\ PlaceOK(g) /\ MadeOK(g) /\ AnswerOK(g)

LEMMA StillFine ==
  ASSUME GoInv, Lasts, NEW h \in Users, Still(h)
  PROVE  Fine(h)' /\ Its(h)' = Its(h)
BY RestOK, StillPlace DEF Still, Fine

(* A step of the bridge by itself leaves every goroutine in order.         *)
LEMMA BridgeFine ==
  ASSUME GoInv, Lasts, UNCHANGED packageVars,
         \/ \E t \in Threads : Works(t)
         \/ \E k \in Ids : Peer(k)
         \/ UNCHANGED vars
  PROVE  /\ \A h \in Users : Fine(h)'
         /\ SameConns \/ \E g \in Users, k \in Ids : NewConn(g, k)
<1>1. CASE (\E k \in Ids : Peer(k)) \/ UNCHANGED vars
  <2>1. \A h \in Users : Still(h)
    BY <1>1, BridgeStill
  <2> QED BY <1>1, <2>1, StillFine, QuietConns DEF SameConns
<1>2. ASSUME NEW g \in Users, Works(Callback[g])
      PROVE  (\A h \in Users : Fine(h)') /\ SameConns
  <2>1. Callback[g] \in Threads /\ Cancel(Callback[g]) /\ Rests(g) /\ PlaceOK(g)'
    BY <1>2, CallbackWorks, Goroutines
  <2>2. Fine(g)' /\ Its(g)' = Its(g)
    BY <2>1, RestOK DEF Fine
  <2>3. ASSUME NEW h \in Users \ {g} PROVE Still(h)
    <3>1. Callback[g] \in Threads \ {h, Callback[h]}
      BY <2>1, Goroutines
    <3> QED BY <1>2, <3>1, BridgeStill
  <2> QED BY <2>1, <2>2, <2>3, StillFine, QuietConns DEF SameConns
<1>3. ASSUME NEW g \in Users, Works(g)
      PROVE  /\ \A h \in Users : Fine(h)'
             /\ SameConns \/ \E k \in Ids : NewConn(g, k)
  <2>1. ASSUME NEW h \in Users \ {g} PROVE Still(h)
    <3>1. g \in Threads \ {h, Callback[h]}
      BY Goroutines
    <3> QED BY <1>3, <3>1, BridgeStill
  <2>2. \A h \in Users \ {g} : Fine(h)' /\ Its(h)' = Its(h)
    BY <2>1, StillFine
  <2>3. CASE at[g] = "made" /\ Register(g)
    <3>1. Fine(g)'
      BY <2>3, RegisterOK DEF Fine
    <3>2. IssuedConns' \subseteq Ids
      <4>1. TypeOK' /\ (\E t \in Threads : Works(t))
        BY <1>3, Goroutines, TypeNext DEF GoInv, RegistryInv, Works, Next, Prompt, Network, Tasked
      <4>2. Issued' \subseteq Ids
        BY <4>1, WsAssumption DEF TypeOK, RegistryOK, Issued, Ids
      <4> QED BY <4>2 DEF IssuedConns
    <3> QED BY <2>2, <2>3, <3>1, <3>2, RegisterOK DEF SameConns, NewConn
  <2>4. CASE at[g] = "stop" /\ Tasked(g)
    BY <2>2, <2>4, TaskOK, QuietConns, Goroutines DEF SameConns, Fine
  <2>5. CASE at[g] \in {"closed", "clientClosed"} /\ Cancel(g)
    BY <2>2, <2>5, CancelOK, QuietConns, Goroutines DEF SameConns, Fine
  <2> QED BY <1>3, <2>3, <2>4, <2>5, AtWork
<1> QED BY <1>1, <1>2, <1>3, Goroutines

-----------------------------------------------------------------------------
(* A goroutine in the package's own code. *)

(* Its thread and its callback's are where they were.                      *)
LEMMA Unasked ==
  ASSUME GoInv, UNCHANGED vars, NEW g \in Users
  PROVE  /\ g \in Threads /\ Callback[g] \in Threads \ {g}
         /\ UNCHANGED <<pc[g], op[g], arg[g], res[g], pc[Callback[g]], op[Callback[g]]>>
         /\ IssuedConns' = IssuedConns /\ conns' = conns /\ readers' = readers
         /\ IssuedConns \subseteq Ids
         /\ \A k : ReadsOver(k)' <=> ReadsOver(k)
BY Goroutines, ConnsIssued
   DEF vars, callVars, registryVars, connVars, socketVars, IssuedConns, Issued, ReadsOver

LEMMA EntersFine ==
  ASSUME GoInv, Lasts, NEW g \in Users, Enters(g)
  PROVE  /\ Fine(g)' /\ Its(g)' = on'[g] /\ Its(g) = 0 /\ call[g] = "none" /\ on[g] = 0
         /\ on'[g] # 0 => on'[g] \in opened /\ call'[g] # "dial"
<1>0. StageOK(g) /\ PlaceOK(g) /\ GoTyped /\ UNCHANGED vars
  BY ThinksAlone DEF GoInv, Thinks, WsTypeOK, GoTyped
<1>1. at[g] = "idle" /\ call[g] = "none" /\ on[g] = 0 /\ after[g] = "unset" /\ verdict[g] = "none"
  BY <1>0 DEF Enters, Dial, CloseClient, CloseConn, Operate, Begin, StageOK
<1>2. pc[g] = "idle" /\ pc[Callback[g]] = "idle"
  BY <1>0, <1>1 DEF PlaceOK
<1>3. pc'[g] = "idle" /\ pc'[Callback[g]] = "idle"
  BY <1>0, <1>2, Unasked
<1>4. verdict'[g] = "none" /\
      \/ at'[g] = "new" /\ call'[g] = "dial" /\ on'[g] = 0 /\ after'[g] = "unset"
      \/ at'[g] = "clientNative" /\ call'[g] = "Close" /\ on'[g] = 0 /\ after'[g] = "unset" /\ handle' = 0
      \/ /\ at'[g] = "native" /\ call'[g] = "Close" /\ on'[g] \in opened /\ on'[g] \in shut'
         /\ after'[g] = "unset"
      \/ /\ at'[g] = "call" /\ call'[g] \in Methods /\ on'[g] \in opened /\ after'[g] = "armed"
  BY <1>0, <1>1 DEF Enters, Dial, CloseClient, CloseConn, Operate, Begin, Swap, GoTyped
<1>5. opened \subseteq IssuedConns' /\ 0 \notin opened
  BY ConnsIssued DEF Lasts
<1>6. Methods \subseteq Calling \ {"dial"}
  BY MethodsAssumption DEF Calling
<1>7. StageOK(g)'
  BY <1>4, <1>5, <1>6 DEF StageOK, Cancelling
<1>8. PlaceOK(g)' /\ MadeOK(g)' /\ AnswerOK(g)'
  BY <1>3, <1>4 DEF PlaceOK, MadeOK, AnswerOK
<1>9. Its(g)' = on'[g] /\ Its(g) = 0
  BY <1>1, <1>4 DEF Its, JustMade
<1>10. on'[g] # 0 => on'[g] \in opened /\ call'[g] # "dial"
  BY <1>4, <1>6
<1> QED BY <1>1, <1>7, <1>8, <1>9, <1>10 DEF Fine

LEMMA ChecksFine ==
  ASSUME GoInv, Lasts, NEW g \in Users, CheckContext(g) \/ CheckClient(g) \/ CheckConn(g)
  PROVE  /\ Fine(g)' /\ Its(g)' = Its(g) /\ call'[g] = call[g] /\ on'[g] = on[g] /\ after'[g] = after[g]
         /\ at[g] \in {"ctx", "client", "conn"} /\ at'[g] \in {"client", "conn", "settle"}
         /\ UNCHANGED <<handle, shut, opened, closer>>
<1>0. StageOK(g) /\ PlaceOK(g) /\ AnswerOK(g) /\ OwnOK(g) /\ GoTyped /\ UNCHANGED vars
  BY ThinksAlone DEF GoInv, Thinks, Decides, WsTypeOK, GoTyped
<1>1. /\ UNCHANGED <<handle, shut, opened, closer, ctxDone>>
      /\ call'[g] = call[g] /\ on'[g] = on[g] /\ after'[g] = after[g]
      /\ \/ /\ at[g] = "ctx" /\ at'[g] = "settle" /\ verdict'[g] = "ctx"
         \/ /\ at[g] = "ctx" /\ at'[g] = "client" /\ verdict'[g] = verdict[g] /\ g \notin ctxDone
         \/ /\ at[g] = "client" /\ at'[g] = "settle" /\ verdict'[g] = "ErrClientClosed" /\ handle = 0
         \/ /\ at[g] = "client" /\ at'[g] = "settle" /\ verdict'[g] = verdict[g] /\ handle # 0
            /\ call[g] = "dial"
         \/ /\ at[g] = "client" /\ at'[g] = "conn" /\ verdict'[g] = verdict[g] /\ handle # 0
            /\ call[g] # "dial"
         \/ /\ at[g] = "conn" /\ at'[g] = "settle" /\ verdict'[g] = "ErrConnClosed" /\ on[g] \in shut
         \/ /\ at[g] = "conn" /\ at'[g] = "settle" /\ verdict'[g] = verdict[g] /\ on[g] \notin shut
  BY <1>0 DEF CheckContext, CheckClient, CheckConn, Judge, Go, GoTyped
<1>2. /\ pc'[g] = pc[g] /\ pc'[Callback[g]] = pc[Callback[g]] /\ op'[Callback[g]] = op[Callback[g]]
      /\ IssuedConns' = IssuedConns /\ readers' = readers /\ \A k : ReadsOver(k)' <=> ReadsOver(k)
  BY <1>0, Unasked
<1>3. pc[g] = "idle"
  BY <1>0, <1>1 DEF PlaceOK
<1>4. StageOK(g)'
  BY <1>0, <1>1, <1>2 DEF StageOK, Cancelling
<1>5. PlaceOK(g)'
  BY <1>0, <1>1, <1>2, <1>3 DEF PlaceOK
<1>6. MadeOK(g)' /\ Its(g)' = Its(g)
  BY <1>1 DEF MadeOK, Its, JustMade
<1>7. \A v : Explained(g, v) => Explained(g, v)'
  BY <1>1, <1>2 DEF Explained
<1>8. at[g] = "client" /\ call[g] = "dial" => on[g] \notin shut
  BY <1>0 DEF StageOK, OwnOK, Its, JustMade, Cancelling
<1>9. AnswerOK(g)'
  <2>1. at'[g] \in {"client", "conn"} => Explained(g, verdict[g])'
    BY <1>0, <1>1, <1>7 DEF AnswerOK
  <2>2. at'[g] = "conn" /\ verdict'[g] = "closed" => on'[g] \in shut'
    BY <1>0, <1>1 DEF AnswerOK, Explained
  <2>3. at'[g] = "settle" =>
       \/ verdict'[g] = "ctx"
       \/ verdict'[g] = "ErrClientClosed" /\ handle' = 0
       \/ verdict'[g] = "ErrConnClosed" /\ on'[g] \in shut'
       \/ verdict'[g] # "closed" /\ Explained(g, verdict[g])'
    BY <1>0, <1>1, <1>7, <1>8 DEF AnswerOK, Explained
  <2> QED BY <1>1, <2>1, <2>2, <2>3 DEF AnswerOK
<1> QED BY <1>1, <1>4, <1>5, <1>6, <1>9 DEF Fine

(* A method that has returned leaves its goroutine as it found it. *)
LEMMA GiveFine ==
  ASSUME GoInv, NEW g \in Users, Give(g), pc'[g] = "idle", pc'[Callback[g]] = "idle"
  PROVE  Fine(g)' /\ Its(g)' = 0 /\ call'[g] = "none" /\ on'[g] = 0 /\ at'[g] = "idle"
<1>1. /\ at'[g] = "idle" /\ call'[g] = "none" /\ on'[g] = 0 /\ after'[g] = "unset"
      /\ verdict'[g] = "none"
  BY DEF Give, GoInv, WsTypeOK
<1> QED BY <1>1 DEF Fine, StageOK, PlaceOK, MadeOK, AnswerOK, Its, JustMade, Cancelling

LEMMA RefusedFine ==
  ASSUME GoInv, NEW g \in Users, DialRefused(g)
  PROVE  /\ Fine(g)' /\ Its(g)' = 0 /\ call'[g] = "none" /\ on'[g] = 0 /\ Its(g) = 0
         /\ UNCHANGED <<handle, shut, opened, closer>>
<1>1. UNCHANGED vars /\ at[g] = "refused" /\ Give(g) /\ StageOK(g) /\ PlaceOK(g)
      /\ UNCHANGED <<handle, shut, opened, closer>>
  BY DEF DialRefused, GoInv
<1>2. pc[g] = "idle" /\ pc[Callback[g]] = "idle" /\ Its(g) = 0
  BY <1>1 DEF StageOK, PlaceOK, Its, JustMade
<1>3. pc'[g] = "idle" /\ pc'[Callback[g]] = "idle"
  BY <1>1, <1>2, Unasked
<1> QED BY <1>1, <1>2, <1>3, GiveFine

(* The end of a method: its connection is delivered, stays as it is, or is *)
(* taken to be closed, for a reason that is fair to its readers.           *)
SettledAs(g) ==
  \/ /\ call[g] = "dial" /\ on[g] \in readers \ shut
     /\ opened' = opened \union {on[g]} /\ UNCHANGED <<shut, closer>>
     /\ at'[g] = "idle"
  \/ /\ call[g] = "dial" => on[g] \in shut
     /\ UNCHANGED <<shut, opened, closer>>
     /\ at'[g] = "idle"
  \/ /\ on[g] \notin shut /\ FairlyClosed(on[g], verdict[g])
     /\ shut' = shut \union {on[g]} /\ closer' = [closer EXCEPT ![on[g]] = verdict[g]]
     /\ UNCHANGED opened
     /\ at'[g] = "native" /\ call'[g] = call[g] /\ on'[g] = on[g]

LEMMA SettleFine ==
  ASSUME GoInv, NEW g \in Users, Settle(g)
  PROVE  /\ Fine(g)' /\ Its(g) = on[g] /\ Its(g)' = on'[g] /\ on[g] \in IssuedConns
         /\ at'[g] = "idle" => call'[g] = "none" /\ on'[g] = 0
         /\ SettledAs(g) /\ handle' = handle
<1>0. /\ StageOK(g) /\ PlaceOK(g) /\ AnswerOK(g) /\ OwnOK(g) /\ GoTyped
      /\ UNCHANGED vars /\ handle' = handle /\ at[g] = "settle"
  BY DEF GoInv, Settle, WsTypeOK, GoTyped
<1>1. /\ call[g] \in Calling /\ on[g] \in IssuedConns /\ after[g] \in {"stopped", "done"}
      /\ pc[g] = "idle" /\ pc[Callback[g]] = "idle" /\ Its(g) = on[g]
      /\ after[g] = "done" => verdict[g] = "ctx"
  BY <1>0 DEF StageOK, PlaceOK, Its, JustMade
<1>2. /\ pc'[g] = "idle" /\ pc'[Callback[g]] = "idle"
      /\ IssuedConns' = IssuedConns /\ on[g] \in Ids
  BY <1>0, <1>1, Unasked
<1>3. \/ verdict[g] = "ctx"
      \/ verdict[g] = "ErrClientClosed" /\ handle = 0
      \/ verdict[g] = "ErrConnClosed" /\ on[g] \in shut
      \/ verdict[g] # "closed" /\ Explained(g, verdict[g])
  BY <1>0 DEF AnswerOK
<1>4. /\ {"ctx", "ErrClientClosed", "ErrConnClosed", "invalid_input", "handshake", "websocket",
          "closed", "eof", "closing"} \subseteq Errors
      /\ Errors \intersect {"none", "handle", "data", "ping", "close"} = {}
  BY DEF Errors, Results
<1>5. CASE ~MustClose(g) /\ Give(g)
  <2>1. Fine(g)' /\ Its(g)' = 0 /\ on'[g] = 0 /\ call'[g] = "none" /\ at'[g] = "idle"
    BY <1>2, <1>5, GiveFine
  <2>2. UNCHANGED <<shut, closer>> /\
        opened' = IF call[g] = "dial" /\ ~Failed(verdict[g]) THEN opened \union {on[g]} ELSE opened
    BY <1>0, <1>5 DEF Settle
  <2>3. CASE call[g] = "dial"
    <3>1. ~Failed(verdict[g])
      BY <1>5, <2>3 DEF MustClose, Spares
    <3>2. Explained(g, verdict[g]) /\ verdict[g] # "ctx"
      BY <1>3, <1>4, <3>1 DEF Failed
    <3>3. verdict[g] = "data"
      BY <1>4, <2>3, <3>1, <3>2 DEF Failed, Explained, ResultsOf
    <3>4. on[g] \in readers /\ on[g] \notin shut
      BY <1>0, <1>1, <2>3, <3>2, <3>3 DEF Explained, OwnOK, Cancelling
    <3> QED BY <1>0, <1>1, <2>1, <2>2, <2>3, <3>1, <3>4 DEF SettledAs
  <2>4. CASE call[g] # "dial"
    BY <1>0, <1>1, <2>1, <2>2, <2>4 DEF SettledAs
  <2> QED BY <2>3, <2>4
<1>6. CASE MustClose(g) /\ on[g] \in shut
  <2>1. Give(g) /\ UNCHANGED opened /\ shut' = shut \union {on[g]}
        /\ closer' = [closer EXCEPT ![on[g]] = closer[on[g]]]
    BY <1>0, <1>6 DEF Settle, Swap
  <2>2. shut' = shut /\ closer' = closer
    BY <1>0, <1>6, <2>1 DEF GoTyped
  <2>3. Fine(g)' /\ Its(g)' = 0 /\ on'[g] = 0 /\ call'[g] = "none" /\ at'[g] = "idle"
    BY <1>2, <2>1, GiveFine
  <2> QED BY <1>0, <1>1, <1>6, <2>1, <2>2, <2>3 DEF SettledAs
<1>7. CASE MustClose(g) /\ on[g] \notin shut
  <2>1. /\ UNCHANGED opened /\ shut' = shut \union {on[g]}
        /\ closer' = [closer EXCEPT ![on[g]] = verdict[g]]
        /\ Go(g, "native") /\ UNCHANGED ctxDone
    BY <1>0, <1>7 DEF Settle, Swap
  <2>2. /\ at'[g] = "native" /\ call'[g] = call[g] /\ on'[g] = on[g] /\ after'[g] = after[g]
        /\ verdict'[g] = verdict[g]
    BY <1>0, <2>1 DEF Go, GoTyped
  <2>3. Failed(verdict[g]) /\ ~Spares(g)
    BY <1>7 DEF MustClose
  <2>4. FairlyClosed(on[g], verdict[g])
    <3>1. CASE Explained(g, verdict[g]) /\ verdict[g] # "closed" /\ call[g] = "dial"
      BY <1>0, <1>1, <3>1 DEF OwnOK, FairlyClosed
    <3>2. CASE Explained(g, verdict[g]) /\ verdict[g] # "closed" /\ call[g] = "read"
      <4>1. verdict[g] \in {"websocket", "eof"}
        BY <1>4, <2>3, <3>2 DEF Explained, ResultsOf, Failed
      <4> QED BY <3>2, <4>1 DEF Explained, FairlyClosed
    <3>3. CASE Explained(g, verdict[g]) /\ verdict[g] # "closed" /\ call[g] \in {"write", "ping", "close"}
      <4>1. verdict[g] = "websocket"
        BY <1>4, <2>3, <3>3 DEF Explained, ResultsOf, Failed, Spares
      <4> QED BY <4>1 DEF FairlyClosed
    <3> QED BY <1>1, <1>3, <1>7, <3>1, <3>2, <3>3 DEF FairlyClosed, Calling
  <2>5. StageOK(g)'
    BY <1>0, <1>1, <2>1, <2>2, <2>3 DEF StageOK, Failed, Cancelling
  <2>6. PlaceOK(g)' /\ MadeOK(g)' /\ AnswerOK(g)' /\ Its(g)' = on'[g]
    BY <1>2, <2>2 DEF PlaceOK, MadeOK, AnswerOK, Its, JustMade
  <2> QED BY <1>0, <1>1, <1>7, <2>1, <2>2, <2>4, <2>5, <2>6 DEF SettledAs, Fine
<1> QED BY <1>0, <1>5, <1>6, <1>7 DEF Settle

(* The context's callback takes the connection. *)
LEMMA FireFine ==
  ASSUME GoInv, NEW g \in Users, Fire(g)
  PROVE  /\ Fine(g)' /\ Its(g)' = on[g] /\ Its(g) = on[g] /\ on[g] \in IssuedConns
         /\ call'[g] = call[g] /\ on'[g] = on[g] /\ at'[g] = at[g] /\ after[g] = "armed"
         /\ after'[g] = IF on[g] \in shut THEN "done" ELSE "swapped"
         /\ shut' = shut \union {on[g]}
         /\ closer' = [closer EXCEPT ![on[g]] = IF on[g] \in shut THEN closer[on[g]] ELSE "ctx"]
         /\ UNCHANGED <<handle, opened>>
<1>0. StageOK(g) /\ PlaceOK(g) /\ MadeOK(g) /\ AnswerOK(g) /\ GoTyped /\ UNCHANGED vars
  BY ThinksAlone DEF GoInv, Thinks, WsTypeOK, GoTyped
<1>1. /\ after[g] = "armed" /\ g \in ctxDone
      /\ after'[g] = IF on[g] \in shut THEN "done" ELSE "swapped"
      /\ shut' = shut \union {on[g]}
      /\ closer' = [closer EXCEPT ![on[g]] = IF on[g] \in shut THEN closer[on[g]] ELSE "ctx"]
      /\ UNCHANGED <<handle, opened, at, call, on, verdict, ctxDone>>
  BY <1>0 DEF Fire, Swap, GoTyped
<1>2. at[g] \in {"call", "stop"}
  BY <1>0, <1>1 DEF StageOK, Cancelling, GoTyped, Positions
<1>3. /\ UNCHANGED <<pc[g], op[g], arg[g], res[g], pc[Callback[g]], op[Callback[g]]>>
      /\ IssuedConns' = IssuedConns /\ readers' = readers /\ \A k : ReadsOver(k)' <=> ReadsOver(k)
  BY <1>0, Unasked
<1>4. on[g] \in IssuedConns /\ Its(g) = on[g] /\ Its(g)' = on[g]
  BY <1>0, <1>1, <1>2 DEF StageOK, Its, JustMade
<1>5. StageOK(g)'
  BY <1>0, <1>1, <1>2, <1>3 DEF StageOK, Cancelling
<1>6. PlaceOK(g)' /\ MadeOK(g)'
  BY <1>0, <1>1, <1>2, <1>3 DEF PlaceOK, MadeOK
<1>7. Explained(g, res[g]) => Explained(g, res[g])'
  BY <1>1, <1>3 DEF Explained
<1>8. AnswerOK(g)'
  BY <1>0, <1>1, <1>2, <1>3, <1>7 DEF AnswerOK
<1> QED BY <1>1, <1>4, <1>5, <1>6, <1>8 DEF Fine

LEMMA EndContextFine ==
  ASSUME GoInv, Lasts, NEW g \in Users, EndContext(g)
  PROVE  Still(g) /\ UNCHANGED <<handle, shut, opened, closer>>
<1>1. UNCHANGED vars /\ UNCHANGED <<handle, shut, opened, closer, at, call, on, after, verdict>>
      /\ ctxDone' = ctxDone \union {g}
  BY DEF EndContext, goVars
<1> QED BY <1>1, Unasked DEF Still, Rests

(* What closing a connection in the bridge does. *)
LEMMA ClosingConn ==
  ASSUME GoInv, NEW t \in Threads, NEW k \in IssuedConns, CloseConnection(t, k)
  PROVE  /\ pc[t] = "idle"
         /\ \/ pc'[t] = "idle"
            \/ pc'[t] = "cancel" /\ op'[t] = "close_connection" /\ arg'[t] = k
         /\ conns' = conns \ {k} /\ IssuedConns' = IssuedConns /\ readers' = readers
BY DEF CloseConnection, Start, StartAndReturn, GoInv, RegistryInv, TypeOK, ThreadsOK, IssuedConns,
       Issued, connVars

LEMMA FireCloseFine ==
  ASSUME GoInv, Lasts, NEW g \in Users, FireClose(g)
  PROVE  /\ Fine(g)' /\ Its(g)' = Its(g) /\ on[g] \in shut /\ conns' = conns \ {on[g]}
         /\ IssuedConns' = IssuedConns
         /\ after[g] = "swapped" /\ after'[g] = "closing"
         /\ UNCHANGED <<handle, shut, opened, closer, at, call, on>>
<1>0. StageOK(g) /\ PlaceOK(g) /\ MadeOK(g) /\ AnswerOK(g) /\ GoTyped /\ Enter(Callback[g])
  BY AsksEnter DEF GoInv, WsTypeOK, GoTyped
<1>1. /\ after[g] = "swapped" /\ after'[g] = "closing" /\ CloseConnection(Callback[g], on[g])
      /\ UNCHANGED <<handle, shut, opened, closer, at, call, on, verdict, ctxDone>>
  BY <1>0 DEF FireClose, GoTyped
<1>2. at[g] \in {"call", "stop"} /\ on[g] \in shut /\ on[g] \in IssuedConns /\ g \in ctxDone
  BY <1>0, <1>1 DEF StageOK, Cancelling, GoTyped, Positions
<1>3. g \in Threads \ {Callback[g]} /\ Callback[g] \in Threads
  BY Goroutines
<1>4. UNCHANGED <<pc[g], op[g], arg[g], res[g]>>
  BY <1>0, <1>3, ThreadsStill
<1>5. /\ pc'[Callback[g]] = "idle" \/ op'[Callback[g]] = "close_connection"
      /\ conns' = conns \ {on[g]} /\ IssuedConns' = IssuedConns /\ readers' = readers
  BY <1>1, <1>2, <1>3, ClosingConn
<1>6. StageOK(g)'
  BY <1>0, <1>1, <1>2, <1>5 DEF StageOK, Cancelling
<1>7. PlaceOK(g)'
  BY <1>0, <1>1, <1>2, <1>4, <1>5 DEF PlaceOK
<1>8. MadeOK(g)' /\ Its(g)' = Its(g)
  BY <1>1, <1>2 DEF MadeOK, Its, JustMade
<1>9. on[g] \in Ids
  BY <1>2, ConnsIssued
<1>10. Explained(g, res[g]) => Explained(g, res[g])'
  BY <1>1, <1>4, <1>5, <1>9 DEF Explained, Lasts
<1>11. AnswerOK(g)'
  BY <1>0, <1>1, <1>2, <1>4, <1>10 DEF AnswerOK
<1> QED BY <1>1, <1>2, <1>5, <1>6, <1>7, <1>8, <1>11 DEF Fine

LEMMA FireDoneFine ==
  ASSUME GoInv, Lasts, NEW g \in Users, FireDone(g)
  PROVE  /\ Fine(g)' /\ Its(g)' = Its(g) /\ conns' = conns /\ IssuedConns' = IssuedConns
         /\ after[g] = "closing" /\ after'[g] = "done"
         /\ UNCHANGED <<handle, shut, opened, closer, at, call, on>>
<1>0. StageOK(g) /\ PlaceOK(g) /\ MadeOK(g) /\ AnswerOK(g) /\ GoTyped /\ Taken(Callback[g])
  BY TakesTaken DEF GoInv, WsTypeOK, GoTyped
<1>1. /\ after[g] = "closing" /\ after'[g] = "done" /\ TakeResult(Callback[g])
      /\ UNCHANGED <<handle, shut, opened, closer, at, call, on, verdict, ctxDone>>
  BY <1>0 DEF FireDone, GoTyped
<1>2. at[g] \in {"call", "stop"} /\ on[g] \in IssuedConns /\ on[g] \in shut /\ g \in ctxDone
  BY <1>0, <1>1 DEF StageOK, Cancelling, GoTyped, Positions
<1>3. g \in Threads \ {Callback[g]} /\ Callback[g] \in Threads
  BY Goroutines
<1>4. UNCHANGED <<pc[g], op[g], arg[g], res[g]>>
  BY <1>0, <1>3, ThreadsStill
<1>5. /\ pc'[Callback[g]] = "idle"
      /\ conns' = conns /\ IssuedConns' = IssuedConns
  BY <1>0 DEF Taken, TakeResult, registryVars, IssuedConns, Issued
<1>6. StageOK(g)'
  BY <1>0, <1>1, <1>2, <1>5 DEF StageOK, Cancelling
<1>7. PlaceOK(g)'
  BY <1>0, <1>1, <1>2, <1>4, <1>5 DEF PlaceOK
<1>8. MadeOK(g)' /\ Its(g)' = Its(g)
  BY <1>1, <1>2 DEF MadeOK, Its, JustMade
<1>9. on[g] \in Ids
  BY <1>2, ConnsIssued
<1>10. Explained(g, res[g]) => Explained(g, res[g])'
  BY <1>1, <1>4, <1>9 DEF Explained, Lasts
<1>11. AnswerOK(g)'
  BY <1>0, <1>1, <1>2, <1>4, <1>10 DEF AnswerOK
<1> QED BY <1>1, <1>5, <1>6, <1>7, <1>8, <1>11 DEF Fine

-----------------------------------------------------------------------------
(* A goroutine that calls into the bridge, or takes its answer. *)

LEMMA DialNewFine ==
  ASSUME GoInv, Lasts, NEW g \in Users, DialNew(g)
  PROVE  /\ Fine(g)' /\ call[g] = "dial" /\ Its(g)' = 0
         /\ conns' = conns /\ IssuedConns' = IssuedConns
         /\ at[g] = "new" /\ at'[g] = "made"
         /\ UNCHANGED <<handle, shut, opened, closer, call, on, after>>
<1>0. StageOK(g) /\ PlaceOK(g) /\ GoTyped /\ ThreadsOK /\ Enter(g) /\ ClientOK
  BY AsksEnter DEF GoInv, WsTypeOK, GoTyped, Asks, TypeOK
<1>1. /\ at[g] = "new" /\ at'[g] = "made" /\ CreateConnection(g, TheClient)
      /\ UNCHANGED <<handle, shut, opened, closer, call, on, after, verdict, ctxDone>>
  BY <1>0 DEF DialNew, Go, GoTyped
<1>2. g \in Threads /\ Callback[g] \in Threads \ {g}
  BY Goroutines
<1>3. UNCHANGED <<pc[Callback[g]], op[Callback[g]]>>
  BY <1>0, <1>2, ThreadsStill
<1>4. call[g] = "dial" /\ on[g] = 0 /\ after[g] = "unset"
  BY <1>0, <1>1 DEF StageOK
<1>5. /\ \/ pc'[g] = "build" /\ op'[g] = "create_connection" /\ arg'[g] = TheClient
         \/ pc'[g] = "idle" /\ res'[g] = "closed" /\ arg'[g] = 0 /\ handle = 0
      /\ conns' = conns /\ IssuedConns' = IssuedConns
  BY <1>0, <1>1, <1>2 DEF CreateConnection, Start, StartAndReturn, ThreadsOK, ClientOK,
                          registryVars, IssuedConns, Issued
<1>6. StageOK(g)'
  BY <1>1, <1>4 DEF StageOK, Cancelling
<1>7. PlaceOK(g)'
  BY <1>0, <1>1, <1>3, <1>5 DEF PlaceOK
<1>8. MadeOK(g)' /\ AnswerOK(g)'
  BY <1>1, <1>5 DEF MadeOK, AnswerOK
<1>9. Its(g)' = 0
  BY <1>1, <1>4, <1>5 DEF Its, JustMade
<1> QED BY <1>1, <1>4, <1>5, <1>6, <1>7, <1>8, <1>9 DEF Fine

LEMMA CallFine ==
  ASSUME GoInv, Lasts, NEW g \in Users, CallBridge(g)
  PROVE  /\ Fine(g)' /\ Its(g)' = Its(g)
         /\ conns' = conns /\ IssuedConns' = IssuedConns
         /\ at[g] = "call" /\ at'[g] = "stop"
         /\ UNCHANGED <<handle, shut, opened, closer, call, on, after>>
<1>0. StageOK(g) /\ PlaceOK(g) /\ GoTyped /\ ThreadsOK /\ Enter(g)
  BY AsksEnter DEF GoInv, WsTypeOK, GoTyped, Asks, TypeOK
<1>1. /\ at[g] = "call" /\ at'[g] = "stop"
      /\ UNCHANGED <<handle, shut, opened, closer, call, on, after, verdict, ctxDone>>
  BY <1>0 DEF CallBridge, Go, GoTyped
<1>2. g \in Threads /\ Callback[g] \in Threads \ {g}
  BY Goroutines
<1>3. UNCHANGED <<pc[Callback[g]], op[Callback[g]]>>
  BY <1>0, <1>2, ThreadsStill
<1>4. call[g] \in Calling /\ on[g] \in IssuedConns
  BY <1>0, <1>1 DEF StageOK
<1>5. \E m : Lookup(g, Doing(call[g]), on[g], m)
  BY <1>4 DEF CallBridge, Connect, Read, Write, Control, Doing
<1>6. /\ \/ op'[g] = Doing(call[g]) /\ arg'[g] = on[g] /\ pc'[g] # "idle"
         \/ pc'[g] = "idle" /\ res'[g] = "closed" /\ on[g] \notin conns
      /\ conns' = conns /\ IssuedConns' = IssuedConns
  BY <1>0, <1>2, <1>5 DEF Lookup, Start, StartAndReturn, ThreadsOK, registryVars, IssuedConns, Issued
<1>7. StageOK(g)'
  BY <1>0, <1>1, <1>4, <1>6 DEF StageOK, Cancelling
<1>8. PlaceOK(g)'
  BY <1>0, <1>1, <1>3, <1>6 DEF PlaceOK
<1>9. MadeOK(g)' /\ Its(g)' = Its(g)
  BY <1>1 DEF MadeOK, Its, JustMade
<1>10. on[g] \notin conns => handle = 0 \/ on[g] \in shut
  BY <1>4, CancelledWhy
<1>11. "closed" \in ResultsOf(call[g])
  BY DEF ResultsOf
<1>12. AnswerOK(g)'
  <2>1. ASSUME pc'[g] = "idle" PROVE Explained(g, res[g])'
    BY <1>1, <1>6, <1>10, <1>11, <2>1 DEF Explained
  <2> QED BY <1>1, <2>1 DEF AnswerOK
<1> QED BY <1>1, <1>6, <1>7, <1>8, <1>9, <1>12 DEF Fine

LEMMA NativeFine ==
  ASSUME GoInv, Lasts, NEW g \in Users, NativeClose(g)
  PROVE  /\ Fine(g)' /\ Its(g)' = Its(g) /\ Its(g) = on[g]
         /\ on[g] \in shut /\ conns' = conns \ {on[g]} /\ IssuedConns' = IssuedConns
         /\ at[g] = "native" /\ at'[g] = "closed" /\ after[g] # "swapped"
         /\ UNCHANGED <<handle, shut, opened, closer, call, on, after>>
<1>0. StageOK(g) /\ PlaceOK(g) /\ GoTyped /\ Enter(g)
  BY AsksEnter DEF GoInv, WsTypeOK, GoTyped, Asks
<1>1. /\ at[g] = "native" /\ at'[g] = "closed" /\ CloseConnection(g, on[g])
      /\ UNCHANGED <<handle, shut, opened, closer, call, on, after, verdict, ctxDone>>
  BY <1>0 DEF NativeClose, Go, GoTyped
<1>2. g \in Threads /\ Callback[g] \in Threads \ {g}
  BY Goroutines
<1>3. UNCHANGED <<pc[Callback[g]], op[Callback[g]]>>
  BY <1>0, <1>2, ThreadsStill
<1>4. on[g] \in shut /\ on[g] \in IssuedConns /\ after[g] # "swapped"
  BY <1>0, <1>1, ConnsIssued DEF StageOK
<1>5. /\ pc'[g] = "idle" \/ op'[g] = "close_connection"
      /\ conns' = conns \ {on[g]} /\ IssuedConns' = IssuedConns
  BY <1>1, <1>2, <1>4, ClosingConn
<1>6. StageOK(g)'
  BY <1>0, <1>1, <1>5 DEF StageOK, Failed
<1>7. PlaceOK(g)'
  BY <1>0, <1>1, <1>3, <1>5 DEF PlaceOK
<1>8. MadeOK(g)' /\ AnswerOK(g)' /\ Its(g)' = Its(g) /\ Its(g) = on[g]
  BY <1>1 DEF MadeOK, AnswerOK, Its, JustMade
<1> QED BY <1>1, <1>4, <1>5, <1>6, <1>7, <1>8 DEF Fine

LEMMA ClientNativeFine ==
  ASSUME GoInv, Lasts, NEW g \in Users, ClientNative(g)
  PROVE  /\ Fine(g)' /\ handle = 0 /\ on[g] = 0 /\ call[g] = "Close"
         /\ conns' \subseteq conns /\ IssuedConns' = IssuedConns
         /\ at[g] = "clientNative" /\ at'[g] = "clientClosed" /\ after[g] = "unset"
         /\ UNCHANGED <<handle, shut, opened, closer, call, on, after>>
<1>0. StageOK(g) /\ PlaceOK(g) /\ GoTyped /\ ThreadsOK /\ Enter(g)
  BY AsksEnter DEF GoInv, WsTypeOK, GoTyped, Asks, TypeOK
<1>1. /\ at[g] = "clientNative" /\ at'[g] = "clientClosed" /\ Close(g, TheClient)
      /\ UNCHANGED <<handle, shut, opened, closer, call, on, after, verdict, ctxDone>>
  BY <1>0 DEF ClientNative, Go, GoTyped
<1>2. g \in Threads /\ Callback[g] \in Threads \ {g}
  BY Goroutines
<1>3. UNCHANGED <<pc[Callback[g]], op[Callback[g]]>>
  BY <1>0, <1>2, ThreadsStill
<1>4. /\ pc'[g] = "idle" \/ op'[g] = "close"
      /\ conns' \subseteq conns /\ IssuedConns' = IssuedConns
  BY <1>0, <1>1, <1>2 DEF Close, Start, StartAndReturn, ThreadsOK, IssuedConns, Issued
<1>5. handle = 0 /\ on[g] = 0 /\ call[g] = "Close" /\ after[g] = "unset"
  BY <1>0, <1>1 DEF StageOK
<1>6. StageOK(g)'
  BY <1>0, <1>1, <1>5 DEF StageOK, Cancelling
<1>7. PlaceOK(g)'
  BY <1>0, <1>1, <1>3, <1>4 DEF PlaceOK
<1>8. MadeOK(g)' /\ AnswerOK(g)'
  BY <1>1 DEF MadeOK, AnswerOK
<1> QED BY <1>1, <1>4, <1>5, <1>6, <1>7, <1>8 DEF Fine

LEMMA MadeFine ==
  ASSUME GoInv, Lasts, NEW g \in Users, DialMade(g)
  PROVE  /\ Fine(g)' /\ Its(g)' = Its(g) /\ call[g] = "dial"
         /\ conns' = conns /\ IssuedConns' = IssuedConns
         /\ at[g] = "made" /\ after[g] = "unset" /\ at'[g] \in {"call", "refused"} /\ on[g] = 0
         /\ UNCHANGED <<handle, shut, opened, closer, call>>
<1>0. /\ StageOK(g) /\ PlaceOK(g) /\ MadeOK(g) /\ OwnOK(g) /\ GoTyped /\ ThreadsOK
      /\ Taken(g)
  BY TakesTaken DEF GoInv, WsTypeOK, GoTyped, Takes, TypeOK
<1>1. g \in Threads /\ Callback[g] \in Threads \ {g}
  BY Goroutines
<1>2. at[g] = "made" /\ pc[g] = "idle" /\ call[g] = "dial" /\ on[g] = 0 /\ after[g] = "unset"
  BY <1>0 DEF DialMade, Back, StageOK
<1>3. /\ UNCHANGED <<pc, op, conns>> /\ arg'[g] = 0 /\ IssuedConns' = IssuedConns
      /\ pc[Callback[g]] = "idle"
  BY <1>0, <1>1, <1>2 DEF Taken, TakeResult, ThreadsOK, registryVars, IssuedConns, Issued, PlaceOK
<1>4. UNCHANGED <<handle, shut, opened, closer, call, ctxDone>>
  BY DEF DialMade, Judge
<1>5. CASE res[g] = "handle"
  <2>1. at'[g] = "call" /\ on'[g] = arg[g] /\ after'[g] = "armed" /\ arg[g] \in IssuedConns
    BY <1>0, <1>2, <1>5 DEF DialMade, Watch, GoTyped, MadeOK
  <2>2. StageOK(g)'
    BY <1>2, <1>3, <1>4, <2>1 DEF StageOK, Cancelling, Calling
  <2>3. PlaceOK(g)' /\ MadeOK(g)' /\ AnswerOK(g)'
    BY <1>2, <1>3, <2>1 DEF PlaceOK, MadeOK, AnswerOK
  <2>4. Its(g)' = Its(g)
    BY <1>2, <1>5, <2>1 DEF Its, JustMade
  <2> QED BY <1>2, <1>3, <1>4, <2>1, <2>2, <2>3, <2>4 DEF Fine
<1>6. CASE res[g] # "handle"
  <2>1. at'[g] = "refused" /\ UNCHANGED <<on, after>>
        /\ verdict'[g] = IF handle = 0 THEN "ErrClientClosed" ELSE res[g]
    BY <1>0, <1>6 DEF DialMade, Judge, GoTyped
  <2>2. res[g] \in {"closed", "internal"} /\ (res[g] = "closed" => handle = 0)
    BY <1>0, <1>2, <1>6 DEF MadeOK
  <2>3. StageOK(g)'
    BY <1>2, <1>4, <2>1 DEF StageOK, Cancelling
  <2>4. PlaceOK(g)' /\ MadeOK(g)' /\ AnswerOK(g)'
    BY <1>2, <1>3, <2>1, <2>2 DEF PlaceOK, MadeOK, AnswerOK
  <2>5. Its(g)' = Its(g)
    BY <1>2, <1>6, <2>1 DEF Its, JustMade
  <2> QED BY <1>2, <1>3, <1>4, <2>1, <2>3, <2>4, <2>5 DEF Fine
<1> QED BY <1>5, <1>6

LEMMA StoppedFine ==
  ASSUME GoInv, Lasts, NEW g \in Users, Stopped(g)
  PROVE  /\ Fine(g)' /\ Its(g)' = Its(g) /\ Its(g) = on[g]
         /\ conns' = conns /\ IssuedConns' = IssuedConns
         /\ at[g] = "stop" /\ at'[g] = "ctx"
         /\ \/ after[g] = "armed" /\ after'[g] = "stopped"
            \/ after[g] = "done" /\ after'[g] = "done"
         /\ UNCHANGED <<handle, shut, opened, closer, call, on>>
<1>0. StageOK(g) /\ PlaceOK(g) /\ AnswerOK(g) /\ GoTyped /\ ThreadsOK /\ Taken(g)
  BY TakesTaken DEF GoInv, WsTypeOK, GoTyped, Takes, TypeOK
<1>1. g \in Threads /\ Callback[g] \in Threads \ {g}
  BY Goroutines
<1>2. /\ at[g] = "stop" /\ at'[g] = "ctx" /\ verdict'[g] = res[g]
      /\ \/ after[g] = "armed" /\ after'[g] = "stopped"
         \/ after[g] = "done" /\ after'[g] = "done"
      /\ UNCHANGED <<handle, shut, opened, closer, call, on, ctxDone>>
  BY <1>0 DEF Stopped, Stop, Back, GoTyped
<1>3. /\ UNCHANGED <<pc, op, conns, readers>> /\ IssuedConns' = IssuedConns
      /\ pc[g] = "idle" /\ pc[Callback[g]] = "idle"
  BY <1>0, <1>1, <1>2 DEF Taken, TakeResult, registryVars, connVars, IssuedConns, Issued, PlaceOK
<1>4. on[g] \in IssuedConns /\ call[g] \in Calling
  BY <1>0, <1>2 DEF StageOK
<1>5. StageOK(g)'
  BY <1>0, <1>2, <1>3, <1>4 DEF StageOK, Cancelling
<1>6. PlaceOK(g)' /\ MadeOK(g)' /\ Its(g)' = Its(g) /\ Its(g) = on[g]
  BY <1>2, <1>3 DEF PlaceOK, MadeOK, Its, JustMade
<1>7. on[g] \in Ids
  BY <1>4, ConnsIssued
<1>8. Explained(g, res[g])
  BY <1>0, <1>2, <1>3 DEF AnswerOK
<1>9. Explained(g, verdict[g])'
  BY <1>2, <1>3, <1>7, <1>8 DEF Explained, Lasts
<1>10. AnswerOK(g)'
  BY <1>2, <1>9 DEF AnswerOK
<1> QED BY <1>2, <1>3, <1>5, <1>6, <1>10 DEF Fine

LEMMA ClosedFine ==
  ASSUME GoInv, NEW g \in Users, NativeClosed(g) \/ ClientClosed(g)
  PROVE  /\ Fine(g)' /\ Its(g)' = 0 /\ Its(g) = on[g]
         /\ on[g] # 0 => on[g] \in shut
         /\ call'[g] = "none" /\ on'[g] = 0
         /\ conns' = conns /\ IssuedConns' = IssuedConns
         /\ at[g] \in {"closed", "clientClosed"} /\ after[g] # "swapped"
         /\ UNCHANGED <<handle, shut, opened, closer>>
<1>0. StageOK(g) /\ PlaceOK(g) /\ Taken(g) /\ Give(g)
  BY TakesTaken DEF GoInv, Takes, NativeClosed, ClientClosed
<1>1. at[g] \in {"closed", "clientClosed"} /\ UNCHANGED <<handle, shut, opened, closer>>
  BY DEF NativeClosed, ClientClosed, Back
<1>2. /\ UNCHANGED <<pc, conns>> /\ IssuedConns' = IssuedConns
      /\ pc[g] = "idle" /\ pc[Callback[g]] = "idle"
  BY <1>0, <1>1 DEF Taken, TakeResult, registryVars, IssuedConns, Issued, PlaceOK, StageOK
<1>3. Its(g) = on[g] /\ (on[g] # 0 => on[g] \in shut) /\ after[g] # "swapped"
  BY <1>0, <1>1 DEF StageOK, Its, JustMade
<1>4. Fine(g)' /\ Its(g)' = 0 /\ call'[g] = "none" /\ on'[g] = 0
  BY <1>0, <1>2, GiveFine
<1> QED BY <1>1, <1>2, <1>3, <1>4

-----------------------------------------------------------------------------
(* Whose the connections are. *)

(* What a step of one goroutine may do to them. *)
OwnMoves(g) ==
  /\ call'[g] = "dial" =>
       \/ Its(g)' = 0
       \/ /\ call[g] = "dial" /\ Its(g)' = Its(g) /\ Its(g) \notin opened'
          /\ Its(g) \in shut' => at'[g] \in {"native", "closed"} \/ after'[g] \in Cancelling
  /\ call'[g] # "dial" /\ on'[g] # 0 => on'[g] \in opened'

(* Nobody forgets a connection it has to deliver or to close. *)
StillOwned(g) ==
  /\ call[g] = "dial" /\ Its(g) # 0 =>
       Its(g) \in shut' \union opened' \/ (call'[g] = "dial" /\ Its(g)' = Its(g))
  /\ at[g] = "native" \/ after[g] = "swapped" =>
       \/ on[g] \notin conns'
       \/ on'[g] = on[g] /\ (at'[g] = "native" \/ after'[g] = "swapped")

Unregisters ==
  /\ IssuedConns' = IssuedConns /\ conns' \subseteq conns
  /\ handle = 0 \/ conns \ conns' \subseteq shut

Delivers(g) ==
  \/ UNCHANGED opened
  \/ /\ opened' = opened \union {on[g]} /\ shut' = shut
     /\ call[g] = "dial" /\ Its(g) = on[g] /\ on[g] \in (IssuedConns \intersect readers) \ shut

Shuts(g) ==
  \/ UNCHANGED <<shut, closer>>
  \/ \E j \in IssuedConns \ shut :
       /\ shut' = shut \union {j} /\ opened' = opened
       /\ j \in opened \/ (call[g] = "dial" /\ Its(g) = j)
       /\ FairlyClosed(j, closer'[j]) /\ \A k \in Ids \ {j} : closer'[k] = closer[k]
       /\ on'[g] = j /\ (at'[g] = "native" \/ after'[g] = "swapped")

Tidy(g) == OwnMoves(g) /\ StillOwned(g) /\ Unregisters /\ Delivers(g) /\ Shuts(g)

LEMMA EntersTidy ==
  ASSUME GoInv, Lasts, NEW g \in Users, Enters(g)
  PROVE  Fine(g)' /\ Tidy(g)
<1>0. StageOK(g) /\ GoTyped /\ UNCHANGED vars
  BY ThinksAlone DEF GoInv, Thinks, WsTypeOK, GoTyped
<1>1. /\ Fine(g)' /\ Its(g)' = on'[g] /\ Its(g) = 0 /\ call[g] = "none" /\ on[g] = 0
      /\ on'[g] # 0 => on'[g] \in opened /\ call'[g] # "dial"
  BY EntersFine
<1>2. at[g] = "idle" /\ after[g] = "unset" /\ opened' = opened
  BY <1>0 DEF Enters, Dial, CloseClient, CloseConn, Operate, Begin, StageOK
<1>3. IssuedConns' = IssuedConns /\ conns' = conns
  BY <1>0, Unasked
<1>4. Shuts(g)
  <2>1. CASE \E k \in Ids : CloseConn(g, k)
    <3>1. PICK k \in Ids : CloseConn(g, k)
      BY <2>1
    <3>2. /\ k \in opened \ shut /\ shut' = shut \union {k}
          /\ closer' = [closer EXCEPT ![k] = "Close"] /\ on'[g] = k /\ at'[g] = "native"
      BY <1>0, <3>1 DEF CloseConn, Begin, Swap, GoTyped
    <3>3. k \in IssuedConns \ shut
      BY <3>2, ConnsIssued
    <3>4. closer'[k] = "Close" /\ \A i \in Ids \ {k} : closer'[i] = closer[i]
      BY <1>0, <3>2 DEF GoTyped
    <3> QED BY <1>2, <3>2, <3>3, <3>4 DEF Shuts, FairlyClosed
  <2>2. CASE ~\E k \in Ids : CloseConn(g, k)
    BY <2>2 DEF Enters, Dial, CloseClient, Operate, Shuts
  <2> QED BY <2>1, <2>2
<1>5. OwnMoves(g)
  BY <1>1, <1>2 DEF OwnMoves
<1>6. StillOwned(g) /\ Unregisters /\ Delivers(g)
  BY <1>1, <1>2, <1>3 DEF StillOwned, Unregisters, Delivers
<1> QED BY <1>1, <1>4, <1>5, <1>6 DEF Tidy

(* Steps that change nothing but where the goroutine is. *)
LEMMA QuietTidy ==
  ASSUME GoInv, NEW g \in Users,
         conns' = conns, IssuedConns' = IssuedConns,
         UNCHANGED <<shut, opened, closer>>, call'[g] = call[g], Its(g)' = Its(g),
         on'[g] = on[g] \/ call[g] = "dial",
         at[g] = "native" => at'[g] = "native",
         at[g] \in {"native", "closed"} => at'[g] \in {"native", "closed"},
         after[g] \in Cancelling => after'[g] \in Cancelling,
         after[g] = "swapped" => after'[g] = "swapped",
         at[g] = "native" \/ after[g] = "swapped" => on'[g] = on[g]
  PROVE  Tidy(g)
<1>1. OwnOK(g)
  BY DEF GoInv
<1>2. OwnMoves(g)
  BY <1>1 DEF OwnMoves, OwnOK
<1>3. StillOwned(g)
  BY DEF StillOwned
<1> QED BY <1>2, <1>3 DEF Tidy, Unregisters, Delivers, Shuts

LEMMA QuietMovesTidy ==
  ASSUME GoInv, Lasts, NEW g \in Users,
         \/ CheckContext(g) \/ CheckClient(g) \/ CheckConn(g) \/ EndContext(g)
         \/ DialNew(g) \/ DialMade(g) \/ CallBridge(g) \/ Stopped(g) \/ FireDone(g)
  PROVE  Fine(g)' /\ Tidy(g)
<1>0. StageOK(g)
  BY DEF GoInv
<1>1. CASE CheckContext(g) \/ CheckClient(g) \/ CheckConn(g)
  <2>1. IssuedConns' = IssuedConns /\ conns' = conns
    BY <1>1, ThinksAlone, Unasked DEF Thinks, Decides
  <2> QED BY <1>1, <2>1, ChecksFine, QuietTidy
<1>2. CASE EndContext(g)
  <2>1. Still(g) /\ UNCHANGED <<handle, shut, opened, closer>> /\ UNCHANGED vars
    BY <1>2, EndContextFine DEF EndContext
  <2>2. IssuedConns' = IssuedConns /\ conns' = conns
    BY <2>1, Unasked
  <2>3. Fine(g)' /\ Its(g)' = Its(g)
    BY <2>1, StillFine
  <2> QED BY <2>1, <2>2, <2>3, QuietTidy DEF Still, Rests
<1>3. CASE DialNew(g)
  <2>1. Its(g) = 0
    BY <1>0, <1>3 DEF DialNew, StageOK, Its, JustMade
  <2> QED BY <1>3, <2>1, DialNewFine, QuietTidy
<1>4. CASE DialMade(g)
  <2>1. /\ at[g] = "made" /\ after[g] = "unset" /\ call[g] = "dial"
        /\ Fine(g)' /\ Its(g)' = Its(g) /\ conns' = conns /\ IssuedConns' = IssuedConns
        /\ UNCHANGED <<shut, opened, closer, call>>
    BY <1>4, MadeFine
  <2> QED BY <2>1, QuietTidy DEF Cancelling
<1>5. CASE CallBridge(g)
  BY <1>5, CallFine, QuietTidy
<1>6. CASE Stopped(g)
  <2>1. /\ at[g] = "stop" /\ (after[g] \in Cancelling => after'[g] = after[g]) /\ after[g] # "swapped"
        /\ Fine(g)' /\ Its(g)' = Its(g) /\ conns' = conns /\ IssuedConns' = IssuedConns
        /\ UNCHANGED <<shut, opened, closer, call, on>>
    BY <1>6, StoppedFine DEF Cancelling
  <2> QED BY <2>1, QuietTidy
<1>7. CASE FireDone(g)
  BY <1>7, FireDoneFine, QuietTidy DEF Cancelling
<1> QED BY <1>1, <1>2, <1>3, <1>4, <1>5, <1>6, <1>7

LEMMA ClosingTidy ==
  ASSUME GoInv, Lasts, NEW g \in Users,
         NativeClose(g) \/ FireClose(g) \/ ClientNative(g) \/ NativeClosed(g) \/ ClientClosed(g)
         \/ DialRefused(g)
  PROVE  Fine(g)' /\ Tidy(g)
<1>0. OwnOK(g) /\ StageOK(g)
  BY DEF GoInv
<1>1. CASE NativeClose(g)
  BY <1>0, <1>1, NativeFine
  DEF Tidy, OwnMoves, OwnOK, StillOwned, Unregisters, Delivers, Shuts
<1>2. CASE FireClose(g)
  BY <1>0, <1>2, FireCloseFine
  DEF Tidy, OwnMoves, OwnOK, StillOwned, Unregisters, Delivers, Shuts, Cancelling
<1>3. CASE ClientNative(g)
  BY <1>3, ClientNativeFine
  DEF Tidy, OwnMoves, StillOwned, Unregisters, Delivers, Shuts
<1>4. CASE NativeClosed(g) \/ ClientClosed(g)
  BY <1>4, ClosedFine
  DEF Tidy, OwnMoves, StillOwned, Unregisters, Delivers, Shuts
<1>5. CASE DialRefused(g)
  <2>1. UNCHANGED vars /\ at[g] = "refused" /\ after[g] # "swapped"
    BY <1>0, <1>5 DEF DialRefused, StageOK
  <2>2. IssuedConns' = IssuedConns /\ conns' = conns
    BY <2>1, Unasked
  <2> QED BY <1>5, <2>1, <2>2, RefusedFine
          DEF Tidy, OwnMoves, StillOwned, Unregisters, Delivers, Shuts
<1> QED BY <1>1, <1>2, <1>3, <1>4, <1>5

LEMMA FireTidy ==
  ASSUME GoInv, NEW g \in Users, Fire(g)
  PROVE  Fine(g)' /\ Tidy(g)
<1>0. OwnOK(g) /\ StageOK(g) /\ GoTyped /\ UNCHANGED vars
  BY ThinksAlone DEF GoInv, Thinks, WsTypeOK, GoTyped
<1>1. /\ Fine(g)' /\ Its(g)' = on[g] /\ Its(g) = on[g] /\ on[g] \in IssuedConns
      /\ call'[g] = call[g] /\ on'[g] = on[g] /\ at'[g] = at[g] /\ after[g] = "armed"
      /\ after'[g] = IF on[g] \in shut THEN "done" ELSE "swapped"
      /\ shut' = shut \union {on[g]}
      /\ closer' = [closer EXCEPT ![on[g]] = IF on[g] \in shut THEN closer[on[g]] ELSE "ctx"]
      /\ UNCHANGED <<handle, opened>>
  BY FireFine
<1>2. IssuedConns' = IssuedConns /\ conns' = conns /\ on[g] \in Ids /\ on[g] # 0 /\ at[g] # "native"
  BY <1>0, <1>1, Unasked, ConnsIssued DEF StageOK
<1>3. OwnMoves(g) /\ StillOwned(g) /\ Unregisters /\ Delivers(g)
  BY <1>0, <1>1, <1>2 DEF OwnMoves, OwnOK, StillOwned, Unregisters, Delivers, Cancelling
<1>4. Shuts(g)
  <2>1. CASE on[g] \in shut
    <3>1. shut' = shut /\ closer' = closer
      BY <1>0, <1>1, <2>1 DEF GoTyped
    <3> QED BY <3>1 DEF Shuts
  <2>2. CASE on[g] \notin shut
    <3>1. closer'[on[g]] = "ctx" /\ \A k \in Ids \ {on[g]} : closer'[k] = closer[k]
      BY <1>0, <1>1, <1>2, <2>2 DEF GoTyped
    <3>2. on[g] \in opened \/ call[g] = "dial"
      BY <1>0, <1>2 DEF OwnOK
    <3> QED BY <1>1, <2>2, <3>1, <3>2 DEF Shuts, FairlyClosed
  <2> QED BY <2>1, <2>2
<1> QED BY <1>1, <1>3, <1>4 DEF Tidy

LEMMA SettleTidy ==
  ASSUME GoInv, NEW g \in Users, Settle(g)
  PROVE  Fine(g)' /\ Tidy(g)
<1>0. OwnOK(g) /\ StageOK(g) /\ GoTyped /\ UNCHANGED vars /\ at[g] = "settle"
  BY DEF GoInv, Settle, WsTypeOK, GoTyped
<1>1. /\ Fine(g)' /\ Its(g) = on[g] /\ Its(g)' = on'[g] /\ on[g] \in IssuedConns
      /\ at'[g] = "idle" => call'[g] = "none" /\ on'[g] = 0
      /\ SettledAs(g)
  BY SettleFine
<1>2. IssuedConns' = IssuedConns /\ conns' = conns /\ on[g] \in Ids /\ on[g] # 0
      /\ after[g] # "swapped"
  BY <1>0, <1>1, Unasked, ConnsIssued DEF StageOK
<1>3. OwnMoves(g) /\ StillOwned(g)
  BY <1>0, <1>1, <1>2 DEF SettledAs, OwnMoves, OwnOK, StillOwned
<1>4. Unregisters /\ Delivers(g)
  BY <1>0, <1>1, <1>2 DEF SettledAs, Unregisters, Delivers
<1>5. Shuts(g)
  <2>1. CASE UNCHANGED <<shut, closer>>
    BY <2>1 DEF Shuts
  <2>2. CASE /\ on[g] \notin shut /\ FairlyClosed(on[g], verdict[g])
             /\ shut' = shut \union {on[g]} /\ closer' = [closer EXCEPT ![on[g]] = verdict[g]]
             /\ UNCHANGED opened
             /\ at'[g] = "native" /\ call'[g] = call[g] /\ on'[g] = on[g]
    <3>1. closer'[on[g]] = verdict[g] /\ \A k \in Ids \ {on[g]} : closer'[k] = closer[k]
      BY <1>0, <1>2, <2>2 DEF GoTyped
    <3>2. on[g] \in opened \/ call[g] = "dial"
      BY <1>0, <1>2 DEF OwnOK
    <3>3. on[g] \in IssuedConns \ shut /\ FairlyClosed(on[g], closer'[on[g]])
      BY <1>1, <2>2, <3>1
    <3> QED BY <1>1, <2>2, <3>1, <3>2, <3>3 DEF Shuts
  <2> QED BY <1>1, <2>1, <2>2 DEF SettledAs
<1> QED BY <1>1, <1>3, <1>4, <1>5 DEF Tidy

LEMMA ItsIssued ==
  ASSUME GoInv, NEW h \in Users
  PROVE  Its(h) \in IssuedConns \union {0}
<1>1. StageOK(h) /\ MadeOK(h) /\ at[h] \in Positions
  BY DEF GoInv, WsTypeOK
<1>2. on[h] \in IssuedConns \union {0}
  BY <1>1, ConnsIssued DEF StageOK, Positions
<1>3. JustMade(h) => arg[h] \in IssuedConns
  BY <1>1 DEF JustMade, MadeOK
<1> QED BY <1>2, <1>3 DEF Its

LEMMA TidyOwns ==
  ASSUME GoInv, Lasts, NEW g \in Users, Tidy(g), \A h \in Users \ {g} : Still(h)
  PROVE  \A h \in Users : OwnOK(h)'
<1>0. \A h \in Users : OwnOK(h)
  BY DEF GoInv
<1>1. \A h \in Users \ {g} :
        Its(h)' = Its(h) /\ UNCHANGED <<at[h], call[h], on[h], after[h]>>
  BY RestOK DEF Still, Rests
<1>2. \A h \in Users : call'[h] = "dial" /\ Its(h)' # 0 => call[h] = "dial" /\ Its(h)' = Its(h)
  BY <1>1 DEF Tidy, OwnMoves
<1>3. 0 \notin opened' /\ 0 \notin shut'
  BY ConnsIssued DEF Tidy, Delivers, Shuts
<1>4. ASSUME NEW h \in Users \ {g}, call[h] = "dial" PROVE Its(h) \notin opened'
  <2>1. Its(h) \notin opened
    BY <1>0, <1>4 DEF OwnOK
  <2>2. opened' = opened \/ (opened' = opened \union {Its(g)} /\ call[g] = "dial" /\ Its(g) # 0)
    BY ConnsIssued DEF Tidy, Delivers
  <2> QED BY <1>0, <1>4, <2>1, <2>2 DEF OwnOK
<1>5. ASSUME NEW h \in Users \ {g}, call[h] = "dial", Its(h) \in shut' PROVE Its(h) \in shut
  <2>1. SUFFICES ASSUME NEW j \in IssuedConns \ shut, shut' = shut \union {j},
                        j \in opened \/ (call[g] = "dial" /\ Its(g) = j)
                 PROVE  Its(h) # j
    BY <1>5 DEF Tidy, Shuts
  <2>2. Its(h) \notin opened
    BY <1>0, <1>5 DEF OwnOK
  <2>3. j # 0
    BY ConnsIssued
  <2> QED BY <1>0, <1>5, <2>1, <2>2, <2>3 DEF OwnOK
<1>6. ASSUME NEW h \in Users, call'[h] = "dial"
      PROVE  /\ Its(h)' \notin opened'
             /\ Its(h)' \in shut' => at'[h] \in {"native", "closed"} \/ after'[h] \in Cancelling
  <2>1. CASE h = g
    BY <1>3, <1>6, <2>1 DEF Tidy, OwnMoves
  <2>2. CASE h # g
    BY <1>0, <1>1, <1>4, <1>5, <1>6, <2>2 DEF OwnOK
  <2> QED BY <2>1, <2>2
<1>7. ASSUME NEW h \in Users, NEW i \in Users, call'[h] = "dial", call'[i] = "dial",
             Its(i)' = Its(h)', Its(h)' # 0
      PROVE  i = h
  BY <1>0, <1>2, <1>7 DEF OwnOK
<1>8. ASSUME NEW h \in Users, call'[h] # "dial", on'[h] # 0 PROVE on'[h] \in opened'
  <2>1. CASE h = g
    BY <1>8, <2>1 DEF Tidy, OwnMoves
  <2>2. CASE h # g
    BY <1>0, <1>1, <1>8, <2>2 DEF OwnOK, Lasts
  <2> QED BY <2>1, <2>2
<1> QED BY <1>6, <1>7, <1>8 DEF OwnOK

LEMMA TidyConns ==
  ASSUME GoInv, Lasts, NEW g \in Users, Tidy(g), \A h \in Users \ {g} : Still(h), NEW k \in Ids
  PROVE  ConnOK(k)'
<1>0. ConnOK(k) /\ k # 0
  <2>1. k # 0
    BY DEF Ids
  <2> QED BY <2>1 DEF GoInv
<1>1. \A h \in Users \ {g} :
        Its(h)' = Its(h) /\ UNCHANGED <<at[h], call[h], on[h], after[h]>>
  BY RestOK DEF Still, Rests
<1>2. k \in shut' \union opened' => k \in IssuedConns'
  BY <1>0 DEF ConnOK, Lasts, Tidy, Delivers, Shuts
<1>3. k \in opened' => k \in readers'
  BY <1>0 DEF ConnOK, Lasts, Tidy, Delivers
<1>4. k \in IssuedConns' \ conns' => handle' = 0 \/ k \in shut'
  BY <1>0 DEF ConnOK, Lasts, Tidy, Unregisters
<1>5. ASSUME k \in conns', k \in shut' PROVE BeingClosed(k)'
  <2>1. CASE k \in shut
    <3>1. PICK h \in Users : on[h] = k /\ (at[h] = "native" \/ after[h] = "swapped")
      BY <1>0, <1>5, <2>1 DEF ConnOK, BeingClosed, Tidy, Unregisters
    <3>2. on'[h] = k /\ (at'[h] = "native" \/ after'[h] = "swapped")
      BY <1>1, <1>5, <3>1 DEF Tidy, StillOwned
    <3> QED BY <3>2 DEF BeingClosed
  <2>2. CASE k \notin shut
    <3>1. on'[g] = k /\ (at'[g] = "native" \/ after'[g] = "swapped")
      BY <1>5, <2>2 DEF Tidy, Shuts
    <3> QED BY <3>1 DEF BeingClosed
  <2> QED BY <2>1, <2>2
<1>6. ASSUME k \in conns', k \notin shut' PROVE k \in opened' \/ InDial(k)'
  <2>1. k \in opened \/ InDial(k)
    BY <1>0, <1>6 DEF ConnOK, Lasts, Tidy, Unregisters
  <2>2. ASSUME NEW h \in Users, call[h] = "dial", Its(h) = k, k \notin opened'
        PROVE  call'[h] = "dial" /\ Its(h)' = k
    BY <1>0, <1>1, <1>6, <2>2 DEF Tidy, StillOwned
  <2> QED BY <2>1, <2>2 DEF InDial, Lasts
<1>7. ASSUME k \in shut' PROVE FairlyClosed(k, closer[k])'
  <2>1. \A v : FairlyClosed(k, v) /\ (k \notin opened => k \notin opened') => FairlyClosed(k, v)'
    BY DEF FairlyClosed, Lasts
  <2>2. CASE k \in shut
    <3>1. FairlyClosed(k, closer[k]) /\ closer'[k] = closer[k]
      BY <1>0, <2>2 DEF ConnOK, Tidy, Shuts
    <3>2. k \notin opened => k \notin opened'
      BY <2>2 DEF Tidy, Delivers
    <3>3. FairlyClosed(k, closer[k])'
      BY <2>1, <3>1, <3>2 DEF FairlyClosed
    <3> QED BY <3>3
  <2>3. CASE k \notin shut
    <3>1. FairlyClosed(k, closer'[k]) /\ opened' = opened
      BY <1>7, <2>3 DEF Tidy, Shuts
    <3> QED BY <2>1, <3>1 DEF FairlyClosed
  <2> QED BY <2>2, <2>3
<1> QED BY <1>2, <1>3, <1>4, <1>5, <1>6, <1>7 DEF ConnOK

(* The bridge by itself makes connections for Dials only, and takes none.  *)
LEMMA BridgeOwns ==
  ASSUME GoInv, Lasts, UNCHANGED packageVars, SameConns \/ \E g \in Users, k \in Ids : NewConn(g, k)
  PROVE  (\A h \in Users : OwnOK(h)') /\ (\A k \in Ids : ConnOK(k)')
<1>0. /\ \A h \in Users : OwnOK(h)
      /\ \A k \in Ids : ConnOK(k)
      /\ UNCHANGED <<at, call, on, after, shut, opened, closer, handle>>
  BY DEF GoInv, packageVars, goVars
<1>1. \A k : BeingClosed(k) => BeingClosed(k)'
  BY <1>0 DEF BeingClosed
<1>2. ASSUME NEW k \in Ids, k \in shut PROVE FairlyClosed(k, closer[k])'
  BY <1>0, <1>2 DEF ConnOK, FairlyClosed, Lasts
<1>3. CASE SameConns
  <2>1. \A h \in Users : OwnOK(h)'
    BY <1>0, <1>3 DEF SameConns, OwnOK
  <2>2. \A k \in Ids : InDial(k) => InDial(k)'
    BY <1>0, <1>3 DEF SameConns, InDial
  <2>3. ASSUME NEW k \in Ids PROVE ConnOK(k)'
    BY <1>0, <1>1, <1>2, <1>3, <2>2 DEF SameConns, ConnOK, Lasts
  <2> QED BY <2>1, <2>3
<1>4. ASSUME NEW g \in Users, NEW k \in Ids, NewConn(g, k)
      PROVE  (\A h \in Users : OwnOK(h)') /\ (\A i \in Ids : ConnOK(i)')
  <2>1. k \notin shut /\ k \notin opened /\ k # 0 /\ \A h \in Users : Its(h) # k
    <3>1. k \notin shut /\ k \notin opened
      BY <1>4, ConnsIssued DEF NewConn
    <3>2. k # 0
      BY DEF Ids
    <3>3. \A h \in Users : Its(h) # k
      BY <1>4, <3>2, ItsIssued DEF NewConn
    <3> QED BY <3>1, <3>2, <3>3
  <2>2. /\ call[g] = "dial" /\ Its(g) = 0 /\ Its(g)' = k
        /\ \A h \in Users \ {g} : Its(h)' = Its(h)
        /\ IssuedConns' = IssuedConns \union {k} /\ conns' = conns \union {k} /\ k \notin IssuedConns
    BY <1>4 DEF NewConn
  <2>3. ASSUME NEW h \in Users PROVE OwnOK(h)'
    <3>1. CASE h = g
      BY <1>0, <2>1, <2>2, <3>1 DEF OwnOK
    <3>2. CASE h # g
      BY <1>0, <2>1, <2>2, <3>2 DEF OwnOK
    <3> QED BY <3>1, <3>2
  <2>4. ASSUME NEW i \in Ids PROVE ConnOK(i)'
    <3>1. InDial(i) \/ i = k => InDial(i)'
      <4>1. i # 0
        BY DEF Ids
      <4> QED BY <1>0, <2>2, <4>1 DEF InDial
    <3>2. CASE i = k
      BY <1>0, <2>1, <2>2, <3>1, <3>2 DEF ConnOK
    <3>3. CASE i # k
      BY <1>0, <1>1, <1>2, <2>2, <3>1, <3>3 DEF ConnOK, Lasts
    <3> QED BY <3>2, <3>3
  <2> QED BY <2>3, <2>4
<1> QED BY <1>3, <1>4

(* Nothing takes the client from the registry before its handle is taken.  *)
LEMMA ClientKept ==
  ASSUME GoInv, Lasts, [GoNext]_allVars
  PROVE  ClientOK'
<1>0. ClientOK
  BY DEF GoInv
<1>1. ASSUME NEW g \in Users, GoMoves(g), handle # 0 PROVE clients \subseteq clients'
  <2>1. UNCHANGED vars => clients' = clients
    BY DEF vars, registryVars
  <2>2. ~ClientNative(g)
    BY <1>1 DEF GoInv, ClientNative, StageOK
  <2>3. CASE Asks(g) \/ FireClose(g)
    BY <2>2, <2>3 DEF Asks, DialNew, CallBridge, NativeClose, FireClose, CreateConnection, Connect,
                      Read, Write, Control, Lookup, CloseConnection, registryVars
  <2>4. CASE Takes(g) \/ FireDone(g)
    BY <2>4, TakesTaken DEF Taken, TakeResult, registryVars
  <2> QED BY <1>1, <2>1, <2>3, <2>4, ThinksAlone DEF GoMoves
<1>2. ASSUME NEW t \in Threads, Works(t) PROVE clients' = clients
  BY <1>2, TaskedWorks DEF GoInv, ConnInv, Works, Cancel, Register, registryVars
<1>3. ASSUME UNCHANGED vars \/ \E k \in Ids : Peer(k) PROVE clients' = clients
  BY <1>3 DEF vars, registryVars, Peer, PeerSends, PeerVanishes
<1>4. handle # 0 => clients \subseteq clients'
  BY <1>1, <1>2, <1>3, GoSteps DEF allVars
<1> QED BY <1>0, <1>4 DEF ClientOK, Lasts

LEMMA GoInvInit == GoInit => GoInv
<1> SUFFICES ASSUME GoInit PROVE GoInv
  OBVIOUS
<1>0. WsTypeOK /\ TypeOK /\ TheClient \in Ids /\ Fragments \in Nat \ {0}
  BY GoTypeInit, NewClientAssumption, WsAssumption DEF WsTypeOK
<1>1. Issued = {1} /\ IssuedConns = {} /\ IssuedClients = {1} /\ TheClient = 1
  <2>1. Issued = {1}
    BY DEF GoInit, TheClient, Issued
  <2> QED BY <1>0, <2>1 DEF GoInit, NothingYet, IssuedConns, IssuedClients, TheClient
<1>2. RegistryInv
  BY <1>0, <1>1
  DEF GoInit, NothingYet, RegistryInv, KindsDisjoint, OwnersAreClients, ConnsHaveClient,
      CancelledIsClosed, WorkersKnowHandles, ClosedIsCancelled, TaskPlaces
<1>3. ConnInv
  BY <1>0, ConnNothingYet DEF GoInit
<1>4. \A g \in Users : StageOK(g) /\ PlaceOK(g) /\ MadeOK(g) /\ OwnOK(g) /\ AnswerOK(g)
  BY Goroutines DEF GoInit, NothingYet, StageOK, PlaceOK, MadeOK, OwnOK, AnswerOK, Its, JustMade, Cancelling
<1>5. \A k \in Ids : ConnOK(k)
  BY <1>1 DEF GoInit, NothingYet, ConnOK
<1>6. ClientOK
  BY <1>1 DEF GoInit, ClientOK
<1> QED BY <1>0, <1>2, <1>3, <1>4, <1>5, <1>6 DEF GoInv

LEMMA GoInvNext ==
  ASSUME GoInv, [GoNext]_allVars
  PROVE  GoInv'
<1>1. Lasts /\ RegistryInv' /\ ConnInv' /\ WsTypeOK' /\ ClientOK'
  BY Lasting, BridgeKept, TypeKept, ClientKept
<1>2. ASSUME NEW g \in Users, GoMoves(g)
      PROVE  (\A h \in Users : Fine(h)' /\ OwnOK(h)') /\ (\A k \in Ids : ConnOK(k)')
  <2>1. Fine(g)' /\ Tidy(g)
    BY <1>1, <1>2, EntersTidy, QuietMovesTidy, ClosingTidy, FireTidy, SettleTidy
    DEF GoMoves, Thinks, Decides, Asks, Takes
  <2>2. \A h \in Users \ {g} : Still(h)
    BY <1>2, OthersStill
  <2>3. \A h \in Users : Fine(h)'
    BY <1>1, <2>1, <2>2, StillFine
  <2> QED BY <1>1, <2>1, <2>2, <2>3, TidyOwns, TidyConns
<1>3. ASSUME \/ \E t \in Threads : Works(t) /\ UNCHANGED packageVars
             \/ \E k \in Ids : Peer(k) /\ UNCHANGED packageVars
             \/ UNCHANGED allVars
      PROVE  (\A h \in Users : Fine(h)' /\ OwnOK(h)') /\ (\A k \in Ids : ConnOK(k)')
  <2>1. /\ UNCHANGED packageVars
        /\ (\E t \in Threads : Works(t)) \/ (\E k \in Ids : Peer(k)) \/ UNCHANGED vars
    BY <1>3 DEF allVars
  <2> QED BY <1>1, <2>1, BridgeFine, BridgeOwns
<1>4. (\A h \in Users : Fine(h)' /\ OwnOK(h)') /\ (\A k \in Ids : ConnOK(k)')
  BY <1>2, <1>3, GoSteps
<1> QED BY <1>1, <1>4 DEF GoInv, Fine

-----------------------------------------------------------------------------
(* The theorems. *)

(* Whatever the goroutines, their contexts, the network and the peer do:   *)
(* the package knows of every connection in the registry whose it is, and  *)
(* what it is told by the bridge has the causes it will look for.          *)
THEOREM GoCorrect == GoSpec => []GoInv
BY GoInvInit, GoInvNext, PTL DEF GoSpec

(* The package's own state stays in its types, on top of the bridge's.     *)
THEOREM WsTypeCorrect == GoSpec => []WsTypeOK
<1>1. GoInv => WsTypeOK
  BY DEF GoInv
<1> QED BY <1>1, GoCorrect, PTL

(* The package only ever makes the bridge's own steps and takes their      *)
(* results, so that what is proved of the bridge's registry and of its     *)
(* connections, whole messages among it, holds underneath the package.     *)
THEOREM GoUsesBridge ==
  GoSpec => [](RegistryInv /\ ConnInv) /\ [][Next \/ \E t \in Threads : Taken(t)]_vars
<1>1. GoInv => RegistryInv /\ ConnInv
  BY DEF GoInv
<1>2. ASSUME GoInv, [GoNext]_allVars PROVE [Next \/ \E t \in Threads : Taken(t)]_vars
  BY <1>2, BridgeMoves
<1> QED BY <1>1, <1>2, GoCorrect, PTL DEF GoSpec

(* "closed" is never what a method returns: it always finds its context    *)
(* ended, or the client or the connection closed, when it looks.           *)
THEOREM CausesNotSymptomsAlways == GoSpec => []CausesNotSymptoms
<1>1. ASSUME GoInv, NEW g \in Users, at[g] \in {"settle", "refused"} PROVE verdict[g] # "closed"
  BY <1>1 DEF GoInv, AnswerOK, MadeOK
<1>2. GoInv => CausesNotSymptoms
  BY <1>1 DEF CausesNotSymptoms
<1> QED BY <1>2, GoCorrect, PTL

(* No way a Dial, a call or a Close can end leaves a connection in the     *)
(* registry that nobody uses and nobody is about to close.                 *)
THEOREM NothingLeaksAlways == GoSpec => []NothingLeaks
<1>1. ASSUME GoInv, NEW k \in conns PROVE k \in opened \ shut \/ BeingDialled(k) \/ BeingClosed(k)
  <2>1. k \in Ids
    BY <1>1, ConnsIssued
  <2>2. k \in opened \ shut \/ InDial(k) \/ BeingClosed(k)
    BY <1>1, <2>1 DEF GoInv, ConnOK
  <2>3. ASSUME NEW g \in Users, call[g] = "dial", Its(g) = k PROVE BeingDialled(k)
    <3>1. at[g] # "idle"
      BY <1>1, <2>3 DEF GoInv, StageOK
    <3> QED BY <2>3, <3>1 DEF Its, BeingDialled
  <2> QED BY <2>2, <2>3 DEF InDial
<1>2. GoInv => NothingLeaks
  BY <1>1 DEF NothingLeaks
<1> QED BY <1>2, GoCorrect, PTL

(* How a method comes to its end. *)
LEMMA Ends ==
  ASSUME GoInv, [GoNext]_allVars, NEW g \in Users, at[g] # "idle", at'[g] = "idle"
  PROVE  DialRefused(g) \/ Settle(g) \/ NativeClosed(g) \/ ClientClosed(g)
<1>1. UNCHANGED packageVars => at' = at
  BY DEF packageVars, goVars
<1>2. ASSUME NEW h \in Users \ {g}, GoMoves(h) PROVE FALSE
  BY <1>2, OthersStill DEF Still, Rests
<1>3. GoMoves(g)
  BY <1>1, <1>2, GoSteps DEF allVars
<1>4. Lasts
  BY Lasting
<1>5. ~Enters(g)
  BY DEF Enters, Dial, CloseClient, CloseConn, Operate, Begin
<1>6. ~(CheckContext(g) \/ CheckClient(g) \/ CheckConn(g))
  BY <1>4, ChecksFine
<1>7. ~(EndContext(g) \/ Fire(g) \/ FireClose(g) \/ FireDone(g))
  BY DEF EndContext, Fire, FireClose, FireDone, goVars
<1>8. ~Asks(g) /\ ~DialMade(g) /\ ~Stopped(g)
  BY <1>4, DialNewFine, CallFine, NativeFine, ClientNativeFine, MadeFine, StoppedFine DEF Asks
<1> QED BY <1>3, <1>5, <1>6, <1>7, <1>8 DEF GoMoves, Thinks, Decides, Takes

(* A call that reports success keeps its connection: its context was       *)
(* stopped from closing it before the outcome was decided.                 *)
THEOREM SuccessKeepsConnAlways == GoSpec => SuccessKeepsConn
<1> DEFINE Keeps == \A g \in Users : \A v \in Results \ (Errors \union {"none"}) :
             Gives(g, v) => after[g] \notin {"armed", "swapped", "closing", "done"}
<1>1. ASSUME GoInv, [GoNext]_allVars PROVE Keeps
  <2>1. SUFFICES ASSUME NEW g \in Users, at[g] # "idle", at'[g] = "idle",
                        verdict[g] \in Results \ (Errors \union {"none"})
                 PROVE  after[g] \notin {"armed", "swapped", "closing", "done"}
    BY DEF Gives
  <2>2. StageOK(g)
    BY <1>1 DEF GoInv
  <2>3. CASE DialRefused(g)
    BY <2>2, <2>3 DEF DialRefused, StageOK
  <2>4. CASE Settle(g)
    <3>1. verdict[g] # "ctx"
      BY <2>1 DEF Errors
    <3> QED BY <2>2, <2>4, <3>1 DEF Settle, StageOK
  <2>5. CASE NativeClosed(g) \/ ClientClosed(g)
    BY <2>1, <2>2, <2>5 DEF NativeClosed, ClientClosed, Back, StageOK, Failed
  <2> QED BY <1>1, <2>1, <2>3, <2>4, <2>5, Ends
<1> QED BY <1>1, GoCorrect, PTL DEF GoSpec, SuccessKeepsConn

(* A call that returns its context's error leaves its connection closed to *)
(* everyone, whoever closed it and however far the frame had come.         *)
THEOREM CancelledIsShutAlways == GoSpec => CancelledIsShut
<1> DEFINE Shut == \A g \in Users : Gives(g, "ctx") => on[g] \in shut'
<1>1. ASSUME GoInv, [GoNext]_allVars PROVE Shut
  <2>1. SUFFICES ASSUME NEW g \in Users, at[g] # "idle", at'[g] = "idle", verdict[g] = "ctx"
                 PROVE  on[g] \in shut'
    BY DEF Gives
  <2>2. StageOK(g) /\ MadeOK(g) /\ Lasts
    BY <1>1, Lasting DEF GoInv
  <2>3. ~DialRefused(g)
    BY <2>1, <2>2 DEF DialRefused, MadeOK
  <2>4. CASE Settle(g)
    <3>1. MustClose(g)
      BY <2>1 DEF MustClose, Failed, Spares, Errors
    <3> QED BY <2>4, <3>1 DEF Settle, Swap
  <2>5. CASE NativeClosed(g) \/ ClientClosed(g)
    BY <2>1, <2>2, <2>5 DEF NativeClosed, ClientClosed, Back, StageOK, Lasts
  <2> QED BY <1>1, <2>1, <2>3, <2>4, <2>5, Ends
<1> QED BY <1>1, GoCorrect, PTL DEF GoSpec, CancelledIsShut

(* A reader that has the peer's Close in hand returns it, unless a         *)
(* context, a Close or an earlier failure of the socket took the           *)
(* connection: a write that met the closing handshake never does.          *)
THEOREM PeerCloseSurvivesAlways == GoSpec => PeerCloseSurvives
<1> DEFINE Survives == \A t \in Threads :
             Returning(t) /\ op[t] = "read" /\ held[t] = "close" /\ res'[t] # "close"
               => handle = 0 \/ closer[arg[t]] \in {"ctx", "Close", "websocket"}
<1>1. ASSUME GoInv, [GoNext]_allVars PROVE Survives
  <2>1. SUFFICES ASSUME NEW t \in Threads, Returning(t), op[t] = "read", held[t] = "close",
                        res'[t] # "close", NEW k, arg[t] = k
                 PROVE  handle = 0 \/ closer[k] \in {"ctx", "Close", "websocket"}
    OBVIOUS
  <2>2. pc[t] # "idle" /\ pc'[t] = "idle"
    BY <2>1 DEF Returning, TaskPlaces
  <2>3. Next
    <3>1. ~UNCHANGED vars
      BY <2>2 DEF vars, callVars
    <3>2. ~\E u \in Threads : Taken(u)
      BY <2>2 DEF Taken, TakeResult
    <3> QED BY <1>1, <3>1, <3>2, BridgeMoves
  <2>4. IsCancelled(k)
    BY <1>1, <2>1, <2>3, CloseInHand DEF GoInv
  <2>5. t \in Users
    BY <1>1, <2>1, <2>2, Goroutines DEF GoInv, PlaceOK
  <2>6. at[t] = "stop" /\ call[t] = "read" /\ on[t] = k
    <3>1. PlaceOK(t) /\ StageOK(t)
      BY <1>1, <2>5 DEF GoInv
    <3>2. at[t] = "stop" /\ "read" = Doing(call[t]) /\ on[t] = k
      BY <2>1, <2>2, <3>1 DEF PlaceOK
    <3> QED BY <3>1, <3>2 DEF Doing
  <2>7. k \in IssuedConns /\ k \in opened /\ k \in Ids
    <3>1. StageOK(t) /\ OwnOK(t)
      BY <1>1, <2>5 DEF GoInv
    <3>2. k \in IssuedConns
      BY <2>6, <3>1 DEF StageOK
    <3>3. k # 0 /\ k \in Ids
      BY <1>1, <3>2, ConnsIssued
    <3> QED BY <2>6, <3>1, <3>2, <3>3 DEF OwnOK
  <2>8. handle = 0 \/ k \in shut
    BY <1>1, <2>4, <2>7, CancelledWhy
  <2>9. k \in shut => FairlyClosed(k, closer[k])
    BY <1>1, <2>7 DEF GoInv, ConnOK
  <2>10. ~ReadsOver(k)
    BY <2>1 DEF ReadsOver
  <2> QED BY <2>7, <2>8, <2>9, <2>10 DEF FairlyClosed
<1> QED BY <1>1, GoCorrect, PTL DEF GoSpec, PeerCloseSurvives
=============================================================================
