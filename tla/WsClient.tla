------------------------------ MODULE WsClient ------------------------------
(***************************************************************************)
(* The Go package websocket (client.go) on top of WsBridge: one Client and *)
(* the connections dialled with it, used by any number of goroutines, each *)
(* call under a context of its own that can end at any time.               *)
(*                                                                         *)
(* A goroutine that calls into the bridge is the bridge thread of the same *)
(* name.  A Conn is named by the handle it was made with.  Arguments are   *)
(* valid and the bridge's metadata decodes.  A method that finds its context*)
(* ended, its client closed or its connection closed on entry returns      *)
(* without a change, and so does a second Close.                           *)
(***************************************************************************)
EXTENDS WsBridge

CONSTANTS Callback,  \* the goroutine watchContext starts for a caller's call
          Methods    \* of ReadMessage and WriteMessage, what callers use

Callbacks == {Callback[u] : u \in DOMAIN Callback}
Users == Threads \ Callbacks

ASSUME CallbackAssumption ==
  /\ DOMAIN Callback = Users
  /\ Callback \in [Users -> Threads]
  /\ \A u, v \in Users : Callback[u] = Callback[v] => u = v

ASSUME MethodsAssumption == Methods \subseteq {"read", "write", "ping", "close"}

VARIABLES
  handle,    \* Client.handle
  shut,      \* connections whose Conn.handle is 0 again
  opened,    \* connections that Dial returned
  at,        \* where a goroutine is, in the package's code
  call,      \* the method it is in
  on,        \* the connection that method works on
  after,     \* the AfterFunc registration of that method
  ctxDone,   \* goroutines whose call's ctx.Err() is not nil
  verdict,   \* what the method is about to return
  closer     \* history: why the connection was closed first

goVars == <<at, call, on, after, verdict>>
packageVars == <<handle, shut, opened, ctxDone, closer, goVars>>
allVars == <<vars, packageVars>>

TheClient == 1

(* NewClient was given a handle, or there is no client to speak of. *)
ASSUME NewClientAssumption == TheClient \in Ids

Errors == (Results \ {"none", "handle", "data", "ping", "close"})
          \union {"ctx", "ErrClientClosed", "ErrConnClosed"}
Positions == {"idle", "new", "made", "call", "stop", "ctx", "client", "conn", "settle",
              "refused", "native", "closed", "clientNative", "clientClosed"}

WsTypeOK ==
  /\ TypeOK
  /\ handle \in {0, TheClient}
  /\ shut \subseteq Ids
  /\ opened \subseteq Ids
  /\ at \in [Users -> Positions]
  /\ call \in [Users -> {"none", "dial", "read", "write", "ping", "close", "Close"}]
  /\ on \in [Users -> 0 .. MaxId]
  /\ after \in [Users -> {"unset", "armed", "stopped", "swapped", "closing", "done"}]
  /\ ctxDone \subseteq Users
  /\ verdict \in [Users -> Results \union Errors]
  /\ closer \in [Ids -> Errors \union {"none", "Close"}]

GoInit ==
  /\ nextId = TheClient
  /\ clients = {TheClient}
  /\ NothingYet
  /\ handle = TheClient
  /\ shut = {}
  /\ opened = {}
  /\ at = [g \in Users |-> "idle"]
  /\ call = [g \in Users |-> "none"]
  /\ on = [g \in Users |-> 0]
  /\ after = [g \in Users |-> "unset"]
  /\ ctxDone = {}
  /\ verdict = [g \in Users |-> "none"]
  /\ closer = [h \in Ids |-> "none"]

-----------------------------------------------------------------------------
Go(g, p) ==
  /\ at' = [at EXCEPT ![g] = p]
  /\ UNCHANGED <<call, on, after, verdict>>

Begin(g, m, k, p, a) ==
  /\ at[g] = "idle"
  /\ at' = [at EXCEPT ![g] = p]
  /\ call' = [call EXCEPT ![g] = m]
  /\ on' = [on EXCEPT ![g] = k]
  /\ after' = [after EXCEPT ![g] = a]
  /\ UNCHANGED verdict

(* The method returns; its context is no business of the package any more. *)
Give(g) ==
  /\ at' = [at EXCEPT ![g] = "idle"]
  /\ call' = [call EXCEPT ![g] = "none"]
  /\ on' = [on EXCEPT ![g] = 0]
  /\ after' = [after EXCEPT ![g] = "unset"]
  /\ verdict' = [verdict EXCEPT ![g] = "none"]
  /\ ctxDone' = ctxDone \ {g}

Judge(g, v, p) ==
  /\ at' = [at EXCEPT ![g] = p]
  /\ verdict' = [verdict EXCEPT ![g] = v]
  /\ UNCHANGED <<call, on, after>>

(* The bridge call of g at position p has returned. *)
Back(g, p) == at[g] = p /\ pc[g] = "idle"

(* takeResult: the result is copied and the native buffer freed. *)
TakeResult(t) ==
  /\ res' = [res EXCEPT ![t] = "none"]
  /\ arg' = [arg EXCEPT ![t] = 0]
  /\ UNCHANGED <<registryVars, cancelled, connVars, lockVars, socketVars, history,
                 pc, awake, op, held, sent>>

Failed(v) == v \in Errors

-----------------------------------------------------------------------------
(* Contexts *)

EndContext(g) ==
  /\ call[g] \notin {"none", "Close"}
  /\ g \notin ctxDone
  /\ ctxDone' = ctxDone \union {g}
  /\ UNCHANGED <<vars, handle, shut, opened, closer, goVars>>

(* The handle leaves the Conn; whoever finds it 0 has nothing to close. *)
Swap(k, why) ==
  /\ shut' = shut \union {k}
  /\ closer' = [closer EXCEPT ![k] = IF k \in shut THEN @ ELSE why]

(* AfterFunc's goroutine: conn.Close(), then close(done). *)
Fire(g) ==
  /\ after[g] = "armed"
  /\ g \in ctxDone
  /\ after' = [after EXCEPT ![g] = IF on[g] \in shut THEN "done" ELSE "swapped"]
  /\ Swap(on[g], "ctx")
  /\ UNCHANGED <<vars, handle, opened, ctxDone, at, call, on, verdict>>

FireClose(g) ==
  /\ after[g] = "swapped"
  /\ CloseConnection(Callback[g], on[g])
  /\ after' = [after EXCEPT ![g] = "closing"]
  /\ UNCHANGED <<handle, shut, opened, ctxDone, closer, at, call, on, verdict>>

FireDone(g) ==
  /\ after[g] = "closing"
  /\ pc[Callback[g]] = "idle"
  /\ after' = [after EXCEPT ![g] = "done"]
  /\ TakeResult(Callback[g])
  /\ UNCHANGED <<handle, shut, opened, ctxDone, closer, at, call, on, verdict>>

(* What watchContext returns: the callback will not start any more, or it  *)
(* has finished.                                                           *)
Stop(g) ==
  /\ after[g] \in {"armed", "done"}
  /\ after' = [after EXCEPT ![g] = IF @ = "armed" THEN "stopped" ELSE @]

-----------------------------------------------------------------------------
(* Dial *)

Dial(g) ==
  /\ handle # 0
  /\ Begin(g, "dial", 0, "new", "unset")
  /\ UNCHANGED <<vars, handle, shut, opened, ctxDone, closer>>

(* The handle was read; by now the client may be closed. *)
DialNew(g) ==
  /\ at[g] = "new"
  /\ CreateConnection(g, TheClient)
  /\ Go(g, "made")
  /\ UNCHANGED <<handle, shut, opened, ctxDone, closer>>

(* Slip: the context is not watched while the handshake runs. *)
WatchNot(g) == after' = [after EXCEPT ![g] = "stopped"]

Watch(g) == after' = [after EXCEPT ![g] = "armed"]

DialMade(g) ==
  /\ Back(g, "made")
  /\ TakeResult(g)
  /\ \/ /\ res[g] = "handle"
        /\ on' = [on EXCEPT ![g] = arg[g]]
        /\ Watch(g)
        /\ at' = [at EXCEPT ![g] = "call"]
        /\ UNCHANGED <<call, verdict>>
     \/ /\ res[g] # "handle"
        /\ Judge(g, IF handle = 0 THEN "ErrClientClosed" ELSE res[g], "refused")
  /\ UNCHANGED <<handle, shut, opened, ctxDone, closer>>

DialRefused(g) ==
  /\ at[g] = "refused"
  /\ Give(g)
  /\ UNCHANGED <<vars, handle, shut, opened, closer>>

-----------------------------------------------------------------------------
(* ReadMessage, WriteMessage, WriteControl *)

Operate(g, m, k) ==
  /\ k \in opened
  /\ k \notin shut
  /\ Begin(g, m, k, "call", "armed")
  /\ UNCHANGED <<vars, handle, shut, opened, ctxDone, closer>>

(* The bridge call of a method. *)
CallBridge(g) ==
  LET k == on[g] IN
  /\ at[g] = "call"
  /\ \/ call[g] = "dial" /\ Connect(g, k)
     \/ call[g] = "read" /\ Read(g, k)
     \/ call[g] = "write" /\ Write(g, k)
     \/ call[g] \in {"ping", "close"} /\ Control(g, k, call[g])
  /\ Go(g, "stop")
  /\ UNCHANGED <<handle, shut, opened, ctxDone, closer>>

Stopped(g) ==
  /\ Back(g, "stop")
  /\ Stop(g)
  /\ at' = [at EXCEPT ![g] = "ctx"]
  /\ verdict' = [verdict EXCEPT ![g] = res[g]]
  /\ TakeResult(g)
  /\ UNCHANGED <<handle, shut, opened, ctxDone, closer, call, on>>

(* Slip: the context is asked only about failures. *)
CheckContextOfFailures(g) ==
  /\ at[g] = "ctx"
  /\ \/ g \in ctxDone /\ Failed(verdict[g]) /\ Judge(g, "ctx", "settle")
     \/ ~(g \in ctxDone /\ Failed(verdict[g])) /\ Go(g, "client")
  /\ UNCHANGED <<vars, handle, shut, opened, ctxDone, closer>>

(* operationError, and Dial's like of it: the context first, then the      *)
(* client, then the connection, even when the bridge reports success.      *)
CheckContext(g) ==
  /\ at[g] = "ctx"
  /\ \/ g \in ctxDone /\ Judge(g, "ctx", "settle")
     \/ g \notin ctxDone /\ Go(g, "client")
  /\ UNCHANGED <<vars, handle, shut, opened, ctxDone, closer>>

CheckClient(g) ==
  /\ at[g] = "client"
  /\ \/ handle = 0 /\ Judge(g, "ErrClientClosed", "settle")
     \/ handle # 0 /\ Go(g, IF call[g] = "dial" THEN "settle" ELSE "conn")
  /\ UNCHANGED <<vars, handle, shut, opened, ctxDone, closer>>

CheckConn(g) ==
  /\ at[g] = "conn"
  /\ \/ on[g] \in shut /\ Judge(g, "ErrConnClosed", "settle")
     \/ on[g] \notin shut /\ Go(g, "settle")
  /\ UNCHANGED <<vars, handle, shut, opened, ctxDone, closer>>

(* Slip: only the bridge's own errors close the connection. *)
SparesForeign(g) ==
  /\ call[g] \in {"write", "ping", "close"}
  /\ verdict[g] \notin {"closed", "websocket"}

(* Slip: every failed write closes the connection. *)
SparesNone(g) == FALSE

(* WriteMessage leaves the connection alone when the bridge refused the    *)
(* argument, or when the closing handshake has begun.                      *)
Spares(g) ==
  /\ call[g] \in {"write", "ping", "close"}
  /\ verdict[g] \in {"invalid_input", "closing"}

(* Slip: a Dial that fails leaves its connection. *)
MustCloseUnlessDial(g) == Failed(verdict[g]) /\ ~Spares(g) /\ call[g] # "dial"

MustClose(g) == Failed(verdict[g]) /\ ~Spares(g)

(* The method returns, or closes the connection first. *)
Settle(g) ==
  LET k == on[g] IN
  /\ at[g] = "settle"
  /\ \/ /\ ~MustClose(g)
        /\ opened' = IF call[g] = "dial" /\ ~Failed(verdict[g])
                       THEN opened \union {k} ELSE opened
        /\ Give(g)
        /\ UNCHANGED <<shut, closer>>
     \/ /\ MustClose(g)
        /\ Swap(k, verdict[g])
        /\ IF k \in shut THEN Give(g)
                         ELSE Go(g, "native") /\ UNCHANGED ctxDone
        /\ UNCHANGED opened
  /\ UNCHANGED <<vars, handle>>

-----------------------------------------------------------------------------
(* Conn.Close and Client.Close *)

CloseConn(g, k) ==
  /\ k \in opened
  /\ k \notin shut
  /\ Begin(g, "Close", k, "native", "unset")
  /\ Swap(k, "Close")
  /\ UNCHANGED <<vars, handle, opened, ctxDone>>

(* bridge.WSConnectionClose, with the handle that the swap gave. *)
NativeClose(g) ==
  /\ at[g] = "native"
  /\ CloseConnection(g, on[g])
  /\ Go(g, "closed")
  /\ UNCHANGED <<handle, shut, opened, ctxDone, closer>>

NativeClosed(g) ==
  /\ Back(g, "closed")
  /\ TakeResult(g)
  /\ Give(g)
  /\ UNCHANGED <<handle, shut, opened, closer>>

(* Slip: the handle is not taken from the client first. *)
CloseClientLate(g) ==
  /\ handle # 0
  /\ Begin(g, "Close", 0, "clientNative", "unset")
  /\ UNCHANGED <<vars, handle, shut, opened, ctxDone, closer>>

CloseClient(g) ==
  /\ handle # 0
  /\ Begin(g, "Close", 0, "clientNative", "unset")
  /\ handle' = 0
  /\ UNCHANGED <<vars, shut, opened, ctxDone, closer>>

ClientNative(g) ==
  /\ at[g] = "clientNative"
  /\ Close(g, TheClient)
  /\ Go(g, "clientClosed")
  /\ UNCHANGED <<handle, shut, opened, ctxDone, closer>>

ClientClosed(g) ==
  /\ Back(g, "clientClosed")
  /\ TakeResult(g)
  /\ Give(g)
  /\ UNCHANGED <<handle, shut, opened, closer>>

-----------------------------------------------------------------------------
GoStep(g) ==
  \/ DialNew(g) \/ DialMade(g) \/ DialRefused(g)
  \/ CallBridge(g) \/ Stopped(g)
  \/ CheckContext(g) \/ CheckClient(g) \/ CheckConn(g) \/ Settle(g)
  \/ NativeClose(g) \/ NativeClosed(g) \/ ClientNative(g) \/ ClientClosed(g)

CallbackStep(g) == Fire(g) \/ FireClose(g) \/ FireDone(g)

(* Any method on a closed client or connection. *)
Refuse(g) ==
  /\ at[g] = "idle"
  /\ handle = 0 \/ opened \intersect shut # {}
  /\ UNCHANGED allVars

GoEnter(g) ==
  \/ Dial(g) \/ CloseClient(g) \/ Refuse(g)
  \/ \E k \in Ids :
       \/ CloseConn(g, k)
       \/ \E m \in Methods : Operate(g, m, k)

BridgeStep ==
  /\ \/ \E t \in Threads : Prompt(t) \/ Network(t)
     \/ \E k \in Ids : Peer(k)
  /\ UNCHANGED packageVars

GoNext ==
  \/ \E g \in Users : GoEnter(g) \/ GoStep(g) \/ CallbackStep(g) \/ EndContext(g)
  \/ BridgeStep

GoSpec == GoInit /\ [][GoNext]_allVars

(* Goroutines are scheduled, and so are the bridge's tasks; neither the    *)
(* network nor anyone's context owes anything.                             *)
GoFairSpec ==
  /\ GoSpec
  /\ \A g \in Users : WF_allVars(GoStep(g)) /\ WF_allVars(CallbackStep(g))
  /\ \A t \in Threads : WF_allVars(Prompt(t) /\ UNCHANGED packageVars)

-----------------------------------------------------------------------------
(* The bridge's "closed" is a symptom: by the time a method returns it     *)
(* always finds the cause, be it its context, the client or the connection.*)
CausesNotSymptoms ==
  \A g \in Users : at[g] \in {"settle", "refused"} => verdict[g] # "closed"

(* A native connection is in its caller's hands, in those of a Dial, or    *)
(* about to be closed: no way a Dial can fail leaves one behind.           *)
BeingDialled(k) ==
  \E g \in Users : call[g] = "dial" /\ k \in {on[g], arg[g]} /\ at[g] # "idle"

BeingClosed(k) ==
  \E g \in Users : on[g] = k /\ (at[g] = "native" \/ after[g] = "swapped")

NothingLeaks ==
  \A k \in conns : k \in opened \ shut \/ BeingDialled(k) \/ BeingClosed(k)

(* A method of g returns v in this step. *)
Gives(g, v) == at[g] # "idle" /\ at'[g] = "idle" /\ verdict[g] = v

(* A call that reports success has not been cancelled behind its caller's  *)
(* back: its context neither closed the connection nor will.               *)
SuccessKeepsConn ==
  [][\A g \in Users : \A v \in Results \ (Errors \union {"none"}) :
       Gives(g, v) => after[g] \notin {"armed", "swapped", "closing", "done"}]_allVars

(* A call whose context ended leaves no usable connection: the frame it    *)
(* was on may be half sent.                                                *)
CancelledIsShut ==
  [][\A g \in Users : Gives(g, "ctx") => on[g] \in shut']_allVars

(* A reader that took the peer's Close loses it only to a cancellation, to *)
(* somebody's Close, or to a socket failure reported before it: never to a *)
(* write that met the closing handshake.                                   *)
PeerCloseSurvives ==
  [][\A t \in Threads :
       Returning(t) /\ op[t] = "read" /\ held[t] = "close" /\ res'[t] # "close"
         => handle = 0 \/ closer[arg[t]] \in {"ctx", "Close", "websocket"}]_allVars

(* io.EOF is a clean end of the protocol (client.go:287-288).  A stream    *)
(* that failed reports its failure to one reader and then its end to the   *)
(* next, which may have queued up behind the first.                        *)
EofIsClean ==
  [][\A g \in Users : Gives(g, "eof") => on[g] \in peerClosed]_allVars

(* A call whose context has ended returns, whatever the peer does. *)
CancelledCallsReturn == \A g \in Users : g \in ctxDone ~> g \notin ctxDone

(* Closing the client makes every method on it and its connections return. *)
ClientCloseFrees == \A g \in Users : (handle = 0 /\ at[g] # "idle") ~> at[g] = "idle"
=============================================================================
