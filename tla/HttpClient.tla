----------------------------- MODULE HttpClient -----------------------------
(***************************************************************************)
(* The Go package httpclient (client.go) on top of HttpBridge: one Client, *)
(* its Do, its Close, and the response bodies with their Read and Close,   *)
(* called by any number of goroutines; a context per request, cancelled    *)
(* whenever its owner likes, and the goroutine that context.AfterFunc      *)
(* starts.                                                                 *)
(*                                                                         *)
(* A goroutine that calls into the bridge is the bridge thread of the same *)
(* name, blocked until pc is "idle" again.  Arguments are valid and the    *)
(* bridge's metadata decodes: what fails before the bridge is entered      *)
(* changes nothing.                                                        *)
(***************************************************************************)
EXTENDS HttpBridge

CONSTANTS Requests,   \* requests that goroutines may send, one Do each
          NoRequest,
          Callback    \* the goroutine context.AfterFunc starts for a request

ASSUME CallbackAssumption ==
  /\ NoRequest \notin Requests
  /\ Callback \in [Requests -> Threads]
  /\ \A r, s \in Requests : Callback[r] = Callback[s] => r = s

Callbacks == {Callback[r] : r \in Requests}
Users == Threads \ Callbacks

VARIABLES
  handle,    \* Client.handle
  mu,        \* the goroutine that holds Client.mu for writing
  ctxDone,   \* requests whose ctx.Err() is not nil
  after,     \* the AfterFunc registration of a request
  native,    \* the bridge's handle of a request, 0 before it has one
  started,   \* requests handed to Do
  opened,    \* requests whose Do returned a response
  closed,    \* responseBody.closed
  err,       \* responseBody.err
  readMu,    \* who holds responseBody.readMu
  bodyMu,    \* who holds responseBody.mu
  at,        \* where a goroutine is, in the package's code
  req,       \* the request it works on
  cause,     \* the bridge error it is about to translate
  ret        \* what its last call returned

clientVars == <<handle, mu>>
contextVars == <<ctxDone, after>>
requestVars == <<native, started, opened>>
bodyVars == <<closed, err, readMu, bodyMu>>
goVars == <<at, req, cause, ret>>
packageVars == <<clientVars, contextVars, requestVars, bodyVars, goVars>>
allVars == <<vars, packageVars>>

(* The handle NewClient got: the first, so there is one. *)
TheClient == 1

ASSUME NewClientAssumption == TheClient \in Ids

Errors == {"ctx", "ErrClientClosed", "ErrBodyClosed", "eof", "error", "internal",
           "closed", "cancelled", "invalid_input"}
Positions == {"idle", "doId", "doNew", "doMade", "doSend", "doSent", "doDrop",
              "doDropped", "doCtx", "doHandle", "rdCheck", "rdCall", "rdDone",
              "rdFail", "rdCtx", "rdHandle", "rdStop", "rdFreed", "clCall",
              "clDone", "ccCall", "ccDone"}

GoTypeOK ==
  /\ TypeOK
  /\ handle \in {0, TheClient}
  /\ mu \in Users \union {NoThread}
  /\ ctxDone \subseteq Requests
  /\ after \in [Requests -> {"unset", "armed", "stopped", "fired"}]
  /\ native \in [Requests -> 0 .. MaxId]
  /\ started \subseteq Requests
  /\ opened \subseteq started
  /\ closed \subseteq opened
  /\ err \in [Requests -> Errors \union {"none"}]
  /\ readMu \in [Requests -> Users \union {NoThread}]
  /\ bodyMu \in [Requests -> Users \union {NoThread}]
  /\ at \in [Users -> Positions]
  /\ req \in [Users -> Requests \union {NoRequest}]
  /\ cause \in [Users -> Results]
  /\ ret \in [Users -> Errors \union {"none", "response", "data", "nil"}]

GoInit ==
  /\ nextId = TheClient
  /\ clients = {TheClient}
  /\ NoCalls
  /\ handle = TheClient
  /\ mu = NoThread
  /\ ctxDone = {}
  /\ after = [r \in Requests |-> "unset"]
  /\ native = [r \in Requests |-> 0]
  /\ started = {}
  /\ opened = {}
  /\ closed = {}
  /\ err = [r \in Requests |-> "none"]
  /\ readMu = [r \in Requests |-> NoThread]
  /\ bodyMu = [r \in Requests |-> NoThread]
  /\ at = [g \in Users |-> "idle"]
  /\ req = [g \in Users |-> NoRequest]
  /\ cause = [g \in Users |-> "none"]
  /\ ret = [g \in Users |-> "none"]

-----------------------------------------------------------------------------
Go(g, p) ==
  /\ at' = [at EXCEPT ![g] = p]
  /\ UNCHANGED <<req, cause, ret>>

Begin(g, r, p) ==
  /\ at[g] = "idle"
  /\ at' = [at EXCEPT ![g] = p]
  /\ req' = [req EXCEPT ![g] = r]
  /\ ret' = [ret EXCEPT ![g] = "none"]
  /\ UNCHANGED cause

(* A call into the package that returns in one step. *)
BeginAndGive(g, v) ==
  /\ at[g] = "idle"
  /\ ret' = [ret EXCEPT ![g] = v]
  /\ UNCHANGED <<at, req, cause>>

Give(g, v) ==
  /\ at' = [at EXCEPT ![g] = "idle"]
  /\ ret' = [ret EXCEPT ![g] = v]
  /\ req' = [req EXCEPT ![g] = NoRequest]
  /\ cause' = [cause EXCEPT ![g] = "none"]

Blame(g, p) ==
  /\ at' = [at EXCEPT ![g] = p]
  /\ cause' = [cause EXCEPT ![g] = res[g]]
  /\ UNCHANGED <<req, ret>>

(* takeResult: the bridge's status, a success of the kind asked for or an  *)
(* error (io.EOF is one of them).                                          *)
Succeeded(g, kind) == res[g] = kind

(* The bridge call of g at position p has returned. *)
Back(g, p) == at[g] = p /\ pc[g] = "idle"

(* stop(): the callback will not start any more, unless it has. *)
Stop(r) == after' = [after EXCEPT ![r] = IF @ = "armed" THEN "stopped" ELSE @]

(* Client.id() takes mu for reading: nobody may hold it for writing. *)
CanReadHandle == mu = NoThread

(* A context ends: cancelled, or past its deadline. *)
EndContext(r) ==
  /\ r \notin ctxDone
  /\ ctxDone' = ctxDone \union {r}
  /\ UNCHANGED <<vars, clientVars, after, requestVars, bodyVars, goVars>>

(* AfterFunc's goroutine. *)
Fire(r) ==
  /\ after[r] = "armed"
  /\ r \in ctxDone
  /\ after' = [after EXCEPT ![r] = "fired"]
  /\ CloseRequest(Callback[r], native[r])
  /\ UNCHANGED <<clientVars, ctxDone, requestVars, bodyVars, goVars>>

-----------------------------------------------------------------------------
(* Client.Do *)

DoStart(g, r) ==
  /\ r \notin started
  /\ started' = started \union {r}
  /\ \/ r \in ctxDone /\ BeginAndGive(g, "ctx")
     \/ r \notin ctxDone /\ Begin(g, r, "doId")
  /\ UNCHANGED <<vars, clientVars, contextVars, native, opened, bodyVars>>

DoId(g) ==
  /\ at[g] = "doId"
  /\ CanReadHandle
  /\ \/ handle = 0 /\ Give(g, "ErrClientClosed")
     \/ handle # 0 /\ Go(g, "doNew")
  /\ UNCHANGED <<vars, clientVars, contextVars, requestVars, bodyVars>>

(* The handle was read; by now the client may be closed. *)
DoNew(g) ==
  /\ at[g] = "doNew"
  /\ CreateRequest(g, TheClient)
  /\ Go(g, "doMade")
  /\ UNCHANGED <<clientVars, contextVars, requestVars, bodyVars>>

(* Slip: nothing watches the context. *)
DoMadeUnwatched(g) ==
  /\ Back(g, "doMade")
  /\ \/ /\ Succeeded(g, "handle")
        /\ native' = [native EXCEPT ![req[g]] = arg[g]]
        /\ Go(g, "doSend")
     \/ /\ ~Succeeded(g, "handle")
        /\ Blame(g, "doCtx")
        /\ UNCHANGED native
  /\ UNCHANGED <<vars, clientVars, contextVars, started, opened, bodyVars>>

(* AfterFunc is registered before the request is sent.  On a context that  *)
(* is done already it starts its goroutine at once.                        *)
DoMade(g) ==
  /\ Back(g, "doMade")
  /\ \/ /\ Succeeded(g, "handle")
        /\ native' = [native EXCEPT ![req[g]] = arg[g]]
        /\ after' = [after EXCEPT ![req[g]] = "armed"]
        /\ Go(g, "doSend")
     \/ /\ ~Succeeded(g, "handle")
        /\ Blame(g, "doCtx")
        /\ UNCHANGED <<native, after>>
  /\ UNCHANGED <<vars, clientVars, ctxDone, started, opened, bodyVars>>

DoSend(g) ==
  /\ at[g] = "doSend"
  /\ Send(g, native[req[g]])
  /\ Go(g, "doSent")
  /\ UNCHANGED <<clientVars, contextVars, requestVars, bodyVars>>

(* Slip: the context is let go when the response arrives. *)
DoSentStopping(g) ==
  /\ Back(g, "doSent")
  /\ Stop(req[g])
  /\ \/ /\ Succeeded(g, "data")
        /\ opened' = opened \union {req[g]}
        /\ Give(g, "response")
     \/ /\ ~Succeeded(g, "data")
        /\ Blame(g, "doDrop")
        /\ UNCHANGED opened
  /\ UNCHANGED <<vars, clientVars, ctxDone, native, started, bodyVars>>

DoSent(g) ==
  /\ Back(g, "doSent")
  /\ \/ /\ Succeeded(g, "data")
        /\ opened' = opened \union {req[g]}
        /\ Give(g, "response")
        /\ UNCHANGED after
     \/ /\ ~Succeeded(g, "data")
        /\ Stop(req[g])
        /\ Blame(g, "doDrop")
        /\ UNCHANGED opened
  /\ UNCHANGED <<vars, clientVars, ctxDone, native, started, bodyVars>>

DoDrop(g) ==
  /\ at[g] = "doDrop"
  /\ CloseRequest(g, native[req[g]])
  /\ Go(g, "doDropped")
  /\ UNCHANGED <<clientVars, contextVars, requestVars, bodyVars>>

DoDropped(g) ==
  /\ Back(g, "doDropped")
  /\ Go(g, "doCtx")
  /\ UNCHANGED <<vars, clientVars, contextVars, requestVars, bodyVars>>

(* Slip: requestError does not ask the context. *)
DoCtxIgnored(g) ==
  /\ at[g] = "doCtx"
  /\ Go(g, "doHandle")
  /\ UNCHANGED <<vars, clientVars, contextVars, requestVars, bodyVars>>

(* requestError, in Do: the context first, then the client, then what the  *)
(* bridge said.                                                            *)
DoCtx(g) ==
  /\ at[g] = "doCtx"
  /\ \/ req[g] \in ctxDone /\ Give(g, "ctx")
     \/ req[g] \notin ctxDone /\ Go(g, "doHandle")
  /\ UNCHANGED <<vars, clientVars, contextVars, requestVars, bodyVars>>

DoHandle(g) ==
  /\ at[g] = "doHandle"
  /\ CanReadHandle
  /\ Give(g, IF handle = 0 THEN "ErrClientClosed" ELSE cause[g])
  /\ UNCHANGED <<vars, clientVars, contextVars, requestVars, bodyVars>>

-----------------------------------------------------------------------------
(* responseBody.Read *)

(* Slip: reads are not serialized. *)
ReadLockShared(g, r) ==
  /\ r \in opened
  /\ Begin(g, r, "rdCheck")
  /\ UNCHANGED <<vars, clientVars, contextVars, requestVars, bodyVars>>

ReadLock(g, r) ==
  /\ r \in opened
  /\ readMu[r] = NoThread
  /\ readMu' = [readMu EXCEPT ![r] = g]
  /\ Begin(g, r, "rdCheck")
  /\ UNCHANGED <<vars, clientVars, contextVars, requestVars, closed, err, bodyMu>>

Unlock(m, r) == [m EXCEPT ![r] = NoThread]

(* The snapshot of closed and err under mu. *)
ReadCheck(g) ==
  LET r == req[g] IN
  /\ at[g] = "rdCheck"
  /\ bodyMu[r] = NoThread
  /\ \/ /\ r \in closed
        /\ Give(g, "ErrBodyClosed")
        /\ readMu' = Unlock(readMu, r)
     \/ /\ r \notin closed
        /\ err[r] # "none"
        /\ Give(g, err[r])
        /\ readMu' = Unlock(readMu, r)
     \/ /\ r \notin closed
        /\ err[r] = "none"
        /\ Go(g, "rdCall")
        /\ UNCHANGED readMu
  /\ UNCHANGED <<vars, clientVars, contextVars, requestVars, closed, err, bodyMu>>

ReadCall(g) ==
  /\ at[g] = "rdCall"
  /\ Read(g, native[req[g]])
  /\ Go(g, "rdDone")
  /\ UNCHANGED <<clientVars, contextVars, requestVars, bodyVars>>

ReadDone(g) ==
  /\ Back(g, "rdDone")
  /\ \/ /\ Succeeded(g, "data")
        /\ readMu' = Unlock(readMu, req[g])
        /\ Give(g, "data")
     \/ /\ ~Succeeded(g, "data")
        /\ Blame(g, "rdFail")
        /\ UNCHANGED readMu
  /\ UNCHANGED <<vars, clientVars, contextVars, requestVars, closed, err, bodyMu>>

(* The result becomes the body's own under mu, which is then released. *)
Settle(g, r, v) ==
  /\ err' = [err EXCEPT ![r] = v]
  /\ ret' = [ret EXCEPT ![g] = v]
  /\ at' = [at EXCEPT ![g] = "rdStop"]
  /\ bodyMu' = Unlock(bodyMu, r)
  /\ UNCHANGED <<req, cause>>

ReadFail(g) ==
  LET r == req[g] IN
  /\ at[g] = "rdFail"
  /\ bodyMu[r] = NoThread
  /\ \/ r \in closed /\ Settle(g, r, "ErrBodyClosed")
     \/ /\ r \notin closed
        /\ bodyMu' = [bodyMu EXCEPT ![r] = g]
        /\ Go(g, "rdCtx")
        /\ UNCHANGED err
  /\ UNCHANGED <<vars, clientVars, contextVars, requestVars, closed, readMu>>

(* requestError again, now while mu is held. *)
ReadCtx(g) ==
  LET r == req[g] IN
  /\ at[g] = "rdCtx"
  /\ \/ r \in ctxDone /\ Settle(g, r, "ctx")
     \/ r \notin ctxDone /\ Go(g, "rdHandle") /\ UNCHANGED <<err, bodyMu>>
  /\ UNCHANGED <<vars, clientVars, contextVars, requestVars, closed, readMu>>

ReadHandle(g) ==
  /\ at[g] = "rdHandle"
  /\ CanReadHandle
  /\ Settle(g, req[g], IF handle = 0 THEN "ErrClientClosed" ELSE cause[g])
  /\ UNCHANGED <<vars, clientVars, contextVars, requestVars, closed, readMu>>

(* Slip: a read that fails leaves the call to the caller's Close. *)
ReadStopOnly(g) ==
  /\ at[g] = "rdStop"
  /\ Stop(req[g])
  /\ Go(g, "rdFreed")
  /\ UNCHANGED <<vars, clientVars, ctxDone, requestVars, bodyVars>>

ReadStop(g) ==
  /\ at[g] = "rdStop"
  /\ Stop(req[g])
  /\ CloseRequest(g, native[req[g]])
  /\ Go(g, "rdFreed")
  /\ UNCHANGED <<clientVars, ctxDone, requestVars, bodyVars>>

ReadFreed(g) ==
  /\ Back(g, "rdFreed")
  /\ readMu' = Unlock(readMu, req[g])
  /\ Give(g, ret[g])
  /\ UNCHANGED <<vars, clientVars, contextVars, requestVars, closed, err, bodyMu>>

-----------------------------------------------------------------------------
(* responseBody.Close holds mu until the bridge has closed the call. *)

CloseBody(g, r) ==
  /\ r \in opened
  /\ bodyMu[r] = NoThread
  /\ \/ r \in closed /\ BeginAndGive(g, "nil") /\ UNCHANGED <<closed, bodyMu, after>>
     \/ /\ r \notin closed
        /\ closed' = closed \union {r}
        /\ bodyMu' = [bodyMu EXCEPT ![r] = g]
        /\ Stop(r)
        /\ Begin(g, r, "clCall")
  /\ UNCHANGED <<vars, clientVars, ctxDone, requestVars, err, readMu>>

CloseBodyCall(g) ==
  /\ at[g] = "clCall"
  /\ CloseRequest(g, native[req[g]])
  /\ Go(g, "clDone")
  /\ UNCHANGED <<clientVars, contextVars, requestVars, bodyVars>>

CloseBodyDone(g) ==
  /\ Back(g, "clDone")
  /\ bodyMu' = Unlock(bodyMu, req[g])
  /\ Give(g, "nil")
  /\ UNCHANGED <<vars, clientVars, contextVars, requestVars, closed, err, readMu>>

-----------------------------------------------------------------------------
(* Client.Close holds mu until the bridge has closed the client. *)

(* Slip: the handle is taken under mu, and closed after mu is released. *)
CloseClientUnlocked(g) ==
  /\ mu = NoThread
  /\ handle' = 0
  /\ \/ handle = 0 /\ BeginAndGive(g, "nil")
     \/ handle # 0 /\ Begin(g, NoRequest, "ccCall")
  /\ UNCHANGED <<vars, mu, contextVars, requestVars, bodyVars>>

CloseClient(g) ==
  /\ mu = NoThread
  /\ \/ handle = 0 /\ BeginAndGive(g, "nil") /\ UNCHANGED clientVars
     \/ /\ handle # 0
        /\ handle' = 0
        /\ mu' = g
        /\ Begin(g, NoRequest, "ccCall")
  /\ UNCHANGED <<vars, contextVars, requestVars, bodyVars>>

CloseClientCall(g) ==
  /\ at[g] = "ccCall"
  /\ Close(g, TheClient)
  /\ Go(g, "ccDone")
  /\ UNCHANGED <<clientVars, contextVars, requestVars, bodyVars>>

CloseClientDone(g) ==
  /\ Back(g, "ccDone")
  /\ mu' = NoThread
  /\ Give(g, "nil")
  /\ UNCHANGED <<vars, handle, contextVars, requestVars, bodyVars>>

-----------------------------------------------------------------------------
(* What a caller decides to do, and what goes on by itself afterwards. *)
Call(g) ==
  \/ \E r \in Requests : DoStart(g, r) \/ ReadLock(g, r) \/ CloseBody(g, r)
  \/ CloseClient(g)

Continue(g) ==
  \/ DoId(g) \/ DoNew(g) \/ DoMade(g) \/ DoSend(g) \/ DoSent(g)
  \/ DoDrop(g) \/ DoDropped(g) \/ DoCtx(g) \/ DoHandle(g)
  \/ ReadCheck(g) \/ ReadCall(g) \/ ReadDone(g) \/ ReadFail(g)
  \/ ReadCtx(g) \/ ReadHandle(g) \/ ReadStop(g) \/ ReadFreed(g)
  \/ CloseBodyCall(g) \/ CloseBodyDone(g)
  \/ CloseClientCall(g) \/ CloseClientDone(g)

BridgeStep(t) == Step(t) /\ UNCHANGED packageVars

GoNext ==
  \/ \E g \in Users : Call(g) \/ Continue(g)
  \/ \E r \in Requests : EndContext(r) \/ Fire(r)
  \/ \E t \in Threads : BridgeStep(t)

GoSpec == GoInit /\ [][GoNext]_allVars

(* The Go scheduler runs what can run, AfterFunc starts its goroutine, and *)
(* the bridge is as prompt as in FairSpec.  Callers, contexts and the      *)
(* network owe nothing.                                                    *)
GoFairSpec ==
  /\ GoSpec
  /\ \A g \in Users : WF_allVars(Continue(g))
  /\ \A r \in Requests : WF_allVars(Fire(r))
  /\ \A t \in Threads : WF_allVars(Prompt(t) /\ UNCHANGED packageVars)

-----------------------------------------------------------------------------
(* The bridge's "closed" and "cancelled" are symptoms: every one of them   *)
(* has a cause in this package, recorded before the bridge is told, and    *)
(* the caller is told that cause.                                          *)
Symptoms == {"closed", "cancelled", "invalid_input"}

CausesNotSymptoms ==
  /\ \A g \in Users : ret[g] \notin Symptoms
  /\ \A r \in Requests : err[r] \notin Symptoms

(* A request that is over, with nobody at work on it, has left the bridge  *)
(* and holds no callback on its context.                                   *)
Over(r) == r \in closed \/ err[r] # "none" \/ (r \in started /\ r \notin opened)
AtWork(r) == \E g \in Users : at[g] # "idle" /\ req[g] = r

NothingLeaks ==
  \A r \in Requests :
    Over(r) /\ ~AtWork(r) /\ native[r] # 0 => native[r] \notin calls /\ after[r] # "armed"

(* Whenever Client.Close has returned, to any caller, the client is        *)
(* released and so is every request made with it, the ones that Do was     *)
(* creating included.                                                      *)
ClosedMeansReleased ==
  handle = 0 /\ mu = NoThread =>
    TheClient \in cancelled /\ \A k \in IssuedCalls : k \notin calls

(* Every body keeps the contract of BodyContract. *)
Delivered(r) == IF native[r] = 0 THEN 0 ELSE Len(out[native[r]])

Contract(r) == INSTANCE BodyContract WITH
                 Length <- BodyLen,
                 Reasons <- {"ctx", "ErrClientClosed", "error"},
                 delivered <- Delivered(r), terminal <- err[r], closed <- (r \in closed)

BodiesKeepContract ==
  /\ \A r \in Requests : Contract(r)!Init
  /\ [][\A r \in Requests : [Contract(r)!Next]_(Contract(r)!vars)]_allVars

(* A context that ends takes its request out of the bridge, also when      *)
(* nobody reads the body.                                                  *)
ContextFreesRequest ==
  \A r \in Requests : (r \in ctxDone /\ native[r] # 0) ~> (native[r] \notin calls)

(* A goroutine inside Do or Read comes back once its context is done, its  *)
(* client closed or its body closed, however silent the network is.        *)
Hopeless(g) == req[g] \in ctxDone \/ handle = 0 \/ req[g] \in closed

CallsComeBack == \A g \in Users : (at[g] # "idle" /\ Hopeless(g)) ~> (at[g] = "idle")

(* Closing never waits for the network: not for a Read that blocks on it,  *)
(* nor for a Do.                                                           *)
ClosesComeBack ==
  \A g \in Users : (at[g] \in {"clCall", "clDone", "ccCall", "ccDone"}) ~> (at[g] = "idle")
=============================================================================
