-------------------------- MODULE HttpClientProofs --------------------------
(***************************************************************************)
(* Theorems about HttpClient, for any number of goroutines, requests and   *)
(* handles and bodies of any length: callers are told causes, nothing is   *)
(* left in the bridge, Client.Close has released everything when it        *)
(* returns, and response bodies implement BodyContract.                    *)
(***************************************************************************)
EXTENDS HttpClient, HttpBridgeProofs

-----------------------------------------------------------------------------
(* The invariant. *)

Asking == {"doId", "doNew", "doMade"}
Sending == {"doSend", "doSent", "doDrop"}
Failing == {"doDropped", "doCtx", "doHandle"}
Reading == {"rdCheck", "rdCall", "rdDone", "rdFail", "rdCtx", "rdHandle", "rdStop", "rdFreed"}
Closing == {"clCall", "clDone"}
Leaving == {"ccCall", "ccDone"}

InDo(g) == at[g] \in Asking \union Sending \union Failing
InRead(g) == at[g] \in Reading
InClose(g) == at[g] \in Closing

(* The call of the request that g works on. *)
ItsCall(g) == native[req[g]]

(* There is one client, and it is released when its Close is through.      *)
ClientOK ==
  /\ IssuedClients = {TheClient}
  /\ \A g \in Users : at[g] \in Leaving <=> mu = g
  /\ handle # 0 => TheClient \in clients /\ mu = NoThread
  /\ handle = 0 =>
       \/ TheClient \in cancelled
       \/ mu # NoThread /\ at[mu] = "ccCall" /\ TheClient \in clients
       \/ mu # NoThread /\ at[mu] = "ccDone" /\ pc[mu] = "cancel" /\ arg[mu] = TheClient

(* The bridge thread of a goroutine is where its place in the package says.*)
PlaceOK(g) ==
  /\ pc[g] # "idle" =>
       at[g] \in {"doMade", "doSent", "rdDone", "doDropped", "rdFreed", "clDone", "ccDone"}
  /\ at[g] = "doMade" => pc[g] \in {"idle", "build"}
  /\ at[g] = "doSent" => pc[g] \in {"idle", "poll", "body"} /\ op[g] = "send" /\ arg[g] = ItsCall(g)
  /\ at[g] = "rdDone" => pc[g] \in {"idle", "poll", "body"} /\ op[g] = "read" /\ arg[g] = ItsCall(g)
  /\ at[g] \in {"doDropped", "rdFreed", "clDone", "ccDone"} => pc[g] \in {"idle", "cancel"}

(* A goroutine works on a request in its hands. *)
HoldsOK(g) ==
  /\ req[g] \in Requests <=> InDo(g) \/ InRead(g) \/ InClose(g)
  /\ InDo(g) => req[g] \in started \ opened
  /\ at[g] \in Asking => ItsCall(g) = 0
  /\ at[g] \in Sending \union {"doDropped"} => ItsCall(g) # 0
  /\ InRead(g) => req[g] \in opened /\ readMu[req[g]] = g
  /\ InClose(g) => req[g] \in closed
  /\ InClose(g) \/ at[g] \in {"rdCtx", "rdHandle"} => bodyMu[req[g]] = g
  /\ at[g] \in {"rdCtx", "rdHandle"} => req[g] \notin closed
  /\ at[g] \in {"rdCall", "rdDone", "rdFail", "rdCtx", "rdHandle"} => err[req[g]] = "none"
  /\ at[g] \in {"rdStop", "rdFreed"} => err[req[g]] = ret[g] /\ ret[g] # "none"
  /\ ret[g] \notin Symptoms

(* One Do a request, and the mutexes of a body have the holder they name.  *)
AloneOK(g) ==
  /\ \A h \in Users \ {g} : InDo(g) /\ InDo(h) => req[g] # req[h]
  /\ \A r \in Requests :
       /\ readMu[r] = g => InRead(g) /\ req[g] = r
       /\ bodyMu[r] = g => (InClose(g) \/ at[g] \in {"rdCtx", "rdHandle"}) /\ req[g] = r

(* A handle just made is nobody else's, and is registered as long as its   *)
(* client is. *)
Made(g) == at[g] = "doMade" /\ pc[g] = "idle" /\ res[g] = "handle"

Unused(k) == phase[k] = "Ready" /\ lock[k] = NoThread /\ out[k] = <<>> /\ k \notin failed

MadeOK(g) ==
  /\ at[g] = "doMade" /\ pc[g] = "idle" => res[g] \in {"handle", "closed", "internal"}
  /\ at[g] = "doMade" /\ pc[g] = "idle" /\ res[g] = "closed" => TheClient \notin clients
  /\ Made(g) =>
       /\ arg[g] \in IssuedCalls
       /\ Unused(arg[g])
       /\ arg[g] \in calls \/ TheClient \notin clients
       /\ \A r \in Requests : native[r] # arg[g]
       /\ \A h \in Users \ {g} : Made(h) => arg[h] # arg[g]

(* A send goes to a call that nobody has sent. *)
SendOK(g) ==
  LET k == ItsCall(g) IN
  /\ at[g] = "doSend" => Unused(k)
  /\ at[g] = "doSent" /\ pc[g] # "idle" =>
       /\ k \notin failed
       /\ <<phase[k], lock[k]>> \in {<<"Ready", NoThread>>, <<"Done", g>>}
  /\ at[g] = "doSent" /\ pc[g] = "idle" =>
       /\ res[g] \in {"data", "error", "closed", "cancelled"}
       /\ res[g] \in Symptoms => k \notin calls
       /\ res[g] = "data" => phase[k] # "Ready" /\ k \notin failed

(* What ended a read besides a failure: the call has left the bridge, or   *)
(* the body is complete. *)
Excused(k, v) ==
  /\ v \in {"eof", "closed", "cancelled", "error"}
  /\ v \in Symptoms => k \notin calls
  /\ v = "eof" => k \notin calls \/ Len(out[k]) = BodyLen

ReadOK(g) ==
  LET k == ItsCall(g) IN
  /\ at[g] = "rdCall" \/ (at[g] = "rdDone" /\ (pc[g] # "idle" \/ res[g] = "data")) => k \notin failed
  /\ at[g] = "rdDone" /\ pc[g] = "idle" /\ res[g] # "data" => Excused(k, res[g])
  /\ at[g] \in {"rdFail", "rdCtx", "rdHandle"} => Excused(k, cause[g])
  /\ at[g] = "rdHandle" => handle = 0 \/ cause[g] = "error" \/ (cause[g] = "eof" /\ Len(out[k]) = BodyLen)

(* A symptom that a Do is about to translate has a cause. *)
BlameOK(g) ==
  /\ at[g] \in {"doDrop"} \union Failing =>
       /\ cause[g] \in {"closed", "cancelled", "error", "internal"}
       /\ cause[g] \in Symptoms => req[g] \in ctxDone \/ handle = 0
  /\ at[g] = "doHandle" /\ cause[g] \in Symptoms => handle = 0
  /\ at[g] \in {"doDrop"} \union Failing => after[req[g]] # "armed"

(* Somebody is sending a request, or about to drop it. *)
UnderWay(r) == \E g \in Users : req[g] = r /\ at[g] \in Sending

(* Why the call of a request has left the bridge. *)
Reason(r) ==
  \/ r \in ctxDone
  \/ TheClient \notin clients
  \/ r \in closed
  \/ err[r] # "none"
  \/ r \notin opened /\ ~UnderWay(r)

NativeOK(r) ==
  /\ r \notin started => native[r] = 0
  /\ native[r] = 0 => after[r] = "unset" /\ r \notin opened
  /\ native[r] # 0 => native[r] \in IssuedCalls /\ after[r] # "unset"
  /\ after[r] = "fired" => r \in ctxDone
  /\ r \in opened => phase[native[r]] # "Ready"
  /\ \A s \in Requests \ {r} : native[r] # 0 => native[s] # native[r]
  /\ native[r] # 0 /\ native[r] \notin calls => Reason(r)

BodyOK(r) ==
  /\ r \notin opened => err[r] = "none"
  /\ err[r] \notin Symptoms
  /\ native[r] \in failed /\ r \in opened =>
       err[r] # "none"
         \/ (readMu[r] # NoThread /\ at[readMu[r]] \in {"rdDone", "rdFail", "rdCtx", "rdHandle"})

Freed(r) == native[r] \notin calls /\ after[r] # "armed"

OverOK(r) ==
  /\ r \in closed =>
       /\ after[r] # "armed"
       /\ native[r] \in calls => bodyMu[r] # NoThread /\ at[bodyMu[r]] = "clCall"
  /\ err[r] # "none" => Freed(r) \/ (readMu[r] # NoThread /\ at[readMu[r]] = "rdStop")
  /\ native[r] # 0 /\ r \notin opened /\ ~UnderWay(r) => Freed(r)

CallbackOK(r) == pc[Callback[r]] \in {"idle", "cancel"}

(* A call not made yet is as new. *)
UnmadeOK == \A k \in Ids \ IssuedCalls : Unused(k)

GoInv ==
  /\ RegistryInv /\ CallInv /\ GoTypeOK /\ UnmadeOK /\ ClientOK
  /\ \A g \in Users : PlaceOK(g) /\ HoldsOK(g) /\ AloneOK(g) /\ MadeOK(g) /\ SendOK(g)
                        /\ ReadOK(g) /\ BlameOK(g)
  /\ \A r \in Requests : NativeOK(r) /\ BodyOK(r) /\ OverOK(r) /\ CallbackOK(r)

-----------------------------------------------------------------------------
(* What a step is, and what it is to the bridge. *)

DoStep(g) ==
  \/ DoId(g) \/ DoNew(g) \/ DoMade(g) \/ DoSend(g) \/ DoSent(g)
  \/ DoDrop(g) \/ DoDropped(g) \/ DoCtx(g) \/ DoHandle(g)
ReadStep(g) ==
  \/ ReadCheck(g) \/ ReadCall(g) \/ ReadDone(g) \/ ReadFail(g)
  \/ ReadCtx(g) \/ ReadHandle(g) \/ ReadStop(g) \/ ReadFreed(g)
CloseStep(g) ==
  CloseBodyCall(g) \/ CloseBodyDone(g) \/ CloseClientCall(g) \/ CloseClientDone(g)

GoStep(g) == Call(g) \/ DoStep(g) \/ ReadStep(g) \/ CloseStep(g)

LEMMA ThreadsSplit ==
  /\ Users \subseteq Threads
  /\ \A r \in Requests : Callback[r] \in Threads /\ Callback[r] \notin Users
  /\ \A t \in Threads : t \in Users \/ \E r \in Requests : t = Callback[r]
  /\ NoThread \notin Users
BY CallbackAssumption, BridgeAssumption DEF Users, Callbacks

LEMMA GoSteps ==
  ASSUME GoNext
  PROVE  \/ \E g \in Users : GoStep(g) \/ BridgeStep(g)
         \/ \E r \in Requests : EndContext(r) \/ Fire(r) \/ BridgeStep(Callback[r])
<1>1. ASSUME NEW g \in Users, Call(g) \/ Continue(g) PROVE GoStep(g)
  BY <1>1 DEF GoStep, Continue, DoStep, ReadStep, CloseStep
<1>2. ASSUME NEW t \in Threads, BridgeStep(t)
      PROVE  t \in Users \/ \E r \in Requests : t = Callback[r]
  BY ThreadsSplit
<1> QED BY <1>1, <1>2 DEF GoNext

LEMMA GoInvParts ==
  ASSUME GoInv
  PROVE  /\ RegistryInv /\ CallInv /\ GoTypeOK /\ UnmadeOK /\ ClientOK
         /\ TypeOK /\ RegistryOK /\ CallsOK /\ ThreadsOK
         /\ \A g \in Users : /\ PlaceOK(g) /\ HoldsOK(g) /\ AloneOK(g) /\ MadeOK(g)
                             /\ SendOK(g) /\ ReadOK(g) /\ BlameOK(g)
         /\ \A r \in Requests : NativeOK(r) /\ BodyOK(r) /\ OverOK(r) /\ CallbackOK(r)
BY DEF GoInv, GoTypeOK, TypeOK

(* The classes of places are apart, and are all there is. *)
LEMMA PlacesSplit ==
  ASSUME NEW g \in Users, at[g] \in Positions
  PROVE  \/ at[g] = "idle" \/ at[g] \in Leaving
         \/ InDo(g) \/ InRead(g) \/ InClose(g)
BY DEF Positions, InDo, InRead, InClose, Asking, Sending, Failing, Reading, Closing, Leaving

(* Handles that the package uses are calls that were issued. *)
LEMMA ItsCallIssued ==
  ASSUME GoInv, NEW g \in Users
  PROVE  /\ at[g] \in Sending \union {"doDropped"} \union Reading \union Closing =>
              req[g] \in Requests /\ ItsCall(g) \in IssuedCalls /\ ItsCall(g) \in Ids
         /\ InRead(g) \/ InClose(g) => req[g] \in opened
<1>1. HoldsOK(g) /\ GoTypeOK /\ RegistryOK
  BY GoInvParts
<1>2. req[g] \in Requests => NativeOK(req[g])
  BY GoInvParts
<1>3. InRead(g) \/ InClose(g) => req[g] \in opened
  BY <1>1 DEF HoldsOK, GoTypeOK
<1>4. CASE at[g] \in Sending \union {"doDropped"}
  BY <1>1, <1>2, <1>3, <1>4, IssuedType DEF HoldsOK, NativeOK, InDo, ItsCall, Failing
<1>5. CASE at[g] \in Reading \union Closing
  <2>1. req[g] \in Requests /\ req[g] \in opened
    BY <1>1, <1>3, <1>5 DEF HoldsOK, InRead, InClose
  <2>2. native[req[g]] # 0
    BY <1>2, <2>1 DEF NativeOK
  <2> QED BY <1>1, <1>2, <1>3, <2>1, <2>2, IssuedType DEF NativeOK, ItsCall
<1> QED BY <1>3, <1>4, <1>5

(* To the bridge a step of the package is a step of one of its threads. *)
LEMMA BridgeNext ==
  ASSUME GoInv, [GoNext]_allVars
  PROVE  [Next]_vars
<1>1. \A g \in Users : g \in Threads
  BY ThreadsSplit
<1>2. TheClient \in IssuedClients
  BY GoInvParts DEF ClientOK
<1>3. ASSUME NEW g \in Users, Call(g) PROVE UNCHANGED vars
  BY <1>3 DEF Call, DoStart, ReadLock, CloseBody, CloseClient
<1>4. ASSUME NEW g \in Users, DoStep(g) PROVE [Next]_vars
  <2>1. CASE DoNew(g)
    BY <1>1, <1>2, <2>1 DEF DoNew, Next, Enter
  <2>2. CASE DoSend(g) \/ DoDrop(g)
    <3>1. at[g] \in Sending
      BY <2>2 DEF DoSend, DoDrop, Sending
    <3>2. native[req[g]] \in IssuedCalls
      BY <3>1, ItsCallIssued DEF ItsCall
    <3> QED BY <1>1, <2>2, <3>2 DEF DoSend, DoDrop, Next, Enter
  <2> QED BY <1>4, <2>1, <2>2 DEF DoStep, DoId, DoMade, DoSent, DoDropped, DoCtx, DoHandle
<1>5. ASSUME NEW g \in Users, ReadStep(g) PROVE [Next]_vars
  <2>1. CASE ReadCall(g) \/ ReadStop(g)
    <3>1. at[g] \in Reading
      BY <2>1 DEF ReadCall, ReadStop, Reading
    <3>2. native[req[g]] \in IssuedCalls
      BY <3>1, ItsCallIssued DEF ItsCall
    <3> QED BY <1>1, <2>1, <3>2 DEF ReadCall, ReadStop, Next, Enter
  <2> QED BY <1>5, <2>1
          DEF ReadStep, ReadCheck, ReadDone, ReadFail, ReadCtx, ReadHandle, ReadFreed
<1>6. ASSUME NEW g \in Users, CloseStep(g) PROVE [Next]_vars
  <2>1. CASE CloseBodyCall(g)
    <3>1. at[g] \in Closing
      BY <2>1 DEF CloseBodyCall, Closing
    <3>2. native[req[g]] \in IssuedCalls
      BY <3>1, ItsCallIssued DEF ItsCall
    <3> QED BY <1>1, <2>1, <3>2 DEF CloseBodyCall, Next, Enter
  <2>2. CASE CloseClientCall(g)
    BY <1>1, <1>2, <2>2 DEF CloseClientCall, Next, Enter
  <2> QED BY <1>6, <2>1, <2>2 DEF CloseStep, CloseBodyDone, CloseClientDone
<1>7. ASSUME NEW r \in Requests, Fire(r) PROVE [Next]_vars
  <2>1. native[r] \in IssuedCalls
    BY <1>7, GoInvParts DEF Fire, NativeOK
  <2> QED BY <1>7, <2>1, ThreadsSplit DEF Fire, Next, Enter
<1>8. ASSUME NEW r \in Requests, EndContext(r) PROVE UNCHANGED vars
  BY <1>8 DEF EndContext
<1>9. ASSUME NEW t \in Threads, BridgeStep(t) PROVE [Next]_vars
  BY <1>9 DEF BridgeStep, Next
<1>10. CASE UNCHANGED allVars
  BY <1>10 DEF allVars
<1> QED BY <1>1, <1>3, <1>4, <1>5, <1>6, <1>7, <1>8, <1>9, <1>10, GoSteps, ThreadsSplit DEF GoStep

-----------------------------------------------------------------------------
(* Type correctness. *)

LEMMA TypedCall ==
  ASSUME GoInv, TypeOK', NEW g \in Users, Call(g)
  PROVE  GoTypeOK'
<1>1. GoTypeOK
  BY GoInvParts
<1> USE <1>1 DEF GoTypeOK
<1>2. ASSUME NEW r \in Requests, DoStart(g, r) PROVE GoTypeOK'
  BY <1>2 DEF DoStart, Begin, BeginAndGive, clientVars, contextVars, bodyVars, Positions, Errors
<1>3. ASSUME NEW r \in Requests, ReadLock(g, r) PROVE GoTypeOK'
  BY <1>3 DEF ReadLock, Begin, clientVars, contextVars, requestVars, Positions
<1>4. ASSUME NEW r \in Requests, CloseBody(g, r) PROVE GoTypeOK'
  BY <1>4 DEF CloseBody, Begin, BeginAndGive, Stop, clientVars, requestVars, Positions
<1>5. CASE CloseClient(g)
  BY <1>5 DEF CloseClient, Begin, BeginAndGive, clientVars, contextVars, requestVars, bodyVars, Positions
<1> QED BY <1>2, <1>3, <1>4, <1>5 DEF Call

LEMMA TypedDo ==
  ASSUME GoInv, TypeOK', NEW g \in Users, DoStep(g)
  PROVE  GoTypeOK'
<1>1. GoTypeOK /\ ThreadsOK /\ HoldsOK(g) /\ BlameOK(g)
  BY GoInvParts
<1>2. g \in Threads
  BY ThreadsSplit
<1>3. arg[g] \in 0 .. MaxId /\ res[g] \in Results /\ "none" \in Results
  BY <1>1, <1>2 DEF ThreadsOK, Results
<1> USE <1>1, <1>3 DEF GoTypeOK, clientVars, contextVars, requestVars, bodyVars
<1>4. CASE DoId(g)
  BY <1>4 DEF DoId, Give, Go, Errors, Positions
<1>5. CASE DoNew(g) \/ DoSend(g) \/ DoDrop(g) \/ DoDropped(g)
  BY <1>5 DEF DoNew, DoSend, DoDrop, DoDropped, Go, Positions
<1>6. CASE DoMade(g)
  BY <1>6 DEF DoMade, Go, Blame, Positions
<1>7. CASE DoSent(g)
  <2>1. req[g] \in started
    BY <1>7 DEF DoSent, Back, HoldsOK, InDo, Sending
  <2> QED BY <1>7, <2>1 DEF DoSent, Give, Blame, Stop, Positions
<1>8. CASE DoCtx(g)
  BY <1>8 DEF DoCtx, Give, Go, Errors, Positions
<1>9. CASE DoHandle(g)
  <2>1. cause[g] \in Errors
    BY <1>9 DEF DoHandle, BlameOK, Failing, Errors
  <2>2. \E v \in Errors : Give(g, v)
    BY <1>9, <2>1 DEF DoHandle, Errors
  <2> QED BY <1>9, <2>2 DEF DoHandle, Give, Positions
<1> QED BY <1>4, <1>5, <1>6, <1>7, <1>8, <1>9 DEF DoStep

LEMMA TypedRead ==
  ASSUME GoInv, TypeOK', NEW g \in Users, ReadStep(g)
  PROVE  GoTypeOK'
<1>1. GoTypeOK /\ ThreadsOK /\ ReadOK(g) /\ HoldsOK(g)
  BY GoInvParts
<1>2. g \in Threads
  BY ThreadsSplit
<1>3. arg[g] \in 0 .. MaxId /\ res[g] \in Results /\ "none" \in Results
  BY <1>1, <1>2 DEF ThreadsOK, Results
<1>4. at[g] \in Reading => req[g] \in Requests
  BY ItsCallIssued
<1> USE <1>1, <1>3 DEF GoTypeOK, clientVars, contextVars, requestVars, bodyVars, Unlock
<1>5. CASE ReadCheck(g)
  <2>1. err[req[g]] \in Errors \union {"none"}
    BY <1>4, <1>5 DEF ReadCheck, Reading
  <2>2. \/ \E v \in Errors : Give(g, v) /\ readMu' = [readMu EXCEPT ![req[g]] = NoThread]
        \/ Go(g, "rdCall") /\ UNCHANGED readMu
    BY <1>5, <2>1 DEF ReadCheck, Errors
  <2> QED BY <1>5, <2>2 DEF ReadCheck, Give, Go, Positions
<1>6. CASE ReadCall(g) \/ ReadStop(g)
  BY <1>6 DEF ReadCall, ReadStop, Stop, Go, Positions
<1>7. CASE ReadDone(g)
  BY <1>7 DEF ReadDone, Give, Blame, Positions
<1>8. CASE ReadFail(g) \/ ReadCtx(g) \/ ReadHandle(g)
  <2>1. cause[g] \in Errors
    BY <1>8 DEF ReadFail, ReadCtx, ReadHandle, ReadOK, Excused, Errors
  <2>2. \/ \E v \in Errors : Settle(g, req[g], v)
        \/ \E p \in Positions : Go(g, p) /\ UNCHANGED err /\ (UNCHANGED bodyMu \/ bodyMu' = [bodyMu EXCEPT ![req[g]] = g])
    BY <1>8, <2>1 DEF ReadFail, ReadCtx, ReadHandle, Errors, Positions
  <2>3. UNCHANGED <<handle, mu, ctxDone, after, native, started, opened, closed, readMu>>
    BY <1>8 DEF ReadFail, ReadCtx, ReadHandle
  <2> QED BY <2>2, <2>3 DEF Settle, Go, Positions
<1>9. CASE ReadFreed(g)
  BY <1>9 DEF ReadFreed, Give, Positions
<1> QED BY <1>5, <1>6, <1>7, <1>8, <1>9 DEF ReadStep

LEMMA GoTyped ==
  ASSUME GoInv, [GoNext]_allVars
  PROVE  GoTypeOK'
<1>1. TypeOK' /\ GoTypeOK
  BY BridgeNext, TypeNext, GoInvParts
<1>2. ASSUME NEW g \in Users, GoStep(g) PROVE GoTypeOK'
  <2>1. CASE CloseStep(g)
    BY <1>1, <2>1 DEF CloseStep, CloseBodyCall, CloseBodyDone, CloseClientCall, CloseClientDone,
         GoTypeOK, Go, Give, Unlock, Positions, Results, clientVars, contextVars, requestVars, bodyVars
  <2> QED BY <1>1, <1>2, <2>1, TypedCall, TypedDo, TypedRead DEF GoStep
<1>3. ASSUME NEW t \in Threads, BridgeStep(t) PROVE GoTypeOK'
  BY <1>1, <1>3 DEF BridgeStep, GoTypeOK, packageVars, clientVars, contextVars, requestVars,
       bodyVars, goVars
<1>4. ASSUME NEW r \in Requests, EndContext(r) \/ Fire(r) PROVE GoTypeOK'
  BY <1>1, <1>4 DEF EndContext, Fire, GoTypeOK, clientVars, contextVars, requestVars, bodyVars, goVars
<1>5. CASE UNCHANGED allVars
  BY <1>1, <1>5 DEF allVars, GoTypeOK, packageVars, clientVars, contextVars, requestVars,
       bodyVars, goVars
<1> QED BY <1>2, <1>3, <1>4, <1>5, GoSteps, ThreadsSplit

-----------------------------------------------------------------------------
(* What a step does to others.  S holds the goroutine that moves, if one   *)
(* does. *)

Still(h) == UNCHANGED <<at[h], req[h], cause[h], ret[h], pc[h], op[h], arg[h], res[h]>>

CallForward(S, k) ==
  /\ k \in IssuedCalls'
  /\ k \in calls' => k \in calls
  /\ k \in calls /\ k \notin calls' =>
       TheClient \notin clients' \/ \E r \in Requests : native[r] = k
  /\ phase[k] # "Ready" => phase'[k] # "Ready"
  /\ \/ UNCHANGED <<phase[k], lock[k], out[k], k \in failed>>
     \/ \E g \in S : arg[g] = k /\ pc[g] \in {"poll", "body"}

CallsForward(S) ==
  /\ clients' \subseteq clients
  /\ cancelled \subseteq cancelled'
  /\ \A k \in IssuedCalls : CallForward(S, k)

RequestForward(S, r) ==
  /\ r \in started => r \in started'
  /\ r \in opened => r \in opened'
  /\ r \in opened' => r \in opened \/ \E g \in S : at[g] = "doSent" /\ req[g] = r
  /\ r \in closed => r \in closed'
  /\ r \in closed' => r \in closed \/ bodyMu[r] = NoThread
  /\ native'[r] = native[r] \/ \E g \in S : Made(g) /\ req[g] = r /\ native'[r] = arg[g]
  /\ after'[r] = "armed" => after[r] = "armed" \/ \E g \in S : at[g] = "doMade" /\ req[g] = r
  /\ err'[r] = err[r] \/ \E g \in S : InRead(g) /\ req[g] = r
  /\ readMu'[r] = readMu[r] \/ readMu[r] = NoThread \/ \E g \in S : InRead(g) /\ req[g] = r
  /\ bodyMu'[r] = bodyMu[r] \/ bodyMu[r] = NoThread \/ \E g \in S : bodyMu[r] = g

Forward(S) ==
  /\ CallsForward(S)
  /\ \A r \in Requests : RequestForward(S, r)
  /\ handle' \in {0, handle}
  /\ ctxDone \subseteq ctxDone'

(* A bridge step leaves calls alone that its thread is not at work on.     *)
LEMMA StepForward ==
  ASSUME GoInv, NEW t \in Threads, Step(t), NEW S \in SUBSET Users, t \in Users => t \in S
  PROVE  CallsForward(S)
<1>1. /\ TypeOK /\ RegistryOK /\ CallsOK /\ ThreadsOK /\ LockHeldByWorker
      /\ RegistryInv /\ PhaseExplained
  BY GoInvParts DEF CallInv
<1>2. pc[t] \in {"poll", "body"} => t \in S /\ arg[t] \in Ids
  <2>1. \A r \in Requests : pc[Callback[r]] \notin {"poll", "body"}
    BY GoInvParts DEF CallbackOK
  <2>2. pc[t] \in {"poll", "body"} => arg[t] \in Ids
    BY <1>1 DEF ThreadsOK
  <2> QED BY <2>1, <2>2, ThreadsSplit
<1>3. IssuedCalls \subseteq Ids
  BY <1>1, IssuedType
<1>4. ASSUME UNCHANGED registryVars, UNCHANGED <<phase, lock, out, failed>>, cancelled \subseteq cancelled'
      PROVE  CallsForward(S)
  BY <1>4 DEF CallsForward, CallForward, registryVars, IssuedCalls, Issued
<1>5. ASSUME UNCHANGED registryVars, UNCHANGED cancelled, pc[t] \in {"poll", "body"},
             \A k \in Ids : k # arg[t] => UNCHANGED <<phase[k], lock[k], out[k], k \in failed>>,
             phase[arg[t]] # "Ready" => phase'[arg[t]] # "Ready"
      PROVE  CallsForward(S)
  <2>1. ASSUME NEW k \in IssuedCalls PROVE CallForward(S, k)
    BY <1>2, <1>3, <1>5, <2>1 DEF CallForward, registryVars, IssuedCalls, Issued
  <2> QED BY <1>5, <2>1 DEF CallsForward, registryVars
<1>6. CASE Cancel(t)
  BY <1>4, <1>6 DEF Cancel, callVars, history
<1>7. CASE Register(t)
  <2>1. /\ UNCHANGED <<clients, cancelled, phase, lock, out, failed>>
        /\ \/ UNCHANGED <<nextId, calls, owner>>
           \/ \E h \in Ids : /\ Issue(h) /\ arg[t] \in clients
                             /\ calls' = calls \union {h} /\ owner' = [owner EXCEPT ![h] = arg[t]]
    BY <1>7 DEF Register, callVars, history, StillOpen
  <2>2. CASE UNCHANGED <<nextId, calls, owner>>
    BY <1>4, <2>1, <2>2 DEF registryVars
  <2>3. ASSUME NEW h \in Ids, Issue(h), arg[t] \in clients,
               calls' = calls \union {h}, owner' = [owner EXCEPT ![h] = arg[t]]
        PROVE  CallsForward(S)
    <3>1. Issued' = Issued \union {h} /\ h \notin Issued
      BY <1>1, <2>3, IssuedGrows
    <3>2. \A k \in IssuedCalls : k \in Issued /\ k # h /\ owner'[k] = owner[k] /\ owner[k] # 0
      BY <1>1, <1>3, <2>3, <3>1 DEF IssuedCalls, RegistryOK
    <3>3. \A k \in IssuedCalls : k \in IssuedCalls' /\ (k \in calls' <=> k \in calls)
      BY <2>3, <3>1, <3>2 DEF IssuedCalls
    <3> QED BY <2>1, <3>3 DEF CallsForward, CallForward
  <2> QED BY <2>1, <2>2, <2>3
<1>8. CASE Abort(t)
  <2>1. ASSUME NEW k \in Ids, k # arg[t] PROVE UNCHANGED <<phase[k], lock[k], out[k], k \in failed>>
    <3>1. lock[k] # t
      BY <1>1, <2>1, BridgeAssumption DEF LockHeldByWorker
    <3> QED BY <1>1, <1>8, <2>1, <3>1 DEF Abort, Dropped, history
  <2> QED BY <1>5, <1>8, <2>1 DEF Abort
<1>9. CASE Poll(t) \/ Suspend(t)
  BY <1>4, <1>9 DEF Poll, Suspend, callVars, history
<1>10. CASE SendStart(t) \/ SendAnswer(t)
  <2>1. pc[t] = "body" /\ UNCHANGED <<registryVars, cancelled, out>>
    BY <1>10 DEF SendStart, SendAnswer, InBody
  <2>2. \A k \in Ids : k # arg[t] => UNCHANGED <<phase[k], lock[k], k \in failed>>
    BY <1>1, <1>10 DEF SendStart, SendAnswer, Transmit, OpenStream, CallsOK
  <2>3. phase[arg[t]] # "Ready" => phase'[arg[t]] # "Ready"
    BY <1>1, <1>2, <1>10, <2>1 DEF SendStart, SendAnswer, Transmit, OpenStream, CallsOK
  <2> QED BY <1>5, <2>1, <2>2, <2>3
<1>11. CASE ReadStart(t)
  <2>1. pc[t] = "body" /\ UNCHANGED <<registryVars, cancelled, phase, failed>>
    BY <1>11 DEF ReadStart, InBody
  <2>2. \A k \in Ids : k # arg[t] => UNCHANGED <<lock[k], out[k]>>
    BY <1>1, <1>11 DEF ReadStart, Deliver, CallsOK
  <2> QED BY <1>5, <2>1, <2>2
<1>12. CASE ReadAnswer(t)
  <2>1. pc[t] = "body" /\ UNCHANGED <<registryVars, cancelled>>
    BY <1>12 DEF ReadAnswer, InBody
  <2>2. \A k \in Ids : k # arg[t] => UNCHANGED <<phase[k], lock[k], out[k], k \in failed>>
    BY <1>1, <1>12 DEF ReadAnswer, Deliver, CallsOK
  <2>3. phase[arg[t]] # "Ready" => phase'[arg[t]] # "Ready"
    BY <1>1, <1>2, <1>12, <2>1 DEF ReadAnswer, CallsOK
  <2> QED BY <1>5, <2>1, <2>2, <2>3
<1> QED BY <1>6, <1>7, <1>8, <1>9, <1>10, <1>11, <1>12 DEF Step

(* Entering the bridge, a thread takes handles out of the registry at most.*)
LEMMA EnterForward ==
  ASSUME GoInv, NEW t \in Threads, NEW S \in SUBSET Users,
         \/ CreateRequest(t, TheClient) \/ Close(t, TheClient)
         \/ \E r \in Requests : CloseRequest(t, native[r]) \/ Send(t, native[r]) \/ Read(t, native[r])
  PROVE  CallsForward(S)
<1>1. UNCHANGED <<nextId, owner, cancelled, phase, lock, out, failed>> /\ clients' \subseteq clients
  BY DEF CreateRequest, Close, CloseRequest, Send, Read, Lookup, registryVars, callVars, history
<1>2. calls' \subseteq calls
  BY DEF CreateRequest, Close, CloseRequest, Send, Read, Lookup, registryVars
<1>3. \A k \in calls : k \notin calls' => TheClient \notin clients' \/ \E r \in Requests : native[r] = k
  BY DEF CreateRequest, Close, CloseRequest, Send, Read, Lookup, registryVars
<1>4. IssuedCalls' = IssuedCalls
  BY <1>1 DEF IssuedCalls, Issued
<1> QED BY <1>1, <1>2, <1>3, <1>4 DEF CallsForward, CallForward

LEMMA QuietForward ==
  ASSUME UNCHANGED vars, NEW S \in SUBSET Users
  PROVE  CallsForward(S)
BY DEF CallsForward, CallForward, vars, registryVars, callVars, history, IssuedCalls, Issued

LEMMA ForwardCalls ==
  ASSUME GoInv, NEW g \in Users, Call(g)
  PROVE  Forward({g})
<1>0. GoTypeOK
  BY GoInvParts
<1> USE <1>0 DEF Forward, RequestForward, GoTypeOK
<1>1. CallsForward({g})
  BY QuietForward DEF Call, DoStart, ReadLock, CloseBody, CloseClient
<1>2. ASSUME NEW r \in Requests, DoStart(g, r) PROVE Forward({g})
  BY <1>1, <1>2 DEF DoStart, clientVars, contextVars, bodyVars
<1>3. ASSUME NEW r \in Requests, ReadLock(g, r) PROVE Forward({g})
  BY <1>1, <1>3 DEF ReadLock, clientVars, contextVars, requestVars
<1>4. ASSUME NEW r \in Requests, CloseBody(g, r) PROVE Forward({g})
  BY <1>1, <1>4 DEF CloseBody, Stop, clientVars, requestVars
<1>5. CASE CloseClient(g)
  BY <1>1, <1>5 DEF CloseClient, clientVars, contextVars, requestVars, bodyVars
<1> QED BY <1>2, <1>3, <1>4, <1>5 DEF Call

LEMMA ForwardDo ==
  ASSUME GoInv, NEW g \in Users, DoStep(g)
  PROVE  Forward({g})
<1>0. GoTypeOK /\ HoldsOK(g)
  BY GoInvParts
<1>1. g \in Threads
  BY ThreadsSplit
<1>2. at[g] \in Asking \union Sending \union Failing => req[g] \in Requests
  BY <1>0 DEF HoldsOK, InDo
<1> USE <1>0, <1>2 DEF Forward, RequestForward, GoTypeOK, Asking, Sending, Failing
<1>3. CASE DoNew(g)
  <2>1. CallsForward({g})
    BY <1>1, <1>3, EnterForward DEF DoNew
  <2> QED BY <1>3, <2>1 DEF DoNew, clientVars, contextVars, requestVars, bodyVars
<1>4. CASE DoSend(g)
  <2>1. CallsForward({g})
    BY <1>1, <1>4, EnterForward DEF DoSend
  <2> QED BY <1>4, <2>1 DEF DoSend, clientVars, contextVars, requestVars, bodyVars
<1>5. CASE DoDrop(g)
  <2>1. CallsForward({g})
    BY <1>1, <1>5, EnterForward DEF DoDrop
  <2> QED BY <1>5, <2>1 DEF DoDrop, clientVars, contextVars, requestVars, bodyVars
<1>6. CASE DoMade(g)
  <2>1. CallsForward({g})
    BY <1>6, QuietForward DEF DoMade
  <2> QED BY <1>6, <2>1 DEF DoMade, Back, Succeeded, Made, clientVars, contextVars, requestVars, bodyVars
<1>7. CASE DoSent(g)
  <2>1. CallsForward({g})
    BY <1>7, QuietForward DEF DoSent
  <2> QED BY <1>7, <2>1 DEF DoSent, Back, Stop, clientVars, contextVars, requestVars, bodyVars
<1>8. CASE DoId(g) \/ DoDropped(g) \/ DoCtx(g) \/ DoHandle(g)
  <2>1. CallsForward({g})
    BY <1>8, QuietForward DEF DoId, DoDropped, DoCtx, DoHandle
  <2> QED BY <1>8, <2>1 DEF DoId, DoDropped, DoCtx, DoHandle, clientVars, contextVars, requestVars, bodyVars
<1> QED BY <1>3, <1>4, <1>5, <1>6, <1>7, <1>8 DEF DoStep

LEMMA ForwardRead ==
  ASSUME GoInv, NEW g \in Users, ReadStep(g)
  PROVE  Forward({g})
<1>0. GoTypeOK /\ HoldsOK(g)
  BY GoInvParts
<1>1. g \in Threads
  BY ThreadsSplit
<1>2. at[g] \in Reading => req[g] \in Requests
  BY ItsCallIssued
<1> USE <1>0, <1>2 DEF Forward, RequestForward, GoTypeOK, Reading, InRead, Unlock,
      clientVars, contextVars, requestVars, bodyVars
<1>3. CASE ReadCall(g)
  <2>1. CallsForward({g})
    BY <1>1, <1>3, EnterForward DEF ReadCall
  <2> QED BY <1>3, <2>1 DEF ReadCall
<1>4. CASE ReadStop(g)
  <2>1. CallsForward({g})
    BY <1>1, <1>4, EnterForward DEF ReadStop
  <2> QED BY <1>4, <2>1 DEF ReadStop, Stop
<1>5. CASE ReadCheck(g) \/ ReadDone(g) \/ ReadFreed(g)
  <2>1. CallsForward({g})
    BY <1>5, QuietForward DEF ReadCheck, ReadDone, ReadFreed
  <2>2. UNCHANGED <<handle, mu, ctxDone, after, native, started, opened, closed, err, bodyMu>>
    BY <1>5 DEF ReadCheck, ReadDone, ReadFreed
  <2>3. /\ readMu' = readMu \/ readMu' = [readMu EXCEPT ![req[g]] = NoThread]
        /\ at[g] \in Reading
    BY <1>5 DEF ReadCheck, ReadDone, ReadFreed, Back
  <2> QED BY <2>1, <2>2, <2>3
<1>6. CASE ReadFail(g)
  <2>1. CallsForward({g})
    BY <1>6, QuietForward DEF ReadFail
  <2> QED BY <1>6, <2>1 DEF ReadFail, Settle
<1>7. CASE ReadCtx(g) \/ ReadHandle(g)
  <2>1. CallsForward({g})
    BY <1>7, QuietForward DEF ReadCtx, ReadHandle
  <2>2. bodyMu[req[g]] = g
    BY <1>7 DEF ReadCtx, ReadHandle, HoldsOK
  <2> QED BY <1>7, <2>1, <2>2 DEF ReadCtx, ReadHandle, Settle
<1> QED BY <1>3, <1>4, <1>5, <1>6, <1>7 DEF ReadStep

LEMMA ForwardClose ==
  ASSUME GoInv, NEW g \in Users, CloseStep(g)
  PROVE  Forward({g})
<1>0. GoTypeOK /\ HoldsOK(g)
  BY GoInvParts
<1>1. g \in Threads
  BY ThreadsSplit
<1>2. at[g] \in Closing => req[g] \in Requests
  BY ItsCallIssued
<1> USE <1>0, <1>2 DEF Forward, RequestForward, GoTypeOK, Closing, InClose, Unlock,
      clientVars, contextVars, requestVars, bodyVars
<1>3. CASE CloseBodyCall(g)
  <2>1. CallsForward({g})
    BY <1>1, <1>3, EnterForward DEF CloseBodyCall
  <2> QED BY <1>3, <2>1 DEF CloseBodyCall
<1>4. CASE CloseBodyDone(g)
  <2>1. CallsForward({g})
    BY <1>4, QuietForward DEF CloseBodyDone
  <2>2. bodyMu[req[g]] = g
    BY <1>4 DEF CloseBodyDone, Back, HoldsOK
  <2> QED BY <1>4, <2>1, <2>2 DEF CloseBodyDone
<1>5. CASE CloseClientCall(g)
  <2>1. CallsForward({g})
    BY <1>1, <1>5, EnterForward DEF CloseClientCall
  <2> QED BY <1>5, <2>1 DEF CloseClientCall
<1>6. CASE CloseClientDone(g)
  <2>1. CallsForward({g})
    BY <1>6, QuietForward DEF CloseClientDone
  <2> QED BY <1>6, <2>1 DEF CloseClientDone
<1> QED BY <1>3, <1>4, <1>5, <1>6 DEF CloseStep

LEMMA ForwardElse ==
  ASSUME GoInv, NEW S \in SUBSET Users
  PROVE  /\ \A t \in Threads : BridgeStep(t) /\ (t \in Users => t \in S) => Forward(S)
         /\ \A r \in Requests : EndContext(r) \/ Fire(r) => Forward(S)
         /\ UNCHANGED allVars => Forward(S)
<1>0. GoTypeOK
  BY GoInvParts
<1> USE <1>0 DEF Forward, RequestForward, GoTypeOK, clientVars, contextVars, requestVars, bodyVars
<1>1. ASSUME NEW t \in Threads, BridgeStep(t), t \in Users => t \in S PROVE Forward(S)
  <2>1. CallsForward(S)
    BY <1>1, StepForward DEF BridgeStep
  <2> QED BY <1>1, <2>1 DEF BridgeStep, packageVars
<1>2. ASSUME NEW r \in Requests, EndContext(r) PROVE Forward(S)
  <2>1. CallsForward(S)
    BY <1>2, QuietForward DEF EndContext
  <2> QED BY <1>2, <2>1 DEF EndContext
<1>3. ASSUME NEW r \in Requests, Fire(r) PROVE Forward(S)
  <2>1. CallsForward(S)
    BY <1>3, EnterForward, ThreadsSplit DEF Fire
  <2> QED BY <1>3, <2>1 DEF Fire
<1>4. ASSUME UNCHANGED allVars PROVE Forward(S)
  <2>1. CallsForward(S)
    BY <1>4, QuietForward DEF allVars
  <2> QED BY <1>4, <2>1 DEF allVars, packageVars
<1> QED BY <1>1, <1>2, <1>3, <1>4

(* A step moves at most the goroutine that takes it. *)
LEMMA OthersStill ==
  ASSUME GoInv, NEW h \in Users
  PROVE  /\ \A g \in Users \ {h} : GoStep(g) \/ BridgeStep(g) => Still(h)
         /\ \A r \in Requests : EndContext(r) \/ Fire(r) \/ BridgeStep(Callback[r]) => Still(h)
         /\ UNCHANGED allVars => Still(h)
<1>0. GoTypeOK /\ ThreadsOK /\ h \in Threads
  BY GoInvParts, ThreadsSplit
<1>1. ASSUME NEW t \in Threads, t # h, Step(t) PROVE UNCHANGED <<pc[h], op[h], arg[h], res[h]>>
  BY <1>0, <1>1 DEF ThreadsOK, Step, Cancel, Register, Abort, Poll, Suspend, SendStart, SendAnswer,
     ReadStart, ReadAnswer, Return, Goto, Transmit, threadVars
<1>2. ASSUME NEW t \in Threads, t # h,
             \/ CreateRequest(t, TheClient) \/ Close(t, TheClient)
             \/ \E r \in Requests : CloseRequest(t, native[r]) \/ Send(t, native[r]) \/ Read(t, native[r])
      PROVE  UNCHANGED <<pc[h], op[h], arg[h], res[h]>>
  BY <1>0, <1>2 DEF ThreadsOK, CreateRequest, Close, CloseRequest, Send, Read, Lookup, Start,
     StartAndReturn
<1>3. ASSUME UNCHANGED vars PROVE UNCHANGED <<pc[h], op[h], arg[h], res[h]>>
  BY <1>3 DEF vars, threadVars
<1>4. ASSUME UNCHANGED goVars PROVE UNCHANGED <<at[h], req[h], cause[h], ret[h]>>
  BY <1>4 DEF goVars
<1>5. ASSUME NEW g \in Users, g # h,
             \/ \E p : Go(g, p) \/ Blame(g, p)
             \/ \E r, p : Begin(g, r, p)
             \/ \E v : BeginAndGive(g, v) \/ Give(g, v)
             \/ \E r, v : Settle(g, r, v)
      PROVE  UNCHANGED <<at[h], req[h], cause[h], ret[h]>>
  BY <1>0, <1>5 DEF GoTypeOK, Go, Blame, Begin, BeginAndGive, Give, Settle
<1>6. ASSUME NEW g \in Users, g # h, GoStep(g) PROVE Still(h)
  <2>0. g \in Threads
    BY ThreadsSplit
  <2>1. CASE Call(g)
    BY <1>3, <1>5, <1>6, <2>1 DEF Call, DoStart, ReadLock, CloseBody, CloseClient, Still
  <2>2. CASE DoStep(g)
    <3>1. at[g] \in Sending => req[g] \in Requests
      BY ItsCallIssued
    <3>2. CASE DoNew(g) \/ DoSend(g) \/ DoDrop(g)
      BY <1>2, <1>5, <1>6, <2>0, <3>1, <3>2 DEF DoNew, DoSend, DoDrop, Still, Sending
    <3> QED BY <1>3, <1>5, <1>6, <2>2, <3>2
            DEF DoStep, DoId, DoMade, DoSent, DoDropped, DoCtx, DoHandle, Still
  <2>3. CASE ReadStep(g)
    <3>1. at[g] \in Reading => req[g] \in Requests
      BY ItsCallIssued
    <3>2. CASE ReadCall(g) \/ ReadStop(g)
      BY <1>2, <1>5, <1>6, <2>0, <3>1, <3>2 DEF ReadCall, ReadStop, Still, Reading
    <3> QED BY <1>3, <1>5, <1>6, <2>3, <3>2
            DEF ReadStep, ReadCheck, ReadDone, ReadFail, ReadCtx, ReadHandle, ReadFreed, Still
  <2>4. CASE CloseStep(g)
    <3>1. at[g] \in Closing => req[g] \in Requests
      BY ItsCallIssued
    <3>2. CASE CloseBodyCall(g) \/ CloseClientCall(g)
      BY <1>2, <1>5, <1>6, <2>0, <3>1, <3>2 DEF CloseBodyCall, CloseClientCall, Still, Closing
    <3> QED BY <1>3, <1>5, <1>6, <2>4, <3>2 DEF CloseStep, CloseBodyDone, CloseClientDone, Still
  <2> QED BY <1>6, <2>1, <2>2, <2>3, <2>4 DEF GoStep
<1>7. ASSUME NEW t \in Threads, t # h, BridgeStep(t) PROVE Still(h)
  <2>1. UNCHANGED goVars
    BY <1>7 DEF BridgeStep, packageVars
  <2> QED BY <1>1, <1>4, <1>7, <2>1 DEF BridgeStep, Still
<1>8. ASSUME NEW r \in Requests, Fire(r) PROVE Still(h)
  BY <1>2, <1>4, <1>8, ThreadsSplit DEF Fire, Still
<1>9. ASSUME NEW r \in Requests, EndContext(r) PROVE Still(h)
  BY <1>3, <1>4, <1>9 DEF EndContext, Still
<1>10. ASSUME UNCHANGED allVars PROVE Still(h)
  BY <1>3, <1>4, <1>10 DEF allVars, packageVars, Still
<1> QED BY <1>6, <1>7, <1>8, <1>9, <1>10, ThreadsSplit

-----------------------------------------------------------------------------
(* What a goroutine relies on, while others move. *)

(* Nobody else sends or reads the request of a Do or of a Read. *)
LEMMA Undisturbed ==
  ASSUME GoInv, NEW h \in Users, NEW g \in Users, g # h, InDo(h) \/ InRead(h)
  PROVE  /\ req[g] = req[h] => ~InDo(g) /\ ~InRead(g)
         /\ pc[g] \in {"poll", "body"} /\ at[h] \in Sending \union {"doDropped"} \union Reading
              => arg[g] # ItsCall(h)
         /\ Made(h) /\ pc[g] \in {"poll", "body"} => arg[g] # arg[h]
<1>1. /\ HoldsOK(g) /\ HoldsOK(h) /\ AloneOK(g) /\ AloneOK(h) /\ PlaceOK(g) /\ MadeOK(h)
      /\ GoTypeOK
  BY GoInvParts
<1>2. req[g] = req[h] => ~InDo(g) /\ ~InRead(g)
  BY <1>1 DEF HoldsOK, AloneOK
<1>3. CASE pc[g] \in {"poll", "body"}
  <2>1. (InDo(g) \/ InRead(g)) /\ at[g] \in Sending \union Reading /\ arg[g] = ItsCall(g)
    BY <1>1, <1>3 DEF PlaceOK, InDo, InRead, Sending, Reading
  <2>2. req[g] \in Requests /\ native[req[g]] # 0 /\ NativeOK(req[g])
    <3>1. req[g] \in Requests /\ ItsCall(g) \in Ids
      BY <2>1, ItsCallIssued
    <3> QED BY <3>1, GoInvParts DEF ItsCall, Ids
  <2>3. req[g] # req[h]
    BY <1>2, <2>1
  <2>4. at[h] \in Sending \union {"doDropped"} \union Reading => ItsCall(h) # ItsCall(g)
    BY <2>2, <2>3, ItsCallIssued DEF NativeOK, ItsCall
  <2>5. Made(h) => arg[g] # arg[h]
    BY <1>1, <2>1, <2>2 DEF MadeOK, ItsCall
  <2> QED BY <1>2, <2>1, <2>4, <2>5
<1> QED BY <1>2, <1>3

LEMMA ItsRequestStays ==
  ASSUME GoInv, NEW S \in SUBSET Users, Forward(S), NEW h \in Users \ S, req[h] \in Requests
  PROVE  LET r == req[h] IN
         /\ InDo(h) /\ r \in opened' => r \in opened
         /\ InDo(h) => native'[r] = native[r]
         /\ InDo(h) /\ after'[r] = "armed" => after[r] = "armed"
         /\ InRead(h) => native'[r] = native[r] /\ err'[r] = err[r]
         /\ InRead(h) /\ readMu[r] = h => readMu'[r] = h
         /\ InClose(h) => native'[r] = native[r]
         /\ bodyMu[r] = h => bodyMu'[r] = h
         /\ bodyMu[r] = h /\ r \in closed' => r \in closed
<1> DEFINE r == req[h]
<1>1. RequestForward(S, r)
  BY DEF Forward
<1>2. ASSUME NEW g \in S
      PROVE  /\ g \in Users /\ g # h
             /\ req[g] = r /\ (InDo(h) \/ InRead(h)) => ~InDo(g) /\ ~InRead(g)
  BY Undisturbed
<1>3. \A g \in S : at[g] \in {"doSent", "doMade"} => InDo(g)
  BY DEF InDo, Sending, Asking
<1>4. \A g \in S : Made(g) => InDo(g)
  BY <1>3 DEF Made
<1>5. InRead(h) \/ InClose(h) => native[r] # 0
  <2>1. InRead(h) \/ InClose(h) => ItsCall(h) \in Ids
    BY ItsCallIssued DEF InRead, InClose
  <2> QED BY <2>1 DEF ItsCall, Ids
<1>6. \A g \in S : Made(g) => native[req[g]] = 0
  BY GoInvParts DEF Made, HoldsOK, Asking, ItsCall
<1>7. NoThread # h
  BY ThreadsSplit
<1> HIDE DEF r
<1>8. InDo(h) \/ InRead(h) \/ InClose(h) => native'[r] = native[r]
  BY <1>1, <1>2, <1>4, <1>5, <1>6 DEF RequestForward
<1>9. InDo(h) => (r \in opened' => r \in opened) /\ (after'[r] = "armed" => after[r] = "armed")
  BY <1>1, <1>2, <1>3 DEF RequestForward
<1>10. InRead(h) => err'[r] = err[r] /\ (readMu[r] = h => readMu'[r] = h)
  BY <1>1, <1>2, <1>7 DEF RequestForward
<1>11. bodyMu[r] = h => bodyMu'[r] = h /\ (r \in closed' => r \in closed)
  BY <1>1, <1>2, <1>7 DEF RequestForward
<1> QED BY <1>8, <1>9, <1>10, <1>11 DEF r

LEMMA ItsCallStays ==
  ASSUME GoInv, NEW S \in SUBSET Users, Forward(S), NEW h \in Users \ S
  PROVE  /\ at[h] \in Sending \union {"doDropped"} \union Reading =>
              LET k == ItsCall(h) IN
              /\ UNCHANGED <<phase[k], lock[k], out[k], k \in failed>>
              /\ k \in calls' => k \in calls
         /\ Made(h) =>
              LET k == arg[h] IN
              /\ UNCHANGED <<phase[k], lock[k], out[k], k \in failed>>
              /\ k \in IssuedCalls'
              /\ k \in calls' \/ TheClient \notin clients'
<1>1. \A k \in IssuedCalls : CallForward(S, k)
  BY DEF Forward, CallsForward
<1>2. ASSUME at[h] \in Sending \union {"doDropped"} \union Reading
      PROVE  LET k == ItsCall(h) IN
              /\ UNCHANGED <<phase[k], lock[k], out[k], k \in failed>>
              /\ k \in calls' => k \in calls
  <2>1. ItsCall(h) \in IssuedCalls /\ (InDo(h) \/ InRead(h))
    BY <1>2, ItsCallIssued DEF InDo, InRead, Failing
  <2>2. \A g \in S : pc[g] \in {"poll", "body"} => arg[g] # ItsCall(h)
    BY <1>2, <2>1, Undisturbed
  <2>3. CallForward(S, ItsCall(h))
    BY <1>1, <2>1
  <2>4. UNCHANGED <<phase[ItsCall(h)], lock[ItsCall(h)], out[ItsCall(h)], ItsCall(h) \in failed>>
    BY <2>2, <2>3 DEF CallForward
  <2> QED BY <2>3, <2>4 DEF CallForward
<1>3. ASSUME Made(h)
      PROVE  LET k == arg[h] IN
              /\ UNCHANGED <<phase[k], lock[k], out[k], k \in failed>>
              /\ k \in IssuedCalls'
              /\ k \in calls' \/ TheClient \notin clients'
  <2>1. /\ arg[h] \in IssuedCalls /\ InDo(h) /\ \A r \in Requests : native[r] # arg[h]
        /\ arg[h] \in calls \/ TheClient \notin clients
    BY <1>3, GoInvParts DEF InDo, Made, Asking, MadeOK
  <2>2. \A g \in S : pc[g] \in {"poll", "body"} => arg[g] # arg[h]
    BY <1>3, <2>1, Undisturbed
  <2>3. clients' \subseteq clients
    BY DEF Forward, CallsForward
  <2>4. CallForward(S, arg[h])
    BY <1>1, <2>1
  <2>5. UNCHANGED <<phase[arg[h]], lock[arg[h]], out[arg[h]], arg[h] \in failed>>
    BY <2>2, <2>4 DEF CallForward
  <2> QED BY <2>1, <2>3, <2>4, <2>5 DEF CallForward
<1> QED BY <1>2, <1>3

LEMMA OthersKeep ==
  ASSUME GoInv, NEW S \in SUBSET Users, Forward(S), NEW h \in Users \ S, Still(h)
  PROVE  /\ PlaceOK(h)' /\ HoldsOK(h)' /\ SendOK(h)' /\ ReadOK(h)' /\ BlameOK(h)'
         /\ MadeOK(h) /\ (\A r \in Requests : Made(h) => native'[r] # arg[h])
              /\ (\A g \in Users \ {h} : Made(h) /\ Made(g)' => arg'[g] # arg[h]) => MadeOK(h)'
<1>1. PlaceOK(h) /\ HoldsOK(h) /\ SendOK(h) /\ ReadOK(h) /\ BlameOK(h) /\ GoTypeOK
  BY GoInvParts
<1>2. clients' \subseteq clients /\ handle' \in {0, handle} /\ ctxDone \subseteq ctxDone'
  BY DEF Forward, CallsForward
<1>3. \A r \in Requests : RequestForward(S, r)
  BY DEF Forward
<1>4. (InDo(h) <=> InDo(h)') /\ (InRead(h) <=> InRead(h)') /\ (InClose(h) <=> InClose(h)')
      /\ (Made(h) <=> Made(h)')
  BY DEF Still, InDo, InRead, InClose, Made
<1>5. at[h] \in Sending \union {"doDropped"} \union Reading => ItsCall(h)' = ItsCall(h)
  <2>1. at[h] \in Sending \union {"doDropped"} \union Reading =>
          req[h] \in Requests /\ (InDo(h) \/ InRead(h))
    BY ItsCallIssued DEF InDo, InRead, Failing
  <2> QED BY <2>1, ItsRequestStays DEF Still, ItsCall
<1>6. PlaceOK(h)'
  BY <1>1, <1>5 DEF PlaceOK, Still, Sending, Reading
<1>7. HoldsOK(h)'
  <2>1. CASE req[h] \notin Requests
    <3>1. ~InDo(h) /\ ~InRead(h) /\ ~InClose(h)
      BY <1>1, <2>1 DEF HoldsOK
    <3> QED BY <1>1, <1>4, <2>1, <3>1 DEF HoldsOK, Still, InDo, InRead, InClose, Asking, Sending,
         Failing, Reading
  <2>2. CASE req[h] \in Requests
    <3> DEFINE r == req[h]
    <3>1. /\ InDo(h) /\ r \in opened' => r \in opened
          /\ InDo(h) => native'[r] = native[r]
          /\ InRead(h) => native'[r] = native[r] /\ err'[r] = err[r]
          /\ InRead(h) /\ readMu[r] = h => readMu'[r] = h
          /\ bodyMu[r] = h => bodyMu'[r] = h
          /\ bodyMu[r] = h /\ r \in closed' => r \in closed
      BY <2>2, ItsRequestStays
    <3>2. r \in started => r \in started'
      BY <1>3, <2>2 DEF RequestForward
    <3>3. (r \in opened => r \in opened') /\ (r \in closed => r \in closed')
      BY <1>3, <2>2 DEF RequestForward
    <3>4. req'[h] = r
      BY DEF Still
    <3>5. /\ InDo(h)' => r \in started' \ opened'
          /\ at'[h] \in Asking => native'[r] = 0
          /\ at'[h] \in Sending \union {"doDropped"} => native'[r] # 0
      BY <1>1, <1>4, <3>1, <3>2 DEF HoldsOK, Still, ItsCall, InDo, Failing
    <3>6. /\ InRead(h)' => r \in opened' /\ readMu'[r] = h
          /\ InClose(h)' => r \in closed'
      BY <1>1, <1>4, <3>1, <3>3 DEF HoldsOK
    <3>7. /\ InClose(h)' \/ at'[h] \in {"rdCtx", "rdHandle"} => bodyMu'[r] = h
          /\ at'[h] \in {"rdCtx", "rdHandle"} => r \notin closed'
      BY <1>1, <1>4, <3>1 DEF HoldsOK, Still
    <3>8. /\ at'[h] \in {"rdCall", "rdDone", "rdFail", "rdCtx", "rdHandle"} => err'[r] = "none"
          /\ at'[h] \in {"rdStop", "rdFreed"} => err'[r] = ret'[h] /\ ret'[h] # "none"
          /\ ret'[h] \notin Symptoms
      BY <1>1, <1>4, <3>1 DEF HoldsOK, Still, InRead, Reading
    <3>9. r \in Requests <=> InDo(h)' \/ InRead(h)' \/ InClose(h)'
      BY <1>1, <1>4, <2>2 DEF HoldsOK
    <3> HIDE DEF r
    <3> QED BY <3>4, <3>5, <3>6, <3>7, <3>8, <3>9 DEF HoldsOK, ItsCall
  <2> QED BY <2>1, <2>2
<1>8. SendOK(h)'
  BY <1>1, <1>5, ItsCallStays DEF SendOK, Still, Sending, Unused
<1>9. ReadOK(h)'
  BY <1>1, <1>2, <1>5, ItsCallStays DEF ReadOK, Excused, Still, Reading
<1>10. BlameOK(h)'
  <2>1. at[h] \in {"doDrop"} \union Failing => InDo(h) /\ req[h] \in Requests
    BY <1>1 DEF HoldsOK, InDo, Sending
  <2>2. at[h] \in {"doDrop"} \union Failing => (after'[req[h]] = "armed" => after[req[h]] = "armed")
    BY <2>1, ItsRequestStays
  <2>3. handle = 0 => handle' = 0
    BY <1>2
  <2>4. at'[h] = at[h] /\ req'[h] = req[h] /\ cause'[h] = cause[h]
    BY DEF Still
  <2> QED BY <1>1, <1>2, <2>2, <2>3, <2>4 DEF BlameOK
<1>11. ASSUME MadeOK(h), \A r \in Requests : Made(h) => native'[r] # arg[h],
              \A g \in Users \ {h} : Made(h) /\ Made(g)' => arg'[g] # arg[h]
       PROVE  MadeOK(h)'
  <2>1. Made(h) => Unused(arg[h])'
    BY <1>11, ItsCallStays DEF MadeOK, Unused, Still
  <2>2. Made(h) => arg[h] \in IssuedCalls' /\ (arg[h] \in calls' \/ TheClient \notin clients')
    BY ItsCallStays
  <2> QED BY <1>2, <1>4, <1>11, <2>1, <2>2 DEF MadeOK, Still
<1> QED BY <1>6, <1>7, <1>8, <1>9, <1>10, <1>11

-----------------------------------------------------------------------------
(* What a goroutine makes true of itself: in the bridge ... *)

(* A call that is cancelled has left the registry. *)
LEMMA CancelledIsGone ==
  ASSUME RegistryInv, NEW k \in Ids, IsCancelled(k)
  PROVE  k \notin calls
BY LiveOfInv DEF RegisteredIsLive

LEMMA CancelledIsGonePrime ==
  ASSUME RegistryInv', NEW k \in Ids, IsCancelled(k)'
  PROVE  k \notin calls'
BY LivePrime DEF RegisteredIsLive

Keeps(g) == PlaceOK(g) /\ HoldsOK(g) /\ MadeOK(g) /\ SendOK(g) /\ ReadOK(g) /\ BlameOK(g)

(* What a bridge step leaves of a goroutine. *)
LEMMA BridgeLeaves ==
  ASSUME GoInv, NEW g \in Users, BridgeStep(g)
  PROVE  /\ UNCHANGED <<at, req, cause, ret, native, handle, readMu, bodyMu, err, opened,
                        closed, started, ctxDone, after>>
         /\ Step(g) /\ g \in Threads
         /\ pc[g] # "idle"
         /\ at[g] \in {"doMade", "doSent", "rdDone", "doDropped", "rdFreed", "clDone", "ccDone"}
         /\ HoldsOK(g)' /\ BlameOK(g)'
<1>1. UNCHANGED <<at, req, cause, ret, native, handle, readMu, bodyMu, err, opened,
                  closed, started, ctxDone, after>>
  BY DEF BridgeStep, packageVars, clientVars, contextVars, requestVars, bodyVars, goVars
<1>2. HoldsOK(g) /\ BlameOK(g) /\ PlaceOK(g)
  BY GoInvParts
<1>3. HoldsOK(g)' /\ BlameOK(g)'
  BY <1>1, <1>2 DEF HoldsOK, BlameOK, InDo, InRead, InClose, ItsCall
<1>4. pc[g] # "idle" /\ Step(g)
  BY DEF BridgeStep, Step, Cancel, Register, Abort, Poll, Suspend, SendStart, SendAnswer, ReadStart,
     ReadAnswer, InBody
<1> QED BY <1>1, <1>2, <1>3, <1>4, ThreadsSplit DEF PlaceOK

LEMMA BridgeMakes ==
  ASSUME GoInv, GoTypeOK', NEW g \in Users, BridgeStep(g), at[g] = "doMade"
  PROVE  /\ pc'[g] = "idle"
         /\ res'[g] \in {"handle", "closed", "internal"}
         /\ res'[g] = "closed" => TheClient \notin clients'
         /\ res'[g] = "handle" =>
              \E h \in Ids : /\ arg'[g] = h /\ h \notin IssuedCalls
                            /\ h \in IssuedCalls' /\ h \in calls' /\ Unused(h)'
<1>1. /\ UNCHANGED at /\ Step(g) /\ g \in Threads /\ pc[g] # "idle"
  BY BridgeLeaves
<1>2. PlaceOK(g) /\ ThreadsOK /\ UnmadeOK /\ ClientOK /\ RegistryInv /\ RegistryOK /\ CallsOK
  BY GoInvParts
<1>3. pc[g] = "build"
  BY <1>1, <1>2 DEF PlaceOK
<1>4. Register(g)
  BY <1>1, <1>3 DEF Step, Cancel, Abort, Poll, Suspend, SendStart, SendAnswer, ReadStart,
     ReadAnswer, InBody
<1>5. arg[g] = TheClient
  BY <1>1, <1>2, <1>3 DEF RegistryInv, WorkersKnowHandles, ClientOK
<1>6. UNCHANGED <<clients, phase, lock, out, failed>>
  BY <1>4 DEF Register, callVars, history
<1>7. ASSUME NEW h \in Ids, Issue(h), calls' = calls \union {h},
             owner' = [owner EXCEPT ![h] = arg[g]], arg' = [arg EXCEPT ![g] = h],
             res' = [res EXCEPT ![g] = "handle"]
      PROVE  /\ arg'[g] = h /\ res'[g] = "handle"
             /\ h \notin IssuedCalls /\ h \in IssuedCalls' /\ h \in calls' /\ Unused(h)'
  <2>1. Issued' = Issued \union {h} /\ h \notin Issued
    BY <1>2, <1>7, IssuedGrows
  <2>2. arg'[g] = h /\ res'[g] = "handle"
    BY <1>1, <1>2, <1>7 DEF ThreadsOK
  <2>3. owner'[h] = TheClient /\ TheClient # 0
    BY <1>2, <1>5, <1>7 DEF RegistryOK, TheClient
  <2>4. h \notin IssuedCalls /\ h \in IssuedCalls' /\ h \in calls'
    BY <1>7, <2>1, <2>3 DEF IssuedCalls
  <2>5. Unused(h)'
    BY <1>2, <1>6, <1>7, <2>4 DEF UnmadeOK, Unused
  <2> QED BY <2>2, <2>4, <2>5
<1>8. ASSUME Return(g, "internal") PROVE pc'[g] = "idle" /\ res'[g] = "internal"
  BY <1>1, <1>2, <1>8 DEF Return, ThreadsOK
<1>9. ASSUME Return(g, "closed"), ~StillOpen(arg[g])
      PROVE  pc'[g] = "idle" /\ res'[g] = "closed" /\ TheClient \notin clients'
  BY <1>1, <1>2, <1>5, <1>6, <1>9 DEF Return, ThreadsOK, StillOpen
<1>10. pc'[g] = "idle"
  BY <1>1, <1>2, <1>4, <1>8, <1>9 DEF Register, ThreadsOK
<1> QED BY <1>4, <1>7, <1>8, <1>9, <1>10 DEF Register

LEMMA BridgeSends ==
  ASSUME GoInv, NEW g \in Users, BridgeStep(g), at[g] = "doSent"
  PROVE  /\ pc'[g] \in {"idle", "poll", "body"} /\ op'[g] = "send" /\ arg'[g] = arg[g]
         /\ SendOK(g)'
<1>1. /\ UNCHANGED <<at, req, native>> /\ Step(g) /\ g \in Threads /\ pc[g] # "idle"
  BY BridgeLeaves
<1>2. PlaceOK(g) /\ ThreadsOK /\ SendOK(g) /\ RegistryInv /\ CallsOK
  BY GoInvParts
<1> DEFINE k == ItsCall(g)
<1>3. /\ pc[g] \in {"poll", "body"} /\ op[g] = "send" /\ arg[g] = k /\ k \in Ids
      /\ k \notin failed /\ <<phase[k], lock[k]>> \in {<<"Ready", NoThread>>, <<"Done", g>>}
  BY <1>1, <1>2, ItsCallIssued DEF PlaceOK, SendOK, Sending
<1>4. k = ItsCall(g)' /\ g # NoThread
  BY <1>1, ThreadsSplit DEF ItsCall
<1> HIDE DEF k
<1>5. CASE Abort(g)
  <2>1. k \notin calls /\ UNCHANGED calls
    BY <1>2, <1>3, <1>5, CancelledIsGone DEF Abort, registryVars
  <2>2. pc'[g] = "idle" /\ res'[g] = "cancelled" /\ UNCHANGED <<op, arg>>
    BY <1>1, <1>2, <1>5 DEF Abort, Return, ThreadsOK
  <2> QED BY <1>1, <1>3, <1>4, <2>1, <2>2 DEF SendOK
<1>6. CASE Poll(g) \/ Suspend(g)
  <2>1. pc'[g] \in {"poll", "body"} /\ UNCHANGED <<op, arg, phase, lock, failed>>
    BY <1>1, <1>2, <1>6 DEF Poll, Suspend, Goto, ThreadsOK, callVars, history
  <2> QED BY <1>1, <1>3, <1>4, <2>1 DEF SendOK
<1>7. CASE SendStart(g)
  <2>1. phase[k] = "Ready" /\ lock[k] = NoThread
    BY <1>3, <1>4, <1>7 DEF SendStart
  <2>2. phase'[k] = "Done" /\ lock'[k] = g /\ UNCHANGED <<pc, op, arg, failed>>
    BY <1>2, <1>3, <1>7, <2>1 DEF SendStart, Transmit, threadVars, CallsOK
  <2> QED BY <1>1, <1>3, <1>4, <2>2 DEF SendOK
<1>8. CASE SendAnswer(g)
  <2>1. UNCHANGED <<op, arg>> /\ pc'[g] = "idle"
    BY <1>1, <1>2, <1>8 DEF SendAnswer, Return, ThreadsOK
  <2>2. \/ res'[g] = "error"
        \/ res'[g] = "data" /\ phase'[k] = "Streaming" /\ k \notin failed'
    BY <1>1, <1>2, <1>3, <1>8 DEF SendAnswer, OpenStream, Return, ThreadsOK, CallsOK
  <2> QED BY <1>1, <1>3, <1>4, <2>1, <2>2 DEF SendOK, Symptoms
<1> QED BY <1>1, <1>3, <1>5, <1>6, <1>7, <1>8 DEF Step, Cancel, Register, ReadStart, ReadAnswer, InBody

LEMMA BridgeReads ==
  ASSUME GoInv, RegistryInv', CallInv', NEW g \in Users, BridgeStep(g), at[g] = "rdDone"
  PROVE  /\ pc'[g] \in {"idle", "poll", "body"} /\ op'[g] = "read" /\ arg'[g] = arg[g]
         /\ ReadOK(g)'
<1>1. /\ UNCHANGED <<at, req, native>> /\ Step(g) /\ g \in Threads /\ pc[g] # "idle"
  BY BridgeLeaves
<1>2. PlaceOK(g) /\ ThreadsOK /\ ReadOK(g) /\ RegistryInv /\ CallsOK
  BY GoInvParts
<1>0. ItsCall(g) \in Ids
  BY ItsCallIssued DEF Reading
<1> PICK k \in Ids : k = ItsCall(g)
  BY <1>0
<1>3. /\ pc[g] \in {"poll", "body"} /\ op[g] = "read" /\ arg[g] = k /\ k \in Ids
      /\ k \notin failed
  BY <1>1, <1>2 DEF PlaceOK, ReadOK
<1>4. k = ItsCall(g)'
  BY <1>1 DEF ItsCall
<1>5. phase[k] # "Ready"
  <2>1. req[g] \in opened /\ req[g] \in Requests
    BY ItsCallIssued DEF InRead, Reading
  <2> QED BY <2>1, GoInvParts DEF NativeOK, ItsCall
(* A step that returns the end of the body returns it with its reason.     *)
<1>6. ASSUME pc'[g] = "idle", res'[g] = "eof", op'[g] = "read", arg'[g] = k, k \notin failed'
      PROVE  k \notin calls' \/ Len(out'[k]) = BodyLen
  <2>1. Len(out'[k]) = BodyLen \/ k \in failed' \/ IsCancelled(k)'
    BY <1>1, <1>6 DEF CallInv, EofIsExplained, EndExplained, IsCancelled
  <2>2. IsCancelled(k)' => k \notin calls'
    BY CancelledIsGonePrime
  <2> QED BY <1>6, <2>1, <2>2
<1>7. CASE Abort(g)
  <2>1. k \notin calls /\ UNCHANGED calls
    BY <1>2, <1>3, <1>7, CancelledIsGone DEF Abort, registryVars
  <2>2. pc'[g] = "idle" /\ res'[g] = "cancelled" /\ UNCHANGED <<op, arg>>
    BY <1>1, <1>2, <1>7 DEF Abort, Return, ThreadsOK
  <2> QED BY <1>1, <1>3, <1>4, <2>1, <2>2 DEF ReadOK, Excused
<1>8. CASE Poll(g) \/ Suspend(g)
  <2>1. pc'[g] \in {"poll", "body"} /\ UNCHANGED <<op, arg, failed>>
    BY <1>1, <1>2, <1>8 DEF Poll, Suspend, Goto, ThreadsOK, callVars, history
  <2> QED BY <1>1, <1>3, <1>4, <2>1 DEF ReadOK
<1>9. CASE ReadStart(g)
  <2>1. UNCHANGED <<op, arg, failed>>
    BY <1>9 DEF ReadStart, Return, threadVars
  <2>2. \/ pc'[g] = "body"
        \/ pc'[g] = "idle" /\ res'[g] \in {"eof", "data"}
    BY <1>1, <1>2, <1>3, <1>5, <1>9 DEF ReadStart, Return, threadVars, ThreadsOK, InBody
  <2> QED BY <1>1, <1>3, <1>4, <1>6, <2>1, <2>2 DEF ReadOK, Excused, Symptoms
<1>10. CASE ReadAnswer(g)
  <2>1. UNCHANGED <<op, arg>> /\ pc'[g] = "idle"
    BY <1>1, <1>2, <1>10 DEF ReadAnswer, Return, ThreadsOK
  <2>2. \/ res'[g] = "error"
        \/ res'[g] \in {"data", "eof"} /\ k \notin failed'
    BY <1>1, <1>2, <1>3, <1>10 DEF ReadAnswer, Return, ThreadsOK
  <2> QED BY <1>1, <1>3, <1>4, <1>6, <2>1, <2>2 DEF ReadOK, Excused, Symptoms
<1> QED BY <1>1, <1>3, <1>7, <1>8, <1>9, <1>10 DEF Step, Cancel, Register, SendStart, SendAnswer, InBody

(* What a goroutine has made is new, if it has not had it before. *)
MakesNew(g) ==
  /\ at'[g] = "doMade" /\ pc'[g] = "idle" => res'[g] \in {"handle", "closed", "internal"}
  /\ at'[g] = "doMade" /\ pc'[g] = "idle" /\ res'[g] = "closed" => TheClient \notin clients'
  /\ Made(g)' =>
       \E h \in Ids : /\ arg'[g] = h /\ h \notin IssuedCalls
                      /\ h \in IssuedCalls' /\ h \in calls' /\ Unused(h)'

KeepsRest(g) == PlaceOK(g) /\ HoldsOK(g) /\ SendOK(g) /\ ReadOK(g) /\ BlameOK(g)

LEMMA BridgeKeeps ==
  ASSUME GoInv, GoTypeOK', RegistryInv', CallInv', NEW g \in Users, BridgeStep(g)
  PROVE  KeepsRest(g)' /\ MakesNew(g)
<1>1. /\ UNCHANGED <<at, req, native, cause, handle>> /\ Step(g) /\ g \in Threads /\ pc[g] # "idle"
      /\ HoldsOK(g)' /\ BlameOK(g)'
      /\ at[g] \in {"doMade", "doSent", "rdDone", "doDropped", "rdFreed", "clDone", "ccDone"}
  BY BridgeLeaves
<1>2. PlaceOK(g) /\ ThreadsOK
  BY GoInvParts
<1>3. ItsCall(g)' = ItsCall(g)
  BY <1>1 DEF ItsCall
<1>4. CASE at[g] = "doMade"
  <2>1. SendOK(g)' /\ ReadOK(g)'
    BY <1>1, <1>4 DEF SendOK, ReadOK
  <2>2. PlaceOK(g)' /\ MakesNew(g)
    BY <1>1, <1>4, BridgeMakes DEF PlaceOK, MakesNew, Made
  <2> QED BY <1>1, <2>1, <2>2 DEF KeepsRest
<1>5. CASE at[g] = "doSent"
  <2>1. ReadOK(g)' /\ MakesNew(g)
    BY <1>1, <1>5 DEF ReadOK, MakesNew, Made
  <2>2. PlaceOK(g)' /\ SendOK(g)'
    BY <1>1, <1>2, <1>3, <1>5, BridgeSends DEF PlaceOK
  <2> QED BY <1>1, <2>1, <2>2 DEF KeepsRest
<1>6. CASE at[g] = "rdDone"
  <2>1. SendOK(g)' /\ MakesNew(g)
    BY <1>1, <1>6 DEF SendOK, MakesNew, Made
  <2>2. PlaceOK(g)' /\ ReadOK(g)'
    BY <1>1, <1>2, <1>3, <1>6, BridgeReads DEF PlaceOK
  <2> QED BY <1>1, <2>1, <2>2 DEF KeepsRest
<1>7. CASE at[g] \in {"doDropped", "rdFreed", "clDone", "ccDone"}
  <2>1. pc[g] = "cancel"
    BY <1>1, <1>2, <1>7 DEF PlaceOK
  <2>2. Cancel(g)
    BY <1>1, <2>1 DEF Step, Register, Abort, Poll, Suspend, SendStart, SendAnswer, ReadStart,
       ReadAnswer, InBody
  <2>3. pc'[g] = "idle"
    BY <1>1, <1>2, <2>2 DEF Cancel, Return, ThreadsOK
  <2> QED BY <1>1, <1>7, <2>3 DEF KeepsRest, PlaceOK, SendOK, ReadOK, MakesNew, Made
<1> QED BY <1>1, <1>4, <1>5, <1>6, <1>7

-----------------------------------------------------------------------------
(* ... and in the package. *)

LEMMA CallKeeps ==
  ASSUME GoInv, GoTypeOK', NEW g \in Users, Call(g)
  PROVE  KeepsRest(g)' /\ MakesNew(g)
<1>0. /\ GoTypeOK /\ PlaceOK(g) /\ HoldsOK(g) /\ UNCHANGED vars /\ ThreadsOK
      /\ NoRequest \notin Requests
  BY GoInvParts, CallbackAssumption DEF Call, DoStart, ReadLock, CloseBody, CloseClient
<1>1. UNCHANGED <<pc, op, arg, res, phase, lock, out, failed, calls>>
  BY <1>0 DEF vars, threadVars, callVars, history, registryVars
<1>2. at[g] = "idle" /\ pc[g] = "idle" /\ req[g] \notin Requests
  BY <1>0 DEF Call, DoStart, ReadLock, CloseBody, CloseClient, Begin, BeginAndGive, PlaceOK,
     HoldsOK, InDo, InRead, InClose, Asking, Sending, Failing, Reading, Closing
<1>3. ASSUME NEW v \in {"nil", "ctx"}, BeginAndGive(g, v) PROVE KeepsRest(g)' /\ MakesNew(g)
  BY <1>0, <1>1, <1>2, <1>3 DEF BeginAndGive, GoTypeOK, KeepsRest, MakesNew, Made, PlaceOK, HoldsOK,
     SendOK, ReadOK, BlameOK, InDo, InRead, InClose, Asking, Sending, Failing, Reading, Closing,
     Symptoms
<1>4. ASSUME NEW r, NEW p \in {"doId", "rdCheck", "clCall", "ccCall"}, Begin(g, r, p)
      PROVE  /\ at'[g] = p /\ req'[g] = r /\ ret'[g] = "none" /\ PlaceOK(g)'
             /\ SendOK(g)' /\ ReadOK(g)' /\ BlameOK(g)' /\ MakesNew(g)
  BY <1>0, <1>1, <1>2, <1>4 DEF Begin, GoTypeOK, PlaceOK, SendOK, ReadOK, BlameOK, MakesNew, Made,
     Failing
<1>5. ASSUME NEW r \in Requests, DoStart(g, r) PROVE KeepsRest(g)' /\ MakesNew(g)
  <2>1. native[r] = 0 /\ r \notin opened
    BY <1>0, <1>5, GoInvParts DEF DoStart, NativeOK
  <2>2. CASE Begin(g, r, "doId")
    <3>1. HoldsOK(g)'
      BY <1>0, <1>4, <1>5, <2>1, <2>2 DEF DoStart, HoldsOK, ItsCall, InDo, InRead, InClose, Asking,
         Sending, Failing, Reading, Closing, Symptoms
    <3> QED BY <1>4, <2>2, <3>1 DEF KeepsRest
  <2> QED BY <1>3, <1>5, <2>2 DEF DoStart
<1>6. ASSUME NEW r \in Requests, ReadLock(g, r) PROVE KeepsRest(g)' /\ MakesNew(g)
  <2>1. HoldsOK(g)'
    BY <1>0, <1>4, <1>6 DEF ReadLock, requestVars, GoTypeOK, HoldsOK, InDo, InRead, InClose, Asking,
       Sending, Failing, Reading, Closing, Symptoms
  <2> QED BY <1>4, <1>6, <2>1 DEF ReadLock, KeepsRest
<1>7. ASSUME NEW r \in Requests, CloseBody(g, r) PROVE KeepsRest(g)' /\ MakesNew(g)
  <2>1. CASE Begin(g, r, "clCall") /\ r \notin closed
    <3>1. HoldsOK(g)'
      BY <1>0, <1>4, <1>7, <2>1 DEF CloseBody, BeginAndGive, GoTypeOK, HoldsOK, InDo, InRead,
         InClose, Asking, Sending, Failing, Reading, Closing, Symptoms
    <3> QED BY <1>4, <2>1, <3>1 DEF KeepsRest
  <2> QED BY <1>3, <1>7, <2>1 DEF CloseBody
<1>8. CASE CloseClient(g)
  <2>1. CASE Begin(g, NoRequest, "ccCall")
    <3>1. HoldsOK(g)'
      BY <1>0, <1>4, <1>8, <2>1 DEF HoldsOK, InDo, InRead,
         InClose, Asking, Sending, Failing, Reading, Closing, Symptoms
    <3> QED BY <1>4, <2>1, <3>1 DEF KeepsRest
  <2> QED BY <1>3, <1>8, <2>1 DEF CloseClient
<1> QED BY <1>5, <1>6, <1>7, <1>8 DEF Call

(* A client that has left the registry has been closed. *)
LEMMA GoneIsClosed ==
  ASSUME GoInv, TheClient \notin clients
  PROVE  handle = 0
BY GoInvParts DEF ClientOK

(* Returning to the caller, and going on without the bridge. *)
LEMMA GiveKeeps ==
  ASSUME GoInv, NEW g \in Users, UNCHANGED vars, pc[g] = "idle",
         NEW v, v \notin Symptoms, Give(g, v)
  PROVE  KeepsRest(g)' /\ MakesNew(g)
<1>1. GoTypeOK /\ NoRequest \notin Requests
  BY GoInvParts, CallbackAssumption
<1>2. UNCHANGED pc
  BY DEF vars, threadVars
<1>3. at'[g] = "idle" /\ req'[g] = NoRequest /\ ret'[g] = v
  BY <1>1 DEF Give, GoTypeOK
<1> QED BY <1>1, <1>2, <1>3 DEF KeepsRest, MakesNew, Made, PlaceOK, HoldsOK, SendOK, ReadOK, BlameOK,
      InDo, InRead, InClose, Asking, Sending, Failing, Reading, Closing

LEMMA DoKeeps ==
  ASSUME GoInv, GoTypeOK', NEW g \in Users, DoStep(g)
  PROVE  KeepsRest(g)' /\ MakesNew(g)
<1>1. /\ GoTypeOK /\ ThreadsOK /\ RegistryOK /\ g \in Threads /\ ClientOK
      /\ PlaceOK(g) /\ HoldsOK(g) /\ MadeOK(g) /\ SendOK(g) /\ BlameOK(g)
  BY GoInvParts, ThreadsSplit
<1> DEFINE r == req[g]
<1>2. /\ at[g] \in Asking \union Sending \union Failing
      /\ r \in Requests /\ r \in started /\ r \notin opened
  BY <1>1 DEF DoStep, DoId, DoNew, DoMade, DoSend, DoSent, DoDrop, DoDropped, DoCtx, DoHandle, Back,
     HoldsOK, InDo, Asking, Sending, Failing
<1>3. NativeOK(r) /\ BodyOK(r)
  BY <1>2, GoInvParts
<1> HIDE DEF r
<1> USE DEF KeepsRest
<1>4. CASE DoId(g)
  <2>1. CASE Give(g, "ErrClientClosed")
    BY <1>1, <1>4, <2>1, GiveKeeps DEF DoId, PlaceOK, Symptoms
  <2>2. CASE Go(g, "doNew")
    <3>1. at'[g] = "doNew" /\ UNCHANGED <<req, ret, native, started, opened, pc, op, arg, res>>
      BY <1>1, <1>4, <2>2 DEF DoId, Go, GoTypeOK, requestVars, vars, threadVars
    <3>2. pc[g] = "idle"
      BY <1>1, <1>4 DEF DoId, PlaceOK
    <3>3. HoldsOK(g)'
      BY <1>1, <1>4, <3>1 DEF DoId, HoldsOK, ItsCall, InDo, InRead, InClose, Asking, Sending,
         Failing, Reading, Closing
    <3> QED BY <3>1, <3>2, <3>3 DEF PlaceOK, SendOK, ReadOK, BlameOK, Failing, MakesNew, Made
  <2> QED BY <1>4, <2>1, <2>2 DEF DoId
<1>5. CASE DoNew(g)
  <2>1. at'[g] = "doMade" /\ UNCHANGED <<req, ret, native, started, opened, clients>>
    BY <1>1, <1>5 DEF DoNew, Go, GoTypeOK, requestVars, CreateRequest, registryVars
  <2>2. \/ pc'[g] = "build"
        \/ pc'[g] = "idle" /\ res'[g] = "closed" /\ TheClient \notin clients
    BY <1>1, <1>5 DEF DoNew, CreateRequest, Start, StartAndReturn, ThreadsOK
  <2>3. HoldsOK(g)'
    BY <1>1, <1>5, <2>1 DEF DoNew, HoldsOK, ItsCall, InDo, InRead, InClose, Asking, Sending,
       Failing, Reading, Closing
  <2> QED BY <2>1, <2>2, <2>3 DEF PlaceOK, SendOK, ReadOK, BlameOK, Failing, MakesNew, Made
<1>6. CASE DoMade(g)
  <2>1. /\ at[g] = "doMade" /\ pc[g] = "idle"
        /\ UNCHANGED <<req, ret, started, opened, pc, op, arg, res, phase, lock, out, failed,
                       ctxDone, handle>>
    BY <1>6 DEF DoMade, Back, Go, Blame, vars, threadVars, callVars, history, clientVars
  <2>2. CASE Succeeded(g, "handle")
    <3>1. /\ Made(g) /\ at'[g] = "doSend" /\ native'[r] = arg[g]
      BY <1>1, <1>2, <1>6, <2>1, <2>2 DEF DoMade, Go, GoTypeOK, Succeeded, Made, r
    <3>2. Unused(arg[g]) /\ arg[g] # 0
      BY <1>1, <3>1, IssuedType DEF MadeOK, Ids
    <3>3. Unused(ItsCall(g))' /\ ItsCall(g)' # 0
      BY <2>1, <3>1, <3>2 DEF Unused, ItsCall, r
    <3>4. HoldsOK(g)'
      BY <1>1, <2>1, <3>1, <3>3 DEF HoldsOK, InDo, InRead, InClose, Asking, Sending,
         Failing, Reading, Closing
    <3> QED BY <2>1, <3>1, <3>3, <3>4 DEF PlaceOK, SendOK, ReadOK, BlameOK, Failing, MakesNew, Made
  <2>3. CASE ~Succeeded(g, "handle")
    <3>1. at'[g] = "doCtx" /\ cause'[g] = res[g] /\ UNCHANGED <<native, after>>
      BY <1>1, <1>6, <2>3 DEF DoMade, Blame, GoTypeOK
    <3>2. native[r] = 0
      BY <1>1, <2>1 DEF HoldsOK, Asking, ItsCall, r
    <3>3. after[r] # "armed"
      BY <1>3, <3>2 DEF NativeOK
    <3>4. res[g] \in {"closed", "internal"} /\ (res[g] = "closed" => handle = 0)
      BY <1>1, <2>1, <2>3, GoneIsClosed DEF MadeOK, Succeeded
    <3>5. HoldsOK(g)'
      BY <1>1, <2>1, <3>1 DEF HoldsOK, ItsCall, InDo, InRead, InClose, Asking, Sending,
         Failing, Reading, Closing
    <3>6. BlameOK(g)'
      BY <2>1, <3>1, <3>3, <3>4 DEF BlameOK, Failing, Symptoms, r
    <3> QED BY <2>1, <3>1, <3>5, <3>6 DEF PlaceOK, SendOK, ReadOK, MakesNew, Made
  <2> QED BY <2>2, <2>3
<1>7. CASE DoSend(g)
  <2>1. /\ at[g] = "doSend" /\ at'[g] = "doSent" /\ Send(g, native[r])
        /\ UNCHANGED <<req, ret, native, started, opened, phase, lock, out, failed, calls>>
    BY <1>1, <1>7 DEF DoSend, Go, GoTypeOK, requestVars, Send, Lookup, callVars, history,
       registryVars, r
  <2>2. /\ op'[g] = "send" /\ arg'[g] = native[r]
        /\ \/ pc'[g] = "poll"
           \/ pc'[g] = "idle" /\ res'[g] = "closed" /\ native[r] \notin calls
    BY <1>1, <2>1 DEF Send, Lookup, Start, StartAndReturn, ThreadsOK
  <2>3. Unused(ItsCall(g))
    BY <1>1, <2>1 DEF SendOK
  <2>4. ItsCall(g) = native[r] /\ ItsCall(g)' = native[r]
    BY <2>1 DEF ItsCall, r
  <2>5. HoldsOK(g)'
    BY <1>1, <2>1 DEF HoldsOK, ItsCall, InDo, InRead, InClose, Asking, Sending,
       Failing, Reading, Closing
  <2>6. PlaceOK(g)' /\ ReadOK(g)' /\ BlameOK(g)' /\ MakesNew(g)
    BY <2>1, <2>2, <2>4 DEF PlaceOK, ReadOK, BlameOK, Failing, MakesNew, Made
  <2>7. SendOK(g)'
    BY <2>1, <2>2, <2>3, <2>4 DEF SendOK, Unused
  <2> QED BY <2>5, <2>6, <2>7
<1>8. CASE DoSent(g)
  <2>1. /\ at[g] = "doSent" /\ pc[g] = "idle" /\ UNCHANGED vars
        /\ UNCHANGED <<pc, native, started, ctxDone, handle>>
    BY <1>8 DEF DoSent, Back, vars, threadVars, clientVars
  <2>2. CASE Give(g, "response")
    BY <2>1, <2>2, GiveKeeps DEF Symptoms
  <2>3. CASE Stop(r) /\ Blame(g, "doDrop") /\ UNCHANGED opened /\ ~Succeeded(g, "data")
    <3>1. at'[g] = "doDrop" /\ cause'[g] = res[g] /\ UNCHANGED <<req, ret>>
      BY <1>1, <2>3 DEF Blame, GoTypeOK
    <3>2. after'[r] # "armed"
      BY <1>1, <1>2, <2>3 DEF Stop, GoTypeOK
    <3>3. /\ res[g] \in {"error", "closed", "cancelled"}
          /\ res[g] \in Symptoms => native[r] \notin calls
      BY <1>1, <2>1, <2>3 DEF SendOK, Succeeded, ItsCall, r
    <3>4. native[r] # 0 /\ UnderWay(r)
      BY <1>1, <2>1 DEF HoldsOK, UnderWay, Sending, ItsCall, r
    <3>5. r \notin closed /\ err[r] = "none"
      BY <1>1, <1>2, <1>3 DEF GoTypeOK, BodyOK
    <3>6. res[g] \in Symptoms => r \in ctxDone \/ handle = 0
      BY <1>3, <3>3, <3>4, <3>5, GoneIsClosed DEF NativeOK, Reason
    <3>7. HoldsOK(g)'
      BY <1>1, <2>1, <2>3, <3>1 DEF HoldsOK, ItsCall, InDo, InRead, InClose, Asking, Sending,
         Failing, Reading, Closing
    <3>8. BlameOK(g)'
      BY <2>1, <3>1, <3>2, <3>3, <3>6 DEF BlameOK, Failing, r
    <3> QED BY <2>1, <3>1, <3>7, <3>8 DEF PlaceOK, SendOK, ReadOK, MakesNew, Made
  <2> QED BY <1>8, <2>2, <2>3 DEF DoSent, r
<1>9. CASE DoDrop(g)
  <2>1. /\ at[g] = "doDrop" /\ at'[g] = "doDropped"
        /\ UNCHANGED <<req, ret, cause, native, started, opened, after, ctxDone, handle>>
    BY <1>1, <1>9 DEF DoDrop, Go, GoTypeOK, requestVars, contextVars, clientVars
  <2>2. pc'[g] \in {"cancel", "idle"}
    BY <1>1, <1>9 DEF DoDrop, CloseRequest, Start, StartAndReturn, ThreadsOK
  <2>3. HoldsOK(g)' /\ BlameOK(g)'
    BY <1>1, <2>1 DEF HoldsOK, ItsCall, InDo, InRead, InClose, Asking, Sending,
       Failing, Reading, Closing, BlameOK
  <2> QED BY <2>1, <2>2, <2>3 DEF PlaceOK, SendOK, ReadOK, MakesNew, Made
<1>10. CASE DoDropped(g)
  <2>1. /\ at[g] = "doDropped" /\ at'[g] = "doCtx" /\ pc'[g] = "idle"
        /\ UNCHANGED <<req, ret, cause, native, started, opened, after, ctxDone, handle>>
    BY <1>1, <1>10 DEF DoDropped, Back, Go, GoTypeOK, requestVars, contextVars, clientVars, vars,
       threadVars
  <2>2. HoldsOK(g)' /\ BlameOK(g)'
    BY <1>1, <2>1 DEF HoldsOK, ItsCall, InDo, InRead, InClose, Asking, Sending,
       Failing, Reading, Closing, BlameOK
  <2> QED BY <2>1, <2>2 DEF PlaceOK, SendOK, ReadOK, MakesNew, Made
<1>11. CASE DoCtx(g)
  <2>1. at[g] = "doCtx" /\ pc[g] = "idle" /\ UNCHANGED vars
    BY <1>1, <1>11 DEF DoCtx, PlaceOK
  <2>2. CASE Give(g, "ctx")
    BY <2>1, <2>2, GiveKeeps DEF Symptoms
  <2>3. CASE r \notin ctxDone /\ Go(g, "doHandle")
    <3>1. /\ at'[g] = "doHandle" /\ UNCHANGED pc
          /\ UNCHANGED <<req, ret, cause, native, started, opened, after, ctxDone, handle>>
      BY <1>1, <1>11, <2>1, <2>3 DEF DoCtx, Go, GoTypeOK, requestVars, contextVars, clientVars, vars,
         threadVars
    <3>2. HoldsOK(g)' /\ BlameOK(g)'
      BY <1>1, <2>1, <2>3, <3>1 DEF HoldsOK, ItsCall, InDo, InRead, InClose, Asking, Sending,
         Failing, Reading, Closing, BlameOK, r
    <3> QED BY <2>1, <3>1, <3>2 DEF PlaceOK, SendOK, ReadOK, MakesNew, Made
  <2> QED BY <1>11, <2>2, <2>3 DEF DoCtx, r
<1>12. CASE DoHandle(g)
  <2>1. at[g] = "doHandle" /\ pc[g] = "idle" /\ UNCHANGED vars
    BY <1>1, <1>12 DEF DoHandle, PlaceOK
  <2>2. PICK v : v = IF handle = 0 THEN "ErrClientClosed" ELSE cause[g]
    OBVIOUS
  <2>3. v \notin Symptoms
    BY <1>1, <2>1, <2>2 DEF BlameOK, Symptoms
  <2> QED BY <1>12, <2>1, <2>2, <2>3, GiveKeeps DEF DoHandle
<1> QED BY <1>4, <1>5, <1>6, <1>7, <1>8, <1>9, <1>10, <1>11, <1>12 DEF DoStep

LEMMA ReadKeeps ==
  ASSUME GoInv, GoTypeOK', NEW g \in Users, ReadStep(g)
  PROVE  KeepsRest(g)' /\ MakesNew(g)
<1>1. /\ GoTypeOK /\ ThreadsOK /\ g \in Threads /\ ClientOK
      /\ PlaceOK(g) /\ HoldsOK(g) /\ ReadOK(g)
  BY GoInvParts, ThreadsSplit
<1>2. at[g] \in Reading
  BY DEF ReadStep, ReadCheck, ReadCall, ReadDone, ReadFail, ReadCtx, ReadHandle, ReadStop, ReadFreed,
     Back, Reading
<1> DEFINE r == req[g]
<1>3. r \in Requests /\ r \in opened /\ native[r] # 0 /\ readMu[r] = g
  BY <1>1, <1>2, ItsCallIssued DEF ItsCall, InRead, HoldsOK, Ids
<1>4. NativeOK(r) /\ BodyOK(r)
  BY <1>3, GoInvParts
<1> HIDE DEF r
<1> USE DEF KeepsRest
(* What a Read keeps while it goes on. *)
<1>5. ASSUME at'[g] \in Reading, UNCHANGED <<req, opened>>, readMu'[r] = g, ret'[g] \notin Symptoms,
             at'[g] \in {"rdCtx", "rdHandle"} => bodyMu'[r] = g /\ r \notin closed',
             at'[g] \in {"rdCall", "rdDone", "rdFail", "rdCtx", "rdHandle"} => err'[r] = "none",
             at'[g] \in {"rdStop", "rdFreed"} => err'[r] = ret'[g] /\ ret'[g] # "none"
      PROVE  HoldsOK(g)' /\ SendOK(g)' /\ BlameOK(g)' /\ MakesNew(g)
  BY <1>3, <1>5 DEF HoldsOK, SendOK, BlameOK, MakesNew, Made, InDo, InRead, InClose, Asking, Sending,
     Failing, Reading, Closing, r
<1>6. CASE ReadCheck(g)
  <2>1. at[g] = "rdCheck" /\ pc[g] = "idle" /\ UNCHANGED vars
    BY <1>1, <1>6 DEF ReadCheck, PlaceOK
  <2>2. CASE Give(g, "ErrBodyClosed")
    BY <2>1, <2>2, GiveKeeps DEF Symptoms
  <2>3. CASE Give(g, err[r])
    BY <1>4, <2>1, <2>3, GiveKeeps DEF BodyOK
  <2>4. CASE err[r] = "none" /\ Go(g, "rdCall") /\ UNCHANGED readMu
    <3>1. at'[g] = "rdCall" /\ UNCHANGED <<req, ret, native, opened, err, pc, failed>>
      BY <1>1, <1>6, <2>1, <2>4 DEF ReadCheck, Go, GoTypeOK, requestVars, vars, threadVars, history
    <3>2. native[r] \notin failed
      BY <1>3, <1>4, <2>1, <2>4 DEF BodyOK
    <3>3. ReadOK(g)'
      BY <3>1, <3>2 DEF ReadOK, ItsCall, r
    <3>4. HoldsOK(g)' /\ SendOK(g)' /\ BlameOK(g)' /\ MakesNew(g)
      BY <1>1, <1>3, <1>5, <2>4, <3>1 DEF Reading, HoldsOK
    <3> QED BY <2>1, <3>1, <3>3, <3>4 DEF PlaceOK
  <2> QED BY <1>6, <2>2, <2>3, <2>4 DEF ReadCheck, r
<1>7. CASE ReadCall(g)
  <2>1. /\ at[g] = "rdCall" /\ at'[g] = "rdDone" /\ Read(g, native[r])
        /\ UNCHANGED <<req, ret, native, opened, err, readMu, failed, calls>>
    BY <1>1, <1>7 DEF ReadCall, Go, GoTypeOK, requestVars, bodyVars, Read, Lookup, history,
       registryVars, r
  <2>2. /\ op'[g] = "read" /\ arg'[g] = native[r]
        /\ \/ pc'[g] = "poll"
           \/ pc'[g] = "idle" /\ res'[g] = "closed" /\ native[r] \notin calls
    BY <1>1, <2>1 DEF Read, Lookup, Start, StartAndReturn, ThreadsOK
  <2>3. ItsCall(g) = native[r] /\ ItsCall(g)' = native[r]
    BY <2>1 DEF ItsCall, r
  <2>4. native[r] \notin failed
    BY <1>1, <2>1, <2>3 DEF ReadOK
  <2>5. HoldsOK(g)' /\ SendOK(g)' /\ BlameOK(g)' /\ MakesNew(g)
    BY <1>1, <1>3, <1>5, <2>1 DEF Reading, HoldsOK, r
  <2>6. ReadOK(g)'
    BY <2>1, <2>2, <2>3, <2>4 DEF ReadOK, Excused
  <2> QED BY <2>1, <2>2, <2>3, <2>5, <2>6 DEF PlaceOK
<1>8. CASE ReadDone(g)
  <2>1. at[g] = "rdDone" /\ pc[g] = "idle" /\ UNCHANGED vars
    BY <1>8 DEF ReadDone, Back
  <2>2. CASE Give(g, "data")
    BY <2>1, <2>2, GiveKeeps DEF Symptoms
  <2>3. CASE ~Succeeded(g, "data") /\ Blame(g, "rdFail") /\ UNCHANGED readMu
    <3>1. /\ at'[g] = "rdFail" /\ cause'[g] = res[g]
          /\ UNCHANGED <<req, ret, native, opened, err, pc, out, calls>>
      BY <1>1, <1>8, <2>1, <2>3 DEF ReadDone, Blame, GoTypeOK, requestVars, vars, threadVars, history,
         registryVars
    <3>2. ReadOK(g)'
      BY <1>1, <2>1, <2>3, <3>1 DEF ReadOK, Excused, Succeeded, ItsCall
    <3>3. HoldsOK(g)' /\ SendOK(g)' /\ BlameOK(g)' /\ MakesNew(g)
      BY <1>1, <1>3, <1>5, <2>1, <2>3, <3>1 DEF Reading, HoldsOK, r
    <3> QED BY <2>1, <3>1, <3>2, <3>3 DEF PlaceOK
  <2> QED BY <1>8, <2>2, <2>3 DEF ReadDone
(* The result is settled. *)
<1>9. ASSUME NEW v \in Errors, v \notin Symptoms, Settle(g, r, v), UNCHANGED vars, pc[g] = "idle",
             UNCHANGED <<native, opened, readMu>>
      PROVE  KeepsRest(g)' /\ MakesNew(g)
  <2>1. /\ at'[g] = "rdStop" /\ err'[r] = v /\ ret'[g] = v /\ UNCHANGED <<req, pc>> /\ v # "none"
    BY <1>1, <1>3, <1>9 DEF Settle, GoTypeOK, vars, threadVars, Errors
  <2>2. HoldsOK(g)' /\ SendOK(g)' /\ BlameOK(g)' /\ MakesNew(g)
    BY <1>3, <1>5, <1>9, <2>1 DEF Reading
  <2> QED BY <1>9, <2>1, <2>2 DEF PlaceOK, ReadOK
(* The cause of a symptom, once the context and the body were asked. *)
<1>10. ASSUME at[g] \in {"rdFail", "rdCtx", "rdHandle"}, r \notin closed, r \notin ctxDone
       PROVE  \/ cause[g] = "error"
              \/ cause[g] = "eof" /\ Len(out[native[r]]) = BodyLen
              \/ handle = 0
  <2>1. err[r] = "none"
    BY <1>1, <1>10 DEF HoldsOK, r
  <2>2. Excused(native[r], cause[g])
    BY <1>1, <1>10 DEF ReadOK, ItsCall, r
  <2>3. native[r] \notin calls => handle = 0
    BY <1>3, <1>4, <1>10, <2>1, GoneIsClosed DEF NativeOK, Reason
  <2> QED BY <2>2, <2>3 DEF Excused, Symptoms
<1>11. CASE ReadFail(g)
  <2>1. at[g] = "rdFail" /\ pc[g] = "idle" /\ UNCHANGED vars
    BY <1>1, <1>11 DEF ReadFail, PlaceOK
  <2>2. CASE Settle(g, r, "ErrBodyClosed")
    BY <1>9, <1>11, <2>1, <2>2 DEF ReadFail, requestVars, Errors, Symptoms
  <2>3. CASE /\ r \notin closed /\ bodyMu' = [bodyMu EXCEPT ![r] = g]
             /\ Go(g, "rdCtx") /\ UNCHANGED err
    <3>1. /\ at'[g] = "rdCtx" /\ bodyMu'[r] = g
          /\ UNCHANGED <<req, ret, cause, native, opened, closed, err, readMu, pc, out, calls>>
      BY <1>1, <1>3, <1>11, <2>1, <2>3 DEF ReadFail, Go, GoTypeOK, requestVars, vars, threadVars,
         history, registryVars
    <3>2. ReadOK(g)'
      BY <1>1, <2>1, <3>1 DEF ReadOK, Excused, ItsCall
    <3>3. HoldsOK(g)' /\ SendOK(g)' /\ BlameOK(g)' /\ MakesNew(g)
      BY <1>1, <1>3, <1>5, <2>1, <2>3, <3>1 DEF Reading, HoldsOK, r
    <3> QED BY <2>1, <3>1, <3>2, <3>3 DEF PlaceOK
  <2> QED BY <1>11, <2>2, <2>3 DEF ReadFail, r
<1>12. CASE ReadCtx(g)
  <2>1. at[g] = "rdCtx" /\ pc[g] = "idle" /\ UNCHANGED vars
    BY <1>1, <1>12 DEF ReadCtx, PlaceOK
  <2>2. CASE Settle(g, r, "ctx")
    BY <1>9, <1>12, <2>1, <2>2 DEF ReadCtx, requestVars, Errors, Symptoms
  <2>3. CASE r \notin ctxDone /\ Go(g, "rdHandle") /\ UNCHANGED <<err, bodyMu>>
    <3>1. /\ at'[g] = "rdHandle"
          /\ UNCHANGED <<req, ret, cause, native, opened, closed, err, readMu, pc, out, calls, handle>>
      BY <1>1, <1>3, <1>12, <2>1, <2>3 DEF ReadCtx, Go, GoTypeOK, requestVars, vars, threadVars,
         history, registryVars, clientVars
    <3>2. r \notin closed /\ bodyMu[r] = g
      BY <1>1, <2>1 DEF HoldsOK, r
    <3>3. ReadOK(g)'
      BY <1>1, <1>10, <2>1, <2>3, <3>1, <3>2 DEF ReadOK, Excused, ItsCall, r
    <3>4. HoldsOK(g)' /\ SendOK(g)' /\ BlameOK(g)' /\ MakesNew(g)
      BY <1>1, <1>3, <1>5, <2>1, <2>3, <3>1, <3>2 DEF Reading, HoldsOK, r
    <3> QED BY <2>1, <3>1, <3>3, <3>4 DEF PlaceOK
  <2> QED BY <1>12, <2>2, <2>3 DEF ReadCtx, r
<1>13. CASE ReadHandle(g)
  <2>1. at[g] = "rdHandle" /\ pc[g] = "idle" /\ UNCHANGED vars
    BY <1>1, <1>13 DEF ReadHandle, PlaceOK
  <2>2. PICK v : v = IF handle = 0 THEN "ErrClientClosed" ELSE cause[g]
    OBVIOUS
  <2>3. v \in Errors /\ v \notin Symptoms
    BY <1>1, <2>1, <2>2 DEF ReadOK, Errors, Symptoms
  <2> QED BY <1>9, <1>13, <2>1, <2>2, <2>3 DEF ReadHandle, requestVars, r
<1>14. CASE ReadStop(g)
  <2>1. /\ at[g] = "rdStop" /\ at'[g] = "rdFreed"
        /\ UNCHANGED <<req, ret, native, opened, err, readMu>>
    BY <1>1, <1>14 DEF ReadStop, Go, GoTypeOK, requestVars, bodyVars
  <2>2. pc'[g] \in {"cancel", "idle"}
    BY <1>1, <1>14 DEF ReadStop, CloseRequest, Start, StartAndReturn, ThreadsOK
  <2>3. HoldsOK(g)' /\ SendOK(g)' /\ BlameOK(g)' /\ MakesNew(g)
    BY <1>1, <1>3, <1>5, <2>1 DEF Reading, HoldsOK, r
  <2> QED BY <2>1, <2>2, <2>3 DEF PlaceOK, ReadOK
<1>15. CASE ReadFreed(g)
  <2>1. at[g] = "rdFreed" /\ pc[g] = "idle" /\ UNCHANGED vars /\ Give(g, ret[g])
    BY <1>15 DEF ReadFreed, Back
  <2> QED BY <1>1, <2>1, GiveKeeps DEF HoldsOK
<1> QED BY <1>6, <1>7, <1>8, <1>11, <1>12, <1>13, <1>14, <1>15 DEF ReadStep

LEMMA CloseKeeps ==
  ASSUME GoInv, GoTypeOK', NEW g \in Users, CloseStep(g)
  PROVE  KeepsRest(g)' /\ MakesNew(g)
<1>1. GoTypeOK /\ ThreadsOK /\ g \in Threads /\ HoldsOK(g)
  BY GoInvParts, ThreadsSplit
<1> USE DEF KeepsRest
<1>2. CASE CloseBodyCall(g)
  <2>1. /\ at[g] = "clCall" /\ at'[g] = "clDone"
        /\ UNCHANGED <<req, ret, native, closed, bodyMu>>
    BY <1>1, <1>2 DEF CloseBodyCall, Go, GoTypeOK, requestVars, bodyVars
  <2>2. pc'[g] \in {"cancel", "idle"}
    BY <1>1, <1>2 DEF CloseBodyCall, CloseRequest, Start, StartAndReturn, ThreadsOK
  <2>3. HoldsOK(g)'
    BY <1>1, <2>1 DEF HoldsOK, InDo, InRead, InClose, Asking, Sending, Failing, Reading, Closing
  <2> QED BY <2>1, <2>2, <2>3 DEF PlaceOK, SendOK, ReadOK, BlameOK, Failing, MakesNew, Made
<1>3. CASE CloseClientCall(g)
  <2>1. at[g] = "ccCall" /\ at'[g] = "ccDone" /\ UNCHANGED <<req, ret>>
    BY <1>1, <1>3 DEF CloseClientCall, Go, GoTypeOK
  <2>2. pc'[g] \in {"cancel", "idle"}
    BY <1>1, <1>3 DEF CloseClientCall, Close, Start, StartAndReturn, ThreadsOK
  <2>3. HoldsOK(g)'
    BY <1>1, <2>1 DEF HoldsOK, InDo, InRead, InClose, Asking, Sending, Failing, Reading, Closing
  <2> QED BY <2>1, <2>2, <2>3 DEF PlaceOK, SendOK, ReadOK, BlameOK, Failing, MakesNew, Made
<1>4. CASE CloseBodyDone(g) \/ CloseClientDone(g)
  BY <1>4, GiveKeeps DEF CloseBodyDone, CloseClientDone, Back, Symptoms
<1> QED BY <1>2, <1>3, <1>4 DEF CloseStep

LEMMA GoKeeps ==
  ASSUME GoInv, GoTypeOK', NEW g \in Users, GoStep(g)
  PROVE  KeepsRest(g)' /\ MakesNew(g) /\ Forward({g})
BY CallKeeps, DoKeeps, ReadKeeps, CloseKeeps, ForwardCalls, ForwardDo, ForwardRead, ForwardClose
DEF GoStep

-----------------------------------------------------------------------------
(* Who may change what a request is guarded by. *)

AloneForward(S) ==
  /\ \A g \in S : InDo(g)' => (InDo(g) /\ req'[g] = req[g]) \/ req'[g] \notin started
  /\ \A r \in Requests : /\ readMu'[r] \in {readMu[r], NoThread} \union S
                         /\ bodyMu'[r] \in {bodyMu[r], NoThread} \union S
  /\ \A g \in S, r \in Requests :
       /\ readMu'[r] = g => InRead(g)' /\ req'[g] = r
       /\ bodyMu'[r] = g => (InClose(g)' \/ at'[g] \in {"rdCtx", "rdHandle"}) /\ req'[g] = r

LEMMA AloneCalls ==
  ASSUME GoInv, NEW g \in Users, Call(g)
  PROVE  AloneForward({g})
<1>1. GoTypeOK /\ AloneOK(g) /\ HoldsOK(g) /\ NoThread # g
  BY GoInvParts, ThreadsSplit
<1>2. at[g] = "idle"
  BY DEF Call, DoStart, ReadLock, CloseBody, CloseClient, Begin, BeginAndGive
<1>3. \A r \in Requests : readMu[r] # g /\ bodyMu[r] # g
  BY <1>1, <1>2 DEF AloneOK, InRead, InClose, Reading, Closing
<1>4. ASSUME NEW v, BeginAndGive(g, v) PROVE at'[g] = "idle"
  BY <1>2, <1>4 DEF BeginAndGive
<1>5. ASSUME NEW r, NEW p, Begin(g, r, p) PROVE at'[g] = p /\ req'[g] = r
  BY <1>1, <1>5 DEF Begin, GoTypeOK
<1>6. ASSUME NEW r \in Requests, DoStart(g, r) PROVE AloneForward({g})
  <2>1. at'[g] = "idle" \/ (req'[g] \notin started)
    BY <1>4, <1>5, <1>6 DEF DoStart
  <2>2. UNCHANGED <<readMu, bodyMu>>
    BY <1>6 DEF DoStart, bodyVars
  <2> QED BY <1>3, <2>1, <2>2 DEF AloneForward, InDo, Asking, Sending, Failing
<1>7. ASSUME NEW r \in Requests, ReadLock(g, r) PROVE AloneForward({g})
  <2>1. at'[g] = "rdCheck" /\ req'[g] = r
    BY <1>5, <1>7 DEF ReadLock
  <2>2. UNCHANGED bodyMu /\ readMu' = [readMu EXCEPT ![r] = g]
    BY <1>7 DEF ReadLock
  <2> QED BY <1>1, <1>3, <2>1, <2>2
          DEF AloneForward, GoTypeOK, InDo, InRead, Asking, Sending, Failing, Reading
<1>8. ASSUME NEW r \in Requests, CloseBody(g, r) PROVE AloneForward({g})
  <2>1. \/ at'[g] = "idle" /\ UNCHANGED bodyMu
        \/ at'[g] = "clCall" /\ req'[g] = r /\ bodyMu' = [bodyMu EXCEPT ![r] = g]
    BY <1>4, <1>5, <1>8 DEF CloseBody
  <2>2. UNCHANGED readMu
    BY <1>8 DEF CloseBody
  <2> QED BY <1>1, <1>3, <2>1, <2>2
          DEF AloneForward, GoTypeOK, InDo, InClose, Asking, Sending, Failing, Closing
<1>9. CASE CloseClient(g)
  <2>1. at'[g] \in {"idle", "ccCall"} /\ UNCHANGED <<readMu, bodyMu>>
    BY <1>4, <1>5, <1>9 DEF CloseClient, bodyVars
  <2> QED BY <1>3, <2>1 DEF AloneForward, InDo, Asking, Sending, Failing
<1> QED BY <1>6, <1>7, <1>8, <1>9 DEF Call

LEMMA AloneSteps ==
  ASSUME GoInv, NEW g \in Users, DoStep(g) \/ ReadStep(g) \/ CloseStep(g)
  PROVE  AloneForward({g})
<1>1. GoTypeOK /\ AloneOK(g) /\ HoldsOK(g) /\ NoThread # g
  BY GoInvParts, ThreadsSplit
<1>2. ASSUME NEW v, Give(g, v) PROVE at'[g] = "idle"
  BY <1>1, <1>2 DEF Give, GoTypeOK
<1>3. ASSUME NEW p, Go(g, p) \/ Blame(g, p) PROVE at'[g] = p /\ UNCHANGED req
  BY <1>1, <1>3 DEF Go, Blame, GoTypeOK
<1>4. CASE DoStep(g)
  <2>1. UNCHANGED <<readMu, bodyMu>> /\ InDo(g)
    BY <1>4 DEF DoStep, DoId, DoNew, DoMade, DoSend, DoSent, DoDrop, DoDropped, DoCtx, DoHandle, Back,
       bodyVars, InDo, Asking, Sending, Failing
  <2>2. at'[g] = "idle" \/ UNCHANGED req
    BY <1>2, <1>3, <1>4 DEF DoStep, DoId, DoNew, DoMade, DoSend, DoSent, DoDrop, DoDropped, DoCtx,
       DoHandle
  <2>3. \A r \in Requests : readMu[r] # g /\ bodyMu[r] # g
    BY <1>1, <2>1 DEF AloneOK, InDo, InRead, InClose, Asking, Sending, Failing, Reading, Closing
  <2> QED BY <2>1, <2>2, <2>3 DEF AloneForward, InDo, Asking, Sending, Failing
<1>5. CASE ReadStep(g)
  <2>1. at[g] \in Reading
    BY <1>5 DEF ReadStep, ReadCheck, ReadCall, ReadDone, ReadFail, ReadCtx, ReadHandle, ReadStop,
       ReadFreed, Back, Reading
  <2>2. req[g] \in Requests
    BY <1>1, <2>1 DEF HoldsOK, InRead
  <2>3. ASSUME NEW v, Settle(g, req[g], v)
        PROVE  at'[g] = "rdStop" /\ UNCHANGED req /\ bodyMu' = [bodyMu EXCEPT ![req[g]] = NoThread]
    BY <1>1, <2>3 DEF Settle, GoTypeOK, Unlock
  <2>4. \/ at'[g] = "idle" /\ readMu' = [readMu EXCEPT ![req[g]] = NoThread]
        \/ at'[g] \in Reading /\ UNCHANGED <<readMu, req>>
    BY <1>2, <1>3, <1>5, <2>3 DEF ReadStep, ReadCheck, ReadCall, ReadDone, ReadFail, ReadCtx,
       ReadHandle, ReadStop, ReadFreed, Unlock, Reading, bodyVars
  <2>5. \/ at'[g] = "idle" /\ at[g] \notin {"rdCtx", "rdHandle"} /\ UNCHANGED bodyMu
        \/ at'[g] \in {"rdCtx", "rdHandle"} /\ UNCHANGED req
             /\ (UNCHANGED bodyMu \/ bodyMu' = [bodyMu EXCEPT ![req[g]] = g])
        \/ at'[g] \in Reading /\ at[g] \notin {"rdCtx", "rdHandle"} /\ UNCHANGED bodyMu
        \/ bodyMu' = [bodyMu EXCEPT ![req[g]] = NoThread]
    BY <1>2, <1>3, <1>5, <2>3 DEF ReadStep, ReadCheck, ReadCall, ReadDone, ReadFail, ReadCtx,
       ReadHandle, ReadStop, ReadFreed, Unlock, Reading, bodyVars, Back
  <2>6. \A r \in Requests : readMu[r] = g => r = req[g]
    BY <1>1, <2>1 DEF AloneOK
  <2>7. \A r \in Requests : bodyMu[r] = g => at[g] \in {"rdCtx", "rdHandle"} /\ r = req[g]
    BY <1>1, <2>1 DEF AloneOK, InClose, Reading, Closing
  <2>8. ~InDo(g)'
    BY <2>4 DEF InDo, Reading, Asking, Sending, Failing
  <2>9. \A r \in Requests : /\ readMu'[r] \in {readMu[r], NoThread}
                            /\ bodyMu'[r] \in {bodyMu[r], NoThread, g}
    BY <1>1, <2>2, <2>4, <2>5 DEF GoTypeOK
  <2>10. \A r \in Requests : readMu'[r] = g => InRead(g)' /\ req'[g] = r
    BY <1>1, <2>2, <2>4, <2>6 DEF GoTypeOK, InRead
  <2>11. \A r \in Requests : bodyMu'[r] = g => at'[g] \in {"rdCtx", "rdHandle"} /\ req'[g] = r
    BY <1>1, <2>2, <2>5, <2>7 DEF GoTypeOK
  <2> QED BY <2>8, <2>9, <2>10, <2>11 DEF AloneForward
<1>6. CASE CloseStep(g)
  <2>1. at[g] \in Closing \union Leaving
    BY <1>6 DEF CloseStep, CloseBodyCall, CloseBodyDone, CloseClientCall, CloseClientDone, Back,
       Closing, Leaving
  <2>2. at[g] \in Closing => req[g] \in Requests
    BY <1>1 DEF HoldsOK, InClose
  <2>3. UNCHANGED readMu
    BY <1>6 DEF CloseStep, CloseBodyCall, CloseBodyDone, CloseClientCall, CloseClientDone, bodyVars
  <2>4. \/ at[g] \in Closing /\ at'[g] \in Closing /\ UNCHANGED <<req, bodyMu>>
        \/ at[g] \in Closing /\ at'[g] = "idle" /\ bodyMu' = [bodyMu EXCEPT ![req[g]] = NoThread]
        \/ at[g] \in Leaving /\ at'[g] \in {"idle", "ccDone"} /\ UNCHANGED bodyMu
    BY <1>2, <1>3, <1>6 DEF CloseStep, CloseBodyCall, CloseBodyDone, CloseClientCall,
       CloseClientDone, Back, bodyVars, Unlock, Closing, Leaving
  <2>5. \A r \in Requests : readMu[r] # g /\ (bodyMu[r] = g => at[g] \in Closing /\ r = req[g])
    BY <1>1, <2>1 DEF AloneOK, InRead, InClose, Reading, Closing, Leaving
  <2>6. ~InDo(g)'
    BY <2>4 DEF InDo, Closing, Asking, Sending, Failing
  <2>7. \A r \in Requests : bodyMu'[r] \in {bodyMu[r], NoThread}
    BY <1>1, <2>2, <2>4 DEF GoTypeOK
  <2>8. \A r \in Requests : bodyMu'[r] = g => InClose(g)' /\ req'[g] = r
    BY <1>1, <2>2, <2>4, <2>5 DEF GoTypeOK, InClose, Closing, Leaving
  <2> QED BY <2>3, <2>5, <2>6, <2>7, <2>8 DEF AloneForward
<1> QED BY <1>4, <1>5, <1>6

LEMMA AloneElse ==
  ASSUME GoInv, NEW S \in SUBSET Users, UNCHANGED <<at, req, readMu, bodyMu>>
  PROVE  AloneForward(S)
<1>1. \A g \in S : AloneOK(g) /\ (InDo(g)' <=> InDo(g)) /\ (InRead(g)' <=> InRead(g))
                   /\ (InClose(g)' <=> InClose(g))
  BY GoInvParts DEF InDo, InRead, InClose
<1> QED BY <1>1 DEF AloneForward, AloneOK

-----------------------------------------------------------------------------
(* What a step does to requests, and why. *)

ReadEnds == {"rdDone", "rdFail", "rdCtx", "rdHandle"}

RequestServed(S, r) ==
  /\ \/ /\ native'[r] = native[r]
        /\ \/ after'[r] = after[r]
           \/ after[r] = "armed" /\ after'[r] = "stopped"
           \/ after[r] = "armed" /\ after'[r] = "fired" /\ r \in ctxDone
     \/ /\ after'[r] = "armed"
        /\ \E g \in S : Made(g) /\ req[g] = r /\ native'[r] = arg[g] /\ at'[g] = "doSend" /\ req'[g] = r
  /\ r \in opened' \ opened =>
       /\ \E g \in S : at[g] = "doSent" /\ req[g] = r
       /\ phase'[native[r]] # "Ready" /\ native[r] \notin failed'
  /\ r \in closed' \ closed =>
       /\ after'[r] # "armed" /\ r \in opened
       /\ bodyMu'[r] # NoThread /\ \E g \in S : bodyMu'[r] = g /\ at'[g] = "clCall"
  /\ \/ err'[r] = err[r]
     \/ /\ err'[r] \notin Symptoms \union {"none"} /\ r \in opened
        /\ \E g \in S : readMu'[r] = g /\ at'[g] = "rdStop"

CallsServed(S) ==
  \A k \in calls \ calls' :
    \/ TheClient \notin clients'
    \/ \E r \in Requests :
         /\ native[r] = k
         /\ \/ r \in ctxDone \/ r \in closed \/ err[r] # "none"
            \/ \E g \in S : req[g] = r /\ at[g] = "doDrop" /\ at'[g] = "doDropped"

Leaves(g) ==
  /\ at[g] \in Sending =>
       \/ at'[g] \in Sending /\ req'[g] = req[g]
       \/ req[g] \in opened'
       \/ ItsCall(g) \notin calls' /\ after'[req[g]] # "armed"
  /\ at'[g] \in Sending => (at[g] \in Sending \/ Made(g)) /\ req'[g] = req[g]
  /\ at[g] = "rdStop" => ItsCall(g) \notin calls' /\ after'[req[g]] # "armed"
  /\ at[g] \in ReadEnds =>
       \/ readMu'[req[g]] = g /\ at'[g] \in ReadEnds
       \/ err'[req[g]] # "none"
       \/ ItsCall(g) \notin failed'
  /\ at[g] = "clCall" => ItsCall(g) \notin calls'

Serves(S) ==
  /\ \A r \in Requests : RequestServed(S, r)
  /\ CallsServed(S)
  /\ \A g \in S : Leaves(g)

LEMMA QuietServes ==
  ASSUME NEW S \in SUBSET Users, UNCHANGED <<native, after, opened, closed, err>>
  PROVE  \A r \in Requests : RequestServed(S, r)
BY DEF RequestServed

LEMMA ServesCalls ==
  ASSUME GoInv, NEW g \in Users, Call(g)
  PROVE  Serves({g})
<1>1. GoTypeOK /\ AloneOK(g) /\ NoThread # g
  BY GoInvParts, ThreadsSplit
<1>2. at[g] = "idle" /\ UNCHANGED vars /\ UNCHANGED <<native, opened, err>>
  BY DEF Call, DoStart, ReadLock, CloseBody, CloseClient, Begin, BeginAndGive, requestVars, bodyVars
<1>3. CallsServed({g})
  BY <1>2 DEF CallsServed, vars, registryVars
<1>4. ASSUME NEW v, BeginAndGive(g, v) PROVE at'[g] = "idle"
  BY <1>2, <1>4 DEF BeginAndGive
<1>5. ASSUME NEW r, NEW p, Begin(g, r, p) PROVE at'[g] = p
  BY <1>1, <1>5 DEF Begin, GoTypeOK
<1>6. at'[g] \in {"idle", "doId", "rdCheck", "clCall", "ccCall"}
  BY <1>4, <1>5 DEF Call, DoStart, ReadLock, CloseBody, CloseClient
<1>7. Leaves(g)
  BY <1>2, <1>6 DEF Leaves, Sending, ReadEnds
<1>8. ASSUME NEW r \in Requests, CloseBody(g, r), r \notin closed, NEW s \in Requests
      PROVE  RequestServed({g}, s)
  <2>1. /\ r \in opened /\ closed' = closed \union {r} /\ Stop(r)
        /\ bodyMu' = [bodyMu EXCEPT ![r] = g] /\ at'[g] = "clCall"
    BY <1>5, <1>8 DEF CloseBody
  <2>2. after'[s] = IF s = r /\ after[r] = "armed" THEN "stopped" ELSE after[s]
    BY <1>1, <2>1 DEF Stop, GoTypeOK
  <2>3. bodyMu'[r] = g
    BY <1>1, <2>1 DEF GoTypeOK
  <2> QED BY <1>1, <1>2, <2>1, <2>2, <2>3 DEF RequestServed
<1>9. ASSUME ~\E r \in Requests : CloseBody(g, r) /\ r \notin closed
      PROVE  UNCHANGED <<after, closed>>
  BY <1>9 DEF Call, DoStart, ReadLock, CloseBody, CloseClient, contextVars, bodyVars
<1>10. \A r \in Requests : RequestServed({g}, r)
  BY <1>2, <1>8, <1>9, QuietServes
<1> QED BY <1>3, <1>7, <1>10 DEF Serves

LEMMA ServesDo ==
  ASSUME GoInv, NEW g \in Users, DoStep(g)
  PROVE  Serves({g})
<1>1. /\ GoTypeOK /\ HoldsOK(g) /\ SendOK(g) /\ BlameOK(g) /\ NoThread # g /\ g \in Threads
      /\ ThreadsOK
  BY GoInvParts, ThreadsSplit
<1>2. at[g] \in Asking \union Sending \union Failing /\ UNCHANGED <<closed, err, readMu, bodyMu, ctxDone>>
  BY DEF DoStep, DoId, DoNew, DoMade, DoSend, DoSent, DoDrop, DoDropped, DoCtx, DoHandle, Back,
     Asking, Sending, Failing, bodyVars, contextVars
<1>3. req[g] \in Requests
  BY <1>1, <1>2 DEF HoldsOK, InDo
<1>4. ASSUME NEW v, Give(g, v) PROVE at'[g] = "idle"
  BY <1>1, <1>4 DEF Give, GoTypeOK
<1>5. ASSUME NEW p, Go(g, p) \/ Blame(g, p) PROVE at'[g] = p /\ UNCHANGED req
  BY <1>1, <1>5 DEF Go, Blame, GoTypeOK
<1>6. ASSUME UNCHANGED <<native, after, opened, calls>>, at[g] \notin Sending, at'[g] \notin Sending
      PROVE  Serves({g})
  <2>1. Leaves(g)
    BY <1>2, <1>6 DEF Leaves, ReadEnds, Asking, Sending, Failing
  <2> QED BY <1>2, <1>6, <2>1, QuietServes DEF Serves, CallsServed
<1>7. CASE DoId(g) \/ DoNew(g) \/ DoDropped(g) \/ DoCtx(g) \/ DoHandle(g)
  <2>1. UNCHANGED <<native, after, opened, calls>> /\ at[g] \notin Sending
    BY <1>7 DEF DoId, DoNew, DoDropped, DoCtx, DoHandle, CreateRequest, Back, Sending, contextVars,
       requestVars, vars, registryVars
  <2>2. at'[g] \notin Sending
    BY <1>4, <1>5, <1>7 DEF DoId, DoNew, DoDropped, DoCtx, DoHandle, Sending
  <2> QED BY <1>6, <2>1, <2>2
<1>8. CASE DoMade(g)
  <2>1. at[g] = "doMade" /\ pc[g] = "idle" /\ UNCHANGED <<opened, calls>>
    BY <1>8 DEF DoMade, Back, vars, registryVars
  <2>2. CASE ~Succeeded(g, "handle")
    <3>1. UNCHANGED <<native, after>> /\ at'[g] = "doCtx"
      BY <1>5, <1>8, <2>2 DEF DoMade
    <3> QED BY <1>6, <2>1, <3>1 DEF Sending
  <2>3. CASE Succeeded(g, "handle")
    <3>1. /\ Made(g) /\ at'[g] = "doSend" /\ UNCHANGED req
          /\ native' = [native EXCEPT ![req[g]] = arg[g]]
          /\ after' = [after EXCEPT ![req[g]] = "armed"]
      BY <1>5, <1>8, <2>1, <2>3 DEF DoMade, Made, Succeeded
    <3>2. ASSUME NEW r \in Requests PROVE RequestServed({g}, r)
      <4>1. CASE r = req[g]
        BY <1>1, <1>2, <2>1, <3>1, <4>1 DEF RequestServed, GoTypeOK
      <4>2. CASE r # req[g]
        BY <1>1, <1>2, <2>1, <3>1, <4>2 DEF RequestServed, GoTypeOK
      <4> QED BY <4>1, <4>2
    <3>3. Leaves(g)
      BY <2>1, <3>1 DEF Leaves, Sending, ReadEnds
    <3> QED BY <2>1, <3>2, <3>3 DEF Serves, CallsServed
  <2> QED BY <2>2, <2>3
<1>9. CASE DoSend(g)
  <2>1. /\ at[g] = "doSend" /\ at'[g] = "doSent" /\ UNCHANGED <<req, native, after, opened, calls>>
    BY <1>5, <1>9 DEF DoSend, Send, Lookup, contextVars, requestVars, registryVars
  <2>2. Leaves(g)
    BY <2>1 DEF Leaves, Sending, ReadEnds
  <2> QED BY <1>2, <2>1, <2>2, QuietServes DEF Serves, CallsServed
<1>10. CASE DoSent(g)
  <2>1. at[g] = "doSent" /\ pc[g] = "idle" /\ UNCHANGED <<native, calls, phase, failed>>
    BY <1>10 DEF DoSent, Back, vars, registryVars, callVars, history
  <2>2. CASE Succeeded(g, "data")
    <3>1. opened' = opened \union {req[g]} /\ at'[g] = "idle" /\ UNCHANGED after
      BY <1>4, <1>10, <2>2 DEF DoSent
    <3>2. phase[ItsCall(g)] # "Ready" /\ ItsCall(g) \notin failed
      BY <1>1, <2>1, <2>2 DEF SendOK, Succeeded
    <3>3. \A r \in Requests : RequestServed({g}, r)
      BY <1>2, <2>1, <3>1, <3>2 DEF RequestServed, ItsCall
    <3>4. Leaves(g)
      BY <2>1, <3>1 DEF Leaves, Sending, ReadEnds
    <3> QED BY <2>1, <3>3, <3>4 DEF Serves, CallsServed
  <2>3. CASE ~Succeeded(g, "data")
    <3>1. Stop(req[g]) /\ at'[g] = "doDrop" /\ UNCHANGED <<opened, req>>
      BY <1>5, <1>10, <2>3 DEF DoSent
    <3>2. \A r \in Requests : after'[r] = after[r] \/ (after[r] = "armed" /\ after'[r] = "stopped")
      BY <1>1, <3>1 DEF Stop, GoTypeOK
    <3>3. \A r \in Requests : RequestServed({g}, r)
      BY <1>2, <2>1, <3>1, <3>2 DEF RequestServed
    <3>4. Leaves(g)
      BY <2>1, <3>1 DEF Leaves, Sending, ReadEnds
    <3> QED BY <2>1, <3>3, <3>4 DEF Serves, CallsServed
  <2> QED BY <2>2, <2>3
<1>11. CASE DoDrop(g)
  <2>1. /\ at[g] = "doDrop" /\ at'[g] = "doDropped" /\ UNCHANGED <<req, native, after, opened>>
        /\ calls' = calls \ {native[req[g]]}
    BY <1>5, <1>11 DEF DoDrop, CloseRequest, contextVars, requestVars
  <2>2. after[req[g]] # "armed"
    BY <1>1, <2>1 DEF BlameOK
  <2>3. Leaves(g)
    BY <2>1, <2>2 DEF Leaves, Sending, ReadEnds, ItsCall
  <2>4. CallsServed({g})
    BY <1>3, <2>1 DEF CallsServed
  <2> QED BY <1>2, <2>1, <2>3, <2>4, QuietServes DEF Serves
<1> QED BY <1>7, <1>8, <1>9, <1>10, <1>11 DEF DoStep

LEMMA ServesRead ==
  ASSUME GoInv, NEW g \in Users, ReadStep(g)
  PROVE  Serves({g})
<1>1. /\ GoTypeOK /\ HoldsOK(g) /\ ReadOK(g) /\ NoThread # g /\ g \in Threads
  BY GoInvParts, ThreadsSplit
<1>2. at[g] \in Reading /\ UNCHANGED <<native, opened, closed, ctxDone>>
  BY DEF ReadStep, ReadCheck, ReadCall, ReadDone, ReadFail, ReadCtx, ReadHandle, ReadStop, ReadFreed,
     Back, Reading, bodyVars, contextVars, requestVars
<1>3. req[g] \in Requests /\ req[g] \in opened /\ readMu[req[g]] = g /\ BodyOK(req[g])
  BY <1>1, <1>2, GoInvParts DEF HoldsOK, InRead
<1>4. ASSUME NEW v, Give(g, v) PROVE at'[g] = "idle"
  BY <1>1, <1>4 DEF Give, GoTypeOK
<1>5. ASSUME NEW p, Go(g, p) \/ Blame(g, p) PROVE at'[g] = p /\ UNCHANGED req
  BY <1>1, <1>5 DEF Go, Blame, GoTypeOK
(* Steps that only move on. *)
<1>6. ASSUME UNCHANGED <<after, err, calls>>, at'[g] \notin Sending, at[g] # "rdStop",
             at[g] \in ReadEnds => \/ readMu'[req[g]] = g /\ at'[g] \in ReadEnds
                                   \/ ItsCall(g) \notin failed'
      PROVE  Serves({g})
  <2>1. Leaves(g)
    BY <1>2, <1>6 DEF Leaves, ReadEnds, Sending, Reading
  <2> QED BY <1>2, <1>6, <2>1, QuietServes DEF Serves, CallsServed
(* Steps that settle the result. *)
<1>7. ASSUME NEW v \in Errors, v \notin Symptoms, Settle(g, req[g], v), UNCHANGED <<after, readMu, calls>>,
             at[g] \in ReadEnds
      PROVE  Serves({g})
  <2>1. at'[g] = "rdStop" /\ err' = [err EXCEPT ![req[g]] = v] /\ v # "none" /\ v \notin Symptoms
    BY <1>1, <1>7 DEF Settle, GoTypeOK, Errors
  <2>2. ASSUME NEW r \in Requests PROVE RequestServed({g}, r)
    <3>1. CASE r = req[g]
      <4>1. err'[r] = v /\ readMu'[r] = g
        BY <1>1, <1>3, <1>7, <2>1, <3>1 DEF GoTypeOK
      <4> QED BY <1>2, <1>3, <1>7, <2>1, <3>1, <4>1 DEF RequestServed
    <3>2. CASE r # req[g]
      <4>1. err'[r] = err[r]
        BY <1>1, <2>1, <3>2 DEF GoTypeOK
      <4> QED BY <1>2, <1>7, <4>1 DEF RequestServed
    <3> QED BY <3>1, <3>2
  <2>3. err'[req[g]] # "none"
    BY <1>1, <1>3, <2>1 DEF GoTypeOK
  <2>4. Leaves(g)
    BY <1>7, <2>1, <2>3 DEF Leaves, ReadEnds, Sending
  <2> QED BY <1>7, <2>2, <2>4 DEF Serves, CallsServed
<1>8. CASE ReadCheck(g)
  <2>1. at[g] = "rdCheck" /\ UNCHANGED <<after, err, calls>>
    BY <1>8 DEF ReadCheck, contextVars, vars, registryVars
  <2>2. at'[g] \in {"idle", "rdCall"}
    BY <1>4, <1>5, <1>8 DEF ReadCheck
  <2> QED BY <1>6, <2>1, <2>2 DEF ReadEnds, Sending
<1>9. CASE ReadCall(g)
  <2>1. at[g] = "rdCall" /\ at'[g] = "rdDone" /\ UNCHANGED <<after, err, calls>>
    BY <1>5, <1>9 DEF ReadCall, Read, Lookup, contextVars, bodyVars, registryVars
  <2> QED BY <1>6, <2>1 DEF ReadEnds, Sending
<1>10. CASE ReadDone(g)
  <2>1. at[g] = "rdDone" /\ UNCHANGED <<after, err, calls, failed>>
    BY <1>10 DEF ReadDone, Back, contextVars, vars, registryVars, history
  <2>2. \/ Succeeded(g, "data") /\ at'[g] = "idle"
        \/ at'[g] = "rdFail" /\ UNCHANGED readMu
    BY <1>4, <1>5, <1>10 DEF ReadDone
  <2>3. Succeeded(g, "data") => ItsCall(g) \notin failed
    BY <1>1, <2>1 DEF ReadOK, Succeeded
  <2> QED BY <1>3, <1>6, <2>1, <2>2, <2>3 DEF ReadEnds, Sending
<1>11. CASE ReadFail(g) \/ ReadCtx(g) \/ ReadHandle(g)
  <2>1. at[g] \in ReadEnds /\ at[g] # "rdStop" /\ UNCHANGED <<after, calls, readMu>>
    BY <1>11 DEF ReadFail, ReadCtx, ReadHandle, ReadEnds, contextVars, vars, registryVars
  <2>2. at[g] = "rdHandle" /\ handle # 0 => cause[g] \in Errors /\ cause[g] \notin Symptoms
    BY <1>1 DEF ReadOK, Errors, Symptoms
  <2>3. \/ \E v \in Errors : v \notin Symptoms /\ Settle(g, req[g], v)
        \/ at'[g] \in {"rdCtx", "rdHandle"} /\ UNCHANGED err
    BY <1>5, <1>11, <2>2 DEF ReadFail, ReadCtx, ReadHandle, Errors, Symptoms
  <2>4. CASE at'[g] \in {"rdCtx", "rdHandle"} /\ UNCHANGED err
    BY <1>3, <1>6, <2>1, <2>4 DEF ReadEnds, Sending
  <2> QED BY <1>7, <2>1, <2>3, <2>4
<1>12. CASE ReadStop(g)
  <2>1. /\ at[g] = "rdStop" /\ at'[g] = "rdFreed" /\ Stop(req[g]) /\ UNCHANGED <<req, err>>
        /\ calls' = calls \ {native[req[g]]}
    BY <1>5, <1>12 DEF ReadStop, CloseRequest, bodyVars
  <2>2. \A r \in Requests :
          after'[r] = after[r] \/ (after[r] = "armed" /\ after'[r] = "stopped")
    BY <1>1, <2>1 DEF Stop, GoTypeOK
  <2>3. after'[req[g]] # "armed" /\ err[req[g]] # "none"
    BY <1>1, <1>3, <2>1 DEF Stop, GoTypeOK, HoldsOK
  <2>4. \A r \in Requests : RequestServed({g}, r)
    BY <1>2, <2>1, <2>2 DEF RequestServed
  <2>5. CallsServed({g})
    BY <1>3, <2>1, <2>3 DEF CallsServed
  <2>6. Leaves(g)
    BY <2>1, <2>3 DEF Leaves, ReadEnds, Sending, ItsCall
  <2> QED BY <2>4, <2>5, <2>6 DEF Serves
<1>13. CASE ReadFreed(g)
  <2>1. at[g] = "rdFreed" /\ at'[g] = "idle" /\ UNCHANGED <<after, err, calls>>
    BY <1>4, <1>13 DEF ReadFreed, Back, contextVars, vars, registryVars
  <2> QED BY <1>6, <2>1 DEF ReadEnds, Sending
<1> QED BY <1>8, <1>9, <1>10, <1>11, <1>12, <1>13 DEF ReadStep

LEMMA ServesClose ==
  ASSUME GoInv, NEW g \in Users, CloseStep(g)
  PROVE  Serves({g})
<1>1. GoTypeOK /\ HoldsOK(g)
  BY GoInvParts
<1>2. UNCHANGED <<native, after, opened, closed, err>>
  BY DEF CloseStep, CloseBodyCall, CloseBodyDone, CloseClientCall, CloseClientDone,
     contextVars, requestVars, bodyVars
<1>3. /\ at[g] \in {"clCall", "clDone", "ccCall", "ccDone"}
      /\ at'[g] \in {"idle", "clDone", "ccDone"}
  BY <1>1 DEF CloseStep, CloseBodyCall, CloseBodyDone, CloseClientCall, CloseClientDone, Back, Go,
     Give, GoTypeOK
<1>4. CASE CloseBodyCall(g)
  <2>1. at[g] = "clCall" /\ calls' = calls \ {native[req[g]]}
    BY <1>4 DEF CloseBodyCall, CloseRequest
  <2>2. req[g] \in Requests /\ req[g] \in closed
    BY <1>1, <2>1 DEF HoldsOK, InClose, Closing
  <2>3. CallsServed({g}) /\ Leaves(g)
    BY <1>3, <2>1, <2>2 DEF CallsServed, Leaves, ItsCall, Sending, ReadEnds
  <2> QED BY <1>2, <2>3, QuietServes DEF Serves
<1>5. CASE CloseClientCall(g)
  <2>1. TheClient \notin clients' /\ at[g] = "ccCall"
    BY <1>5 DEF CloseClientCall, Close
  <2>2. CallsServed({g}) /\ Leaves(g)
    BY <1>3, <2>1 DEF CallsServed, Leaves, Sending, ReadEnds
  <2> QED BY <1>2, <2>2, QuietServes DEF Serves
<1>6. CASE CloseBodyDone(g) \/ CloseClientDone(g)
  <2>1. UNCHANGED calls /\ at[g] # "clCall"
    BY <1>6 DEF CloseBodyDone, CloseClientDone, Back, vars, registryVars
  <2>2. CallsServed({g}) /\ Leaves(g)
    BY <1>3, <2>1 DEF CallsServed, Leaves, Sending, ReadEnds
  <2> QED BY <1>2, <2>2, QuietServes DEF Serves
<1> QED BY <1>4, <1>5, <1>6 DEF CloseStep

LEMMA ServesElse ==
  ASSUME GoInv
  PROVE  /\ \A g \in Users : BridgeStep(g) => Serves({g})
         /\ \A r \in Requests : EndContext(r) \/ Fire(r) \/ BridgeStep(Callback[r]) => Serves({})
         /\ UNCHANGED allVars => Serves({})
<1>1. ASSUME NEW S \in SUBSET Users, UNCHANGED packageVars PROVE \A r \in Requests : RequestServed(S, r)
  BY <1>1, QuietServes DEF packageVars, contextVars, requestVars, bodyVars
<1>2. ASSUME NEW t \in Threads, Step(t), NEW S \in SUBSET Users PROVE CallsServed(S)
  BY <1>2 DEF Step, Cancel, Register, Abort, Poll, Suspend, SendStart, SendAnswer, ReadStart,
     ReadAnswer, registryVars, CallsServed
<1>3. ASSUME NEW g \in Users, BridgeStep(g) PROVE Serves({g})
  <2>1. /\ UNCHANGED <<at, req, readMu>> /\ HoldsOK(g)
        /\ at[g] \in {"doMade", "doSent", "rdDone", "doDropped", "rdFreed", "clDone", "ccDone"}
    BY <1>3, BridgeLeaves, GoInvParts
  <2>2. Leaves(g)
    BY <2>1 DEF Leaves, Sending, ReadEnds, HoldsOK, InRead, Reading
  <2> QED BY <1>1, <1>2, <1>3, <2>2, ThreadsSplit DEF Serves, BridgeStep
<1>4. ASSUME NEW r \in Requests, BridgeStep(Callback[r]) PROVE Serves({})
  BY <1>1, <1>2, <1>4, ThreadsSplit DEF Serves, BridgeStep
<1>5. ASSUME NEW r \in Requests, EndContext(r) PROVE Serves({})
  BY <1>5, QuietServes DEF EndContext, Serves, CallsServed, vars, registryVars, requestVars, bodyVars
<1>6. ASSUME NEW r \in Requests, Fire(r) PROVE Serves({})
  <2>1. /\ UNCHANGED <<native, opened, closed, err, ctxDone>> /\ r \in ctxDone /\ after[r] = "armed"
        /\ after' = [after EXCEPT ![r] = "fired"] /\ calls' = calls \ {native[r]}
    BY <1>6 DEF Fire, CloseRequest, requestVars, bodyVars
  <2>2. \A s \in Requests : RequestServed({}, s)
    BY <2>1, GoInvParts DEF RequestServed, GoTypeOK
  <2>3. CallsServed({})
    BY <2>1 DEF CallsServed
  <2> QED BY <2>2, <2>3 DEF Serves
<1>7. ASSUME UNCHANGED allVars PROVE Serves({})
  BY <1>1, <1>7 DEF allVars, Serves, CallsServed, vars, registryVars
<1> QED BY <1>3, <1>4, <1>5, <1>6, <1>7

-----------------------------------------------------------------------------
(* Every step moves one goroutine, or none. *)
Moves(S) ==
  /\ \A g, h \in S : g = h
  /\ Forward(S) /\ AloneForward(S) /\ Serves(S)
  /\ \A h \in Users \ S : Still(h)
  /\ \A g \in S : KeepsRest(g)' /\ MakesNew(g)

LEMMA StepMoves ==
  ASSUME GoInv, [GoNext]_allVars, GoTypeOK', RegistryInv', CallInv'
  PROVE  \E S \in SUBSET Users : Moves(S)
<1>1. ASSUME NEW g \in Users, GoStep(g) PROVE Moves({g})
  <2>1. AloneForward({g})
    BY <1>1, AloneCalls, AloneSteps DEF GoStep
  <2>2. KeepsRest(g)' /\ MakesNew(g) /\ Forward({g})
    BY <1>1, GoKeeps
  <2>3. \A h \in Users \ {g} : Still(h)
    BY <1>1, OthersStill
  <2>4. Serves({g})
    BY <1>1, ServesCalls, ServesDo, ServesRead, ServesClose DEF GoStep
  <2> QED BY <2>1, <2>2, <2>3, <2>4 DEF Moves
<1>2. ASSUME NEW g \in Users, BridgeStep(g) PROVE Moves({g})
  <2>1. AloneForward({g})
    BY <1>2, AloneElse DEF BridgeStep, packageVars, goVars, bodyVars
  <2>2. KeepsRest(g)' /\ MakesNew(g)
    BY <1>2, BridgeKeeps
  <2>3. Forward({g})
    BY <1>2, ForwardElse, ThreadsSplit
  <2>4. \A h \in Users \ {g} : Still(h)
    BY <1>2, OthersStill
  <2>5. Serves({g})
    BY <1>2, ServesElse
  <2> QED BY <2>1, <2>2, <2>3, <2>4, <2>5 DEF Moves
<1>3. ASSUME NEW r \in Requests, EndContext(r) \/ Fire(r) \/ BridgeStep(Callback[r]) PROVE Moves({})
  <2>1. AloneForward({})
    BY <1>3, AloneElse DEF EndContext, Fire, BridgeStep, packageVars, goVars, bodyVars
  <2>2. Forward({})
    BY <1>3, ForwardElse, ThreadsSplit
  <2>3. \A h \in Users : Still(h)
    BY <1>3, OthersStill
  <2>4. Serves({})
    BY <1>3, ServesElse
  <2> QED BY <2>1, <2>2, <2>3, <2>4 DEF Moves
<1>4. CASE UNCHANGED allVars
  <2>1. AloneForward({})
    BY <1>4, AloneElse DEF allVars, packageVars, goVars, bodyVars
  <2>2. Forward({})
    BY <1>4, ForwardElse
  <2>3. \A h \in Users : Still(h)
    BY <1>4, OthersStill
  <2>4. Serves({})
    BY <1>4, ServesElse
  <2> QED BY <2>1, <2>2, <2>3, <2>4 DEF Moves
<1>5. ASSUME NEW g \in Users, GoStep(g) \/ BridgeStep(g) PROVE \E S \in SUBSET Users : Moves(S)
  BY <1>1, <1>2, <1>5
<1>6. ASSUME Moves({}) PROVE \E S \in SUBSET Users : Moves(S)
  BY <1>6
<1> QED BY <1>3, <1>4, <1>5, <1>6, GoSteps

LEMMA AloneNext ==
  ASSUME GoInv, NEW S \in SUBSET Users, Moves(S), NEW g \in Users
  PROVE  AloneOK(g)'
<1>1. \A h \in Users : AloneOK(h) /\ (InDo(h) => req[h] \in started) /\ h # NoThread
  BY GoInvParts, ThreadsSplit DEF HoldsOK
<1>2. ASSUME NEW h \in Users \ S
      PROVE  /\ req'[h] = req[h] /\ (InDo(h)' <=> InDo(h)) /\ (InRead(h)' <=> InRead(h))
             /\ InClose(h)' <=> InClose(h)
             /\ at'[h] = at[h]
  BY DEF Moves, Still, InDo, InRead, InClose
<1>3. ASSUME NEW h \in Users, h # g, InDo(g)', InDo(h)' PROVE req'[g] # req'[h]
  <2>1. g \notin S \/ h \notin S
    BY <1>3 DEF Moves
  <2>2. ASSUME NEW x \in Users, NEW y \in Users \ S, x # y, InDo(x)', InDo(y)' PROVE req'[x] # req'[y]
    <3>1. InDo(y) /\ req'[y] = req[y] /\ req[y] \in started
      BY <1>1, <1>2, <2>2
    <3>2. (InDo(x) /\ req'[x] = req[x]) \/ req'[x] \notin started
      BY <1>2, <2>2 DEF Moves, AloneForward
    <3> QED BY <1>1, <2>2, <3>1, <3>2 DEF AloneOK
  <2> QED BY <1>3, <2>1, <2>2
<1>4. ASSUME NEW r \in Requests
      PROVE  /\ readMu'[r] = g => InRead(g)' /\ req'[g] = r
             /\ bodyMu'[r] = g => (InClose(g)' \/ at'[g] \in {"rdCtx", "rdHandle"}) /\ req'[g] = r
  <2>1. CASE g \in S
    BY <2>1 DEF Moves, AloneForward
  <2>2. CASE g \notin S
    <3>1. (readMu'[r] = g => readMu[r] = g) /\ (bodyMu'[r] = g => bodyMu[r] = g)
      BY <1>1, <2>2 DEF Moves, AloneForward
    <3> QED BY <1>1, <1>2, <2>2, <3>1 DEF AloneOK
  <2> QED BY <2>1, <2>2
<1> QED BY <1>3, <1>4 DEF AloneOK

LEMMA MadeNext ==
  ASSUME GoInv, GoTypeOK', NEW S \in SUBSET Users, Moves(S), NEW g \in Users
  PROVE  MadeOK(g)'
<1>1. ASSUME NEW r \in Requests
      PROVE  /\ native[r] \in {0} \union IssuedCalls
             /\ native'[r] = native[r] \/ \E h \in S : Made(h) /\ native'[r] = arg[h]
  BY GoInvParts DEF NativeOK, Moves, Forward, RequestForward
<1>2. \A h \in Users : MadeOK(h) /\ (Made(h) => arg[h] \in IssuedCalls)
  BY GoInvParts DEF MadeOK
<1>3. ASSUME NEW h \in Users \ S PROVE (Made(h)' <=> Made(h)) /\ arg'[h] = arg[h]
  BY DEF Moves, Still, Made
<1>4. CASE g \in S
  <2>1. MakesNew(g) /\ \A h \in Users \ {g} : h \notin S
    BY <1>4 DEF Moves
  <2>2. CASE Made(g)'
    <3>1. PICK n \in Ids : /\ arg'[g] = n /\ n \notin IssuedCalls
                           /\ n \in IssuedCalls' /\ n \in calls' /\ Unused(n)'
      BY <2>1, <2>2 DEF MakesNew
    <3>2. \A r \in Requests : native'[r] # n
      BY <1>1, <1>2, <3>1 DEF Ids
    <3>3. \A h \in Users \ {g} : Made(h)' => arg'[h] # n
      BY <1>2, <1>3, <2>1, <3>1
    <3>4. Unused(arg[g])'
      BY <3>1 DEF Unused
    <3> QED BY <2>1, <3>1, <3>2, <3>3, <3>4 DEF MakesNew, MadeOK
  <2>3. CASE ~Made(g)'
    BY <2>1, <2>3 DEF MakesNew, MadeOK
  <2> QED BY <2>2, <2>3
<1>5. CASE g \notin S
  <2>1. \A r \in Requests : Made(g) => native'[r] # arg[g]
    BY <1>1, <1>2, <1>5 DEF MadeOK
  <2>2. ASSUME NEW h \in Users \ {g}, Made(g), Made(h)' PROVE arg'[h] # arg[g]
    <3>1. CASE h \in S
      <4>1. MakesNew(h)
        BY <3>1 DEF Moves
      <4> QED BY <1>2, <2>2, <4>1 DEF MakesNew
    <3>2. CASE h \notin S
      BY <1>2, <1>3, <2>2, <3>2 DEF MadeOK
    <3> QED BY <3>1, <3>2
  <2>3. Forward(S) /\ Still(g) /\ MadeOK(g)
    BY <1>2, <1>5 DEF Moves
  <2> QED BY <1>5, <2>1, <2>2, <2>3, OthersKeep
<1> QED BY <1>4, <1>5

LEMMA UsersNext ==
  ASSUME GoInv, GoTypeOK', NEW S \in SUBSET Users, Moves(S), NEW g \in Users
  PROVE  /\ PlaceOK(g)' /\ HoldsOK(g)' /\ AloneOK(g)' /\ MadeOK(g)' /\ SendOK(g)' /\ ReadOK(g)'
         /\ BlameOK(g)'
<1>1. PlaceOK(g)' /\ HoldsOK(g)' /\ SendOK(g)' /\ ReadOK(g)' /\ BlameOK(g)'
  <2>1. CASE g \in S
    BY <2>1 DEF Moves, KeepsRest
  <2>2. CASE g \notin S
    BY <2>2, OthersKeep DEF Moves
  <2> QED BY <2>1, <2>2
<1> QED BY <1>1, AloneNext, MadeNext

-----------------------------------------------------------------------------
(* The client. *)

(* Handles are issued to calls, and to calls of the one client.            *)
LEMMA IssuesCalls ==
  ASSUME GoInv, [GoNext]_allVars
  PROVE  \/ UNCHANGED <<nextId, owner>>
         \/ \E h \in Ids : /\ Issue(h) /\ owner' = [owner EXCEPT ![h] = TheClient]
                           /\ UNCHANGED <<phase, lock, out, failed>>
<1>1. \A t \in Threads : pc[t] = "build" => arg[t] = TheClient
  BY GoInvParts DEF RegistryInv, WorkersKnowHandles, ClientOK
<1>2. ASSUME NEW t \in Threads, Step(t), ~Register(t) PROVE UNCHANGED <<nextId, owner>>
  BY <1>2 DEF Step, Cancel, Abort, Poll, Suspend, SendStart, SendAnswer, ReadStart, ReadAnswer,
     registryVars
<1>3. ASSUME NEW t \in Threads, Register(t)
      PROVE  \/ UNCHANGED <<nextId, owner>>
             \/ \E h \in Ids : /\ Issue(h) /\ owner' = [owner EXCEPT ![h] = TheClient]
                               /\ UNCHANGED <<phase, lock, out, failed>>
  BY <1>1, <1>3 DEF Register, callVars, history
<1>4. ASSUME NEW g \in Users, GoStep(g) PROVE UNCHANGED <<nextId, owner>>
  <2>1. CASE Call(g)
    BY <2>1 DEF Call, DoStart, ReadLock, CloseBody, CloseClient, vars, registryVars
  <2>2. CASE DoStep(g)
    BY <2>2 DEF DoStep, DoId, DoNew, DoMade, DoSend, DoSent, DoDrop, DoDropped, DoCtx, DoHandle,
       CreateRequest, Send, Lookup, CloseRequest, vars, registryVars
  <2>3. CASE ReadStep(g)
    BY <2>3 DEF ReadStep, ReadCheck, ReadCall, ReadDone, ReadFail, ReadCtx, ReadHandle, ReadStop,
       ReadFreed, Read, Lookup, CloseRequest, vars, registryVars
  <2>4. CASE CloseStep(g)
    BY <2>4 DEF CloseStep, CloseBodyCall, CloseBodyDone, CloseClientCall, CloseClientDone,
       CloseRequest, Close, vars, registryVars
  <2> QED BY <1>4, <2>1, <2>2, <2>3, <2>4 DEF GoStep
<1>5. ASSUME NEW r \in Requests, EndContext(r) \/ Fire(r) PROVE UNCHANGED <<nextId, owner>>
  BY <1>5 DEF EndContext, Fire, CloseRequest, vars, registryVars
<1>6. CASE UNCHANGED allVars
  BY <1>6 DEF allVars, vars, registryVars
<1>7. ASSUME NEW t \in Threads, BridgeStep(t)
      PROVE  \/ UNCHANGED <<nextId, owner>>
             \/ \E h \in Ids : /\ Issue(h) /\ owner' = [owner EXCEPT ![h] = TheClient]
                               /\ UNCHANGED <<phase, lock, out, failed>>
  BY <1>2, <1>3, <1>7 DEF BridgeStep
<1> QED BY <1>4, <1>5, <1>6, <1>7, GoSteps, ThreadsSplit

LEMMA OneClient ==
  ASSUME GoInv, [GoNext]_allVars
  PROVE  IssuedClients' = {TheClient} /\ IssuedCalls \subseteq IssuedCalls'
<1>1. RegistryInv /\ RegistryOK /\ IssuedClients = {TheClient}
  BY GoInvParts DEF ClientOK
<1>2. CASE UNCHANGED <<nextId, owner>>
  BY <1>1, <1>2 DEF IssuedClients, IssuedCalls, Issued
<1>3. ASSUME NEW h \in Ids, Issue(h), owner' = [owner EXCEPT ![h] = TheClient]
      PROVE  IssuedClients' = {TheClient} /\ IssuedCalls \subseteq IssuedCalls'
  <2>1. Issued' = Issued \union {h} /\ h \notin Issued /\ Issued \subseteq Ids
    BY <1>1, <1>3, IssuedGrows, IssuedType
  <2>2. \A k \in Ids : owner'[k] = IF k = h THEN TheClient ELSE owner[k]
    BY <1>1, <1>3 DEF RegistryOK
  <2>3. IssuedCalls' = IssuedCalls \union {h}
    BY <1>3, <2>1, <2>2 DEF IssuedCalls, TheClient
  <2>4. IssuedClients' = IssuedClients
    BY <2>1, <2>3 DEF IssuedClients
  <2> QED BY <1>1, <2>3, <2>4
<1> QED BY <1>2, <1>3, IssuesCalls

(* Calls that were not made yet nobody works on.                            *)
LEMMA UnmadeStays ==
  ASSUME GoInv, [GoNext]_allVars, NEW k \in Ids, k \notin IssuedCalls
  PROVE  UNCHANGED <<phase[k], lock[k], out[k], k \in failed>>
<1>1. /\ TypeOK /\ CallsOK /\ LockHeldByWorker
      /\ \A t \in Threads : pc[t] \in {"poll", "body"} => arg[t] # k
  BY GoInvParts DEF CallInv, RegistryInv, WorkersKnowHandles
<1>2. ASSUME NEW t \in Threads, Step(t) PROVE UNCHANGED <<phase[k], lock[k], out[k], k \in failed>>
  <2>1. CASE Cancel(t) \/ Register(t) \/ Poll(t) \/ Suspend(t)
    BY <2>1 DEF Cancel, Register, Poll, Suspend, callVars, history
  <2>2. CASE Abort(t)
    <3>1. lock[k] = NoThread
      BY <1>1 DEF LockHeldByWorker, CallsOK
    <3> QED BY <1>1, <2>2, <3>1 DEF Abort, Dropped, history
  <2>3. CASE SendStart(t) \/ SendAnswer(t)
    BY <1>1, <2>3 DEF SendStart, SendAnswer, Transmit, OpenStream, InBody, CallsOK
  <2>4. CASE ReadStart(t)
    BY <1>1, <2>4 DEF ReadStart, Deliver, InBody, CallsOK
  <2>5. CASE ReadAnswer(t)
    BY <1>1, <2>5 DEF ReadAnswer, Deliver, InBody, CallsOK
  <2> QED BY <1>2, <2>1, <2>2, <2>3, <2>4, <2>5 DEF Step
<1>3. ASSUME NEW t \in Threads, Enter(t) PROVE UNCHANGED <<phase, lock, out, failed>>
  BY <1>3 DEF Enter, Create, Close, CreateRequest, CloseRequest, Send, Read, Lookup, callVars, history
<1>4. CASE UNCHANGED vars
  BY <1>4 DEF vars, callVars, history
<1> QED BY <1>2, <1>3, <1>4, BridgeNext DEF Next

LEMMA UnmadeNext ==
  ASSUME GoInv, [GoNext]_allVars
  PROVE  UnmadeOK'
<1>1. UnmadeOK /\ RegistryInv /\ IssuedCalls \subseteq IssuedCalls'
  BY GoInvParts, OneClient
<1>2. ASSUME NEW k \in Ids, k \notin IssuedCalls PROVE UNCHANGED <<phase[k], lock[k], out[k], k \in failed>>
  BY <1>2, UnmadeStays
<1> QED BY <1>1, <1>2 DEF UnmadeOK, Unused

(* Steps that leave the client and its closer alone. *)
LEMMA ClientQuiet ==
  ASSUME GoInv, IssuedClients' = {TheClient}, UNCHANGED <<handle, mu>>,
         cancelled \subseteq cancelled', TheClient \in clients => TheClient \in clients',
         \A g \in Users : at'[g] \in Leaving <=> at[g] \in Leaving,
         mu # NoThread => UNCHANGED <<at[mu], pc[mu], arg[mu]>>
  PROVE  ClientOK'
BY GoInvParts DEF ClientOK

LEMMA ClientSteps ==
  ASSUME GoInv, NEW g \in Users, GoStep(g),
         ~CloseClient(g), ~CloseClientCall(g), ~CloseClientDone(g)
  PROVE  /\ at[g] \notin Leaving /\ at'[g] \notin Leaving
         /\ UNCHANGED <<handle, mu, clients, cancelled>>
<1>1. GoTypeOK
  BY GoInvParts
<1> USE DEF vars, registryVars, clientVars, Leaving
<1>2. ASSUME NEW v, BeginAndGive(g, v) \/ Give(g, v) PROVE at'[g] = "idle"
  BY <1>1, <1>2 DEF BeginAndGive, Give, GoTypeOK
<1>3. ASSUME NEW p, Go(g, p) \/ Blame(g, p) \/ \E r : Begin(g, r, p) PROVE at'[g] = p
  BY <1>1, <1>3 DEF Go, Blame, Begin, GoTypeOK
<1>4. ASSUME NEW r, NEW v, Settle(g, r, v) PROVE at'[g] = "rdStop"
  BY <1>1, <1>4 DEF Settle, GoTypeOK
<1>5. CASE Call(g)
  <2>1. at[g] = "idle" /\ UNCHANGED <<handle, mu, clients, cancelled>>
    BY <1>5 DEF Call, DoStart, ReadLock, CloseBody, CloseClient, Begin, BeginAndGive
  <2>2. at'[g] \notin Leaving
    BY <1>2, <1>3, <1>5 DEF Call, DoStart, ReadLock, CloseBody
  <2> QED BY <2>1, <2>2
<1>6. CASE DoStep(g)
  <2>1. at[g] \notin Leaving /\ UNCHANGED <<handle, mu, clients, cancelled>>
    BY <1>6 DEF DoStep, DoId, DoNew, DoMade, DoSend, DoSent, DoDrop, DoDropped, DoCtx, DoHandle,
       Back, CreateRequest, Send, Lookup, CloseRequest
  <2>2. at'[g] \notin Leaving
    BY <1>2, <1>3, <1>6 DEF DoStep, DoId, DoNew, DoMade, DoSend, DoSent, DoDrop, DoDropped, DoCtx,
       DoHandle
  <2> QED BY <2>1, <2>2
<1>7. CASE ReadStep(g)
  <2>1. at[g] \notin Leaving /\ UNCHANGED <<handle, mu, clients, cancelled>>
    BY <1>7 DEF ReadStep, ReadCheck, ReadCall, ReadDone, ReadFail, ReadCtx, ReadHandle, ReadStop,
       ReadFreed, Back, Read, Lookup, CloseRequest
  <2>2. at'[g] \notin Leaving
    BY <1>2, <1>3, <1>4, <1>7 DEF ReadStep, ReadCheck, ReadCall, ReadDone, ReadFail, ReadCtx,
       ReadHandle, ReadStop, ReadFreed
  <2> QED BY <2>1, <2>2
<1>8. CASE CloseBodyCall(g) \/ CloseBodyDone(g)
  <2>1. at[g] \notin Leaving /\ UNCHANGED <<handle, mu, clients, cancelled>>
    BY <1>8 DEF CloseBodyCall, CloseBodyDone, Back, CloseRequest
  <2>2. at'[g] \notin Leaving
    BY <1>2, <1>3, <1>8 DEF CloseBodyCall, CloseBodyDone
  <2> QED BY <2>1, <2>2
<1> QED BY <1>5, <1>6, <1>7, <1>8 DEF GoStep, CloseStep

LEMMA ClientNext ==
  ASSUME GoInv, [GoNext]_allVars
  PROVE  ClientOK'
<1>1. /\ GoTypeOK /\ ClientOK /\ ThreadsOK /\ IssuedClients' = {TheClient}
      /\ cancelled \intersect clients = {}
      /\ NoThread \notin Users
  BY GoInvParts, OneClient, ThreadsSplit DEF RegistryInv, CancelledIsClosed
<1>2. mu \in Users \union {NoThread} /\ handle \in {0, TheClient} /\ TheClient # 0
  BY <1>1 DEF GoTypeOK, TheClient
<1>3. \A g \in Users : PlaceOK(g) /\ (mu = g <=> at[g] \in Leaving)
  BY <1>1, GoInvParts DEF ClientOK
<1>4. ASSUME NEW g \in Users, GoStep(g),
             ~CloseClient(g), ~CloseClientCall(g), ~CloseClientDone(g)
      PROVE  ClientOK'
  <2>1. /\ at[g] \notin Leaving /\ at'[g] \notin Leaving
        /\ UNCHANGED <<handle, mu, clients, cancelled>>
    BY <1>4, ClientSteps
  <2>2. \A h \in Users \ {g} : Still(h)
    BY <1>4, OthersStill
  <2>3. mu # NoThread => mu \in Users \ {g}
    BY <1>2, <1>3, <2>1
  <2>4. \A h \in Users : at'[h] \in Leaving <=> at[h] \in Leaving
    BY <2>1, <2>2 DEF Still
  <2>5. mu # NoThread => UNCHANGED <<at[mu], pc[mu], arg[mu]>>
    BY <2>1, <2>2, <2>3 DEF Still
  <2> QED BY <1>1, <2>1, <2>4, <2>5, ClientQuiet
<1>5. ASSUME NEW g \in Users, CloseClient(g) PROVE ClientOK'
  <2>1. mu = NoThread /\ at[g] = "idle" /\ UNCHANGED <<clients, cancelled>>
    BY <1>5 DEF CloseClient, Begin, BeginAndGive, vars, registryVars
  <2>2. CASE handle = 0
    <3>1. UNCHANGED <<handle, mu, at>>
      BY <1>2, <1>5, <2>2 DEF CloseClient, BeginAndGive, clientVars
    <3> QED BY <1>1, <2>1, <3>1, ClientQuiet
  <2>3. CASE handle # 0
    <3>1. handle' = 0 /\ mu' = g /\ at' = [at EXCEPT ![g] = "ccCall"]
      BY <1>5, <2>3 DEF CloseClient, Begin
    <3>2. \A h \in Users : at'[h] = IF h = g THEN "ccCall" ELSE at[h]
      BY <1>1, <3>1 DEF GoTypeOK
    <3>3. TheClient \in clients'
      BY <1>1, <2>1, <2>3 DEF ClientOK
    <3>4. \A h \in Users : at'[h] \in Leaving <=> mu' = h
      BY <1>1, <1>3, <2>1, <3>1, <3>2 DEF Leaving
    <3>5. mu' # NoThread /\ at'[mu'] = "ccCall"
      BY <1>1, <3>1, <3>2
    <3> QED BY <1>1, <3>1, <3>3, <3>4, <3>5 DEF ClientOK
  <2> QED BY <2>2, <2>3
<1>6. ASSUME NEW g \in Users, CloseClientCall(g) PROVE ClientOK'
  <2>1. /\ at[g] = "ccCall" /\ at' = [at EXCEPT ![g] = "ccDone"] /\ Close(g, TheClient)
        /\ UNCHANGED <<handle, mu, cancelled>>
    BY <1>6 DEF CloseClientCall, Go, Close, clientVars
  <2>2. mu = g /\ handle = 0 /\ (TheClient \in cancelled \/ TheClient \in clients)
    BY <1>1, <1>2, <1>3, <2>1 DEF ClientOK, Leaving
  <2>3. \A h \in Users : at'[h] = IF h = g THEN "ccDone" ELSE at[h]
    BY <1>1, <2>1 DEF GoTypeOK
  <2>4. \A h \in Users : at'[h] \in Leaving <=> mu' = h
    BY <1>3, <2>1, <2>3 DEF Leaving
  <2>5. TheClient \in clients => pc'[g] = "cancel" /\ arg'[g] = TheClient
    BY <1>1, <2>1, ThreadsSplit DEF Close, Start, ThreadsOK
  <2>6. mu' # NoThread /\ at'[mu'] = "ccDone" /\ (TheClient \in clients => pc'[mu'] = "cancel" /\ arg'[mu'] = TheClient)
    BY <1>1, <2>1, <2>2, <2>3, <2>5
  <2> QED BY <1>1, <2>1, <2>2, <2>4, <2>6 DEF ClientOK
<1>7. ASSUME NEW g \in Users, CloseClientDone(g) PROVE ClientOK'
  <2>1. /\ at[g] = "ccDone" /\ pc[g] = "idle" /\ at' = [at EXCEPT ![g] = "idle"] /\ mu' = NoThread
        /\ UNCHANGED <<handle, clients, cancelled>>
    BY <1>7 DEF CloseClientDone, Back, Give, vars, registryVars
  <2>2. mu = g /\ handle = 0 /\ TheClient \in cancelled
    BY <1>1, <1>2, <1>3, <2>1 DEF ClientOK, Leaving
  <2>3. \A h \in Users : at'[h] = IF h = g THEN "idle" ELSE at[h]
    BY <1>1, <2>1 DEF GoTypeOK
  <2>4. \A h \in Users : at'[h] \in Leaving <=> mu' = h
    BY <1>1, <1>3, <2>1, <2>2, <2>3 DEF Leaving
  <2> QED BY <1>1, <2>1, <2>2, <2>4 DEF ClientOK
<1>8. ASSUME NEW t \in Threads, BridgeStep(t) PROVE ClientOK'
  <2>1. UNCHANGED <<at, handle, mu>> /\ Step(t)
    BY <1>8 DEF BridgeStep, packageVars, clientVars, goVars
  <2>2. clients' = clients /\ cancelled \subseteq cancelled'
    BY <2>1 DEF Step, Cancel, Register, Abort, Poll, Suspend, SendStart, SendAnswer, ReadStart,
       ReadAnswer, registryVars
  <2>3. CASE t = mu /\ mu # NoThread
    <3>1. pc[t] # "idle" /\ at[t] \in Leaving
      BY <1>2, <1>3, <1>8, <2>3, BridgeLeaves
    <3>2. at[t] = "ccDone" /\ pc[t] = "cancel"
      BY <1>2, <1>3, <2>3, <3>1 DEF PlaceOK, Leaving
    <3>3. Cancel(t)
      BY <2>1, <3>2 DEF Step, Register, Abort, Poll, Suspend, SendStart, SendAnswer, ReadStart,
         ReadAnswer, InBody
    <3>4. handle = 0
      BY <1>1, <2>3 DEF ClientOK
    <3>5. TheClient \in cancelled'
      BY <1>1, <2>3, <3>2, <3>3, <3>4 DEF ClientOK, Cancel
    <3> QED BY <1>1, <2>1, <3>4, <3>5 DEF ClientOK
  <2>4. CASE t # mu
    <3>1. mu # NoThread => Still(mu)
      BY <1>2, <1>8, <2>4, OthersStill, ThreadsSplit
    <3> QED BY <1>1, <2>1, <2>2, <3>1, ClientQuiet DEF Still
  <2>5. CASE mu = NoThread
    BY <1>1, <2>1, <2>2, <2>5, ClientQuiet
  <2> QED BY <2>3, <2>4, <2>5
<1>9. ASSUME NEW r \in Requests, EndContext(r) \/ Fire(r) PROVE ClientOK'
  <2>1. UNCHANGED <<at, handle, mu, clients, cancelled>>
    BY <1>9 DEF EndContext, Fire, CloseRequest, vars, registryVars, goVars, clientVars
  <2>2. mu # NoThread => Still(mu)
    BY <1>2, <1>9, OthersStill
  <2> QED BY <1>1, <2>1, <2>2, ClientQuiet DEF Still
<1>10. CASE UNCHANGED allVars
  <2>1. UNCHANGED <<at, handle, mu, clients, cancelled, pc, arg>>
    BY <1>10 DEF allVars, packageVars, vars, registryVars, threadVars, goVars, clientVars
  <2> QED BY <1>1, <2>1, ClientQuiet
<1> QED BY <1>4, <1>5, <1>6, <1>7, <1>8, <1>9, <1>10, GoSteps, ThreadsSplit

-----------------------------------------------------------------------------
(* Requests. *)

LEMMA RequestLasts ==
  ASSUME GoInv, NEW S \in SUBSET Users, Moves(S), NEW r \in Requests
  PROVE  /\ \/ native'[r] = native[r]
            \/ native[r] = 0 /\ \E g \in S : /\ Made(g) /\ req[g] = r /\ native'[r] = arg[g]
                                             /\ UnderWay(r)'
         /\ native[r] # 0 => native'[r] = native[r]
         /\ native[r] # 0 /\ Freed(r) => Freed(r)'
         /\ native[r] # 0 => native[r] \in IssuedCalls /\ CallForward(S, native[r])
         /\ r \in opened => r \in opened' /\ native[r] # 0
         /\ r \notin opened /\ r \in opened' => UnderWay(r) /\ native[r] # 0
         /\ native[r] # 0 /\ UnderWay(r)' => UnderWay(r)
<1>1. /\ NativeOK(r) /\ RequestServed(S, r) /\ RequestForward(S, r) /\ CallsForward(S)
      /\ \A g \in Users : HoldsOK(g)
  BY GoInvParts DEF Moves, Serves, Forward
<1>2. \A g \in S : Made(g) /\ req[g] = r => native[r] = 0
  BY <1>1 DEF Made, HoldsOK, Asking, ItsCall
<1>3. ASSUME NEW g \in S, at'[g] = "doSend", req'[g] = r PROVE UnderWay(r)'
  BY <1>3 DEF UnderWay, Sending
<1>4. \/ native'[r] = native[r]
      \/ native[r] = 0 /\ \E g \in S : /\ Made(g) /\ req[g] = r /\ native'[r] = arg[g]
                                       /\ UnderWay(r)'
  BY <1>1, <1>2, <1>3 DEF RequestServed
<1>5. native[r] # 0 => native'[r] = native[r]
  BY <1>4
<1>6. native[r] # 0 => native[r] \in IssuedCalls /\ CallForward(S, native[r])
  BY <1>1 DEF NativeOK, CallsForward
<1>7. ASSUME native[r] # 0, Freed(r) PROVE Freed(r)'
  <2>1. after'[r] # "armed"
    BY <1>1, <1>2, <1>7 DEF RequestServed, Freed
  <2>2. native'[r] = native[r] /\ native[r] \notin calls'
    BY <1>5, <1>6, <1>7 DEF CallForward, Freed
  <2> QED BY <2>1, <2>2 DEF Freed
<1>8. r \in opened => r \in opened' /\ native[r] # 0
  BY <1>1 DEF RequestForward, NativeOK
<1>9. r \notin opened /\ r \in opened' => UnderWay(r) /\ native[r] # 0
  <2>1. ASSUME NEW g \in S, at[g] = "doSent", req[g] = r PROVE UnderWay(r) /\ native[r] # 0
    BY <1>1, <2>1 DEF UnderWay, Sending, HoldsOK, ItsCall
  <2> QED BY <1>1, <2>1 DEF RequestServed
<1>10. ASSUME native[r] # 0, UnderWay(r)' PROVE UnderWay(r)
  <2>1. PICK h \in Users : req'[h] = r /\ at'[h] \in Sending
    BY <1>10 DEF UnderWay
  <2>2. CASE h \in S
    <3>1. (at[h] \in Sending \/ Made(h)) /\ req[h] = r
      BY <2>1, <2>2 DEF Moves, Serves, Leaves
    <3> QED BY <1>2, <1>10, <2>2, <3>1 DEF UnderWay
  <2>3. CASE h \notin S
    BY <2>1, <2>3 DEF Moves, Still, UnderWay
  <2> QED BY <2>2, <2>3
<1> QED BY <1>4, <1>5, <1>6, <1>7, <1>8, <1>9, <1>10

(* A call leaves the bridge for a reason, and the reason stays.            *)
LEMMA ReasonNext ==
  ASSUME GoInv, NEW S \in SUBSET Users, Moves(S), NEW r \in Requests,
         native'[r] # 0, native'[r] \notin calls'
  PROVE  Reason(r)'
<1>1. /\ NativeOK(r) /\ RequestServed(S, r) /\ RequestForward(S, r)
      /\ clients' \subseteq clients /\ ctxDone \subseteq ctxDone'
  BY GoInvParts DEF Moves, Serves, Forward, CallsForward
<1>2. CASE native[r] = 0
  <2>1. PICK g \in S : Made(g) /\ native'[r] = arg[g]
    BY <1>2, RequestLasts
  <2>2. arg[g] \in IssuedCalls /\ (arg[g] \in calls \/ TheClient \notin clients)
        /\ \A s \in Requests : native[s] # arg[g]
    BY <2>1, GoInvParts DEF MadeOK
  <2>3. arg[g] \in calls' \/ TheClient \notin clients'
    BY <1>1, <2>2 DEF Moves, Serves, CallsServed
  <2> QED BY <2>1, <2>3 DEF Reason
<1>3. CASE native[r] # 0
  <2>1. native'[r] = native[r]
    BY <1>3, RequestLasts
  <2>2. ASSUME r \notin opened, ~UnderWay(r) PROVE Reason(r)'
    BY <1>3, <2>2, RequestLasts DEF Reason
  <2>3. ASSUME err[r] # "none" PROVE Reason(r)'
    BY <1>1, <2>3 DEF RequestServed, Reason
  <2>4. CASE native[r] \notin calls
    <3>1. Reason(r)
      BY <1>1, <1>3, <2>4 DEF NativeOK
    <3> QED BY <1>1, <2>2, <2>3, <3>1 DEF Reason, RequestForward
  <2>5. CASE native[r] \in calls
    <3>1. \/ TheClient \notin clients'
          \/ \E s \in Requests :
               /\ native[s] = native[r]
               /\ \/ s \in ctxDone \/ s \in closed \/ err[s] # "none"
                  \/ \E g \in S : req[g] = s /\ at[g] = "doDrop" /\ at'[g] = "doDropped"
      BY <2>1, <2>5 DEF Moves, Serves, CallsServed
    <3>2. CASE TheClient \notin clients'
      BY <3>2 DEF Reason
    <3>3. CASE r \in ctxDone \/ r \in closed \/ err[r] # "none"
      BY <1>1, <2>3, <3>3 DEF Reason, RequestForward
    <3>4. ASSUME NEW g \in S, req[g] = r, at[g] = "doDrop", at'[g] = "doDropped"
          PROVE  Reason(r)'
      <4>1. InDo(g) /\ r \notin opened
        BY <3>4, GoInvParts DEF InDo, Sending, HoldsOK
      <4>2. \A h \in S : h = g
        BY DEF Moves
      <4>3. r \notin opened'
        BY <1>1, <3>4, <4>1, <4>2 DEF RequestServed
      <4>4. ~UnderWay(r)'
        <5>1. ASSUME NEW h \in Users, req'[h] = r, at'[h] \in Sending PROVE FALSE
          <6>1. h # g
            BY <3>4, <5>1 DEF Sending
          <6>2. req[h] = r /\ at[h] \in Sending
            BY <4>2, <5>1, <6>1 DEF Moves, Still
          <6>3. InDo(h)
            BY <6>2 DEF InDo
          <6> QED BY <3>4, <4>1, <6>1, <6>2, <6>3, GoInvParts DEF AloneOK
        <5> QED BY <5>1 DEF UnderWay
      <4> QED BY <4>3, <4>4 DEF Reason
    <3> QED BY <1>1, <1>3, <3>1, <3>2, <3>3, <3>4 DEF NativeOK
  <2> QED BY <2>4, <2>5
<1> QED BY <1>2, <1>3

LEMMA NativeNext ==
  ASSUME GoInv, NEW S \in SUBSET Users, Moves(S), NEW r \in Requests
  PROVE  NativeOK(r)'
<1>1. /\ NativeOK(r) /\ RequestServed(S, r) /\ RequestForward(S, r) /\ CallsForward(S)
      /\ ctxDone \subseteq ctxDone'
      /\ \A g \in Users : MadeOK(g) /\ HoldsOK(g)
  BY GoInvParts DEF Moves, Serves, Forward
<1>2. \A g \in S : Made(g) => arg[g] \in IssuedCalls /\ arg[g] # 0 /\ CallForward(S, arg[g])
                              /\ \A s \in Requests : native[s] # arg[g]
  <2>1. IssuedCalls \subseteq Ids
    BY GoInvParts, IssuedType
  <2>2. ASSUME NEW g \in S, Made(g)
        PROVE  arg[g] \in IssuedCalls /\ \A s \in Requests : native[s] # arg[g]
    <3>1. MadeOK(g)
      BY <1>1
    <3> QED BY <2>2, <3>1 DEF MadeOK
  <2>3. \A k \in IssuedCalls : k # 0
    BY <2>1 DEF Ids
  <2>4. \A k \in IssuedCalls : CallForward(S, k)
    BY <1>1 DEF CallsForward
  <2> QED BY <2>2, <2>3, <2>4
<1>3. r \notin started' => native'[r] = 0
  <2>1. \A g \in S : Made(g) /\ req[g] = r => r \in started
    BY <1>1 DEF Made, HoldsOK, InDo, Asking
  <2> QED BY <1>1, <2>1, RequestLasts DEF NativeOK, RequestForward
<1>4. ASSUME native'[r] = 0 PROVE after'[r] = "unset" /\ r \notin opened'
  <2>1. native[r] = 0 /\ \A g \in S : Made(g) => native'[r] # arg[g]
    BY <1>2, <1>4, RequestLasts
  <2>2. after[r] = "unset" /\ r \notin opened
    BY <1>1, <2>1 DEF NativeOK
  <2>3. after'[r] = "unset"
    BY <1>1, <2>1, <2>2 DEF RequestServed
  <2> QED BY <2>1, <2>2, <2>3, RequestLasts
<1>5. native'[r] # 0 => native'[r] \in IssuedCalls' /\ after'[r] # "unset"
  <2>1. native'[r] # 0 => native'[r] \in IssuedCalls'
    BY <1>2, RequestLasts DEF CallForward
  <2>2. ASSUME native'[r] # 0 PROVE after'[r] # "unset"
    <3>1. CASE native[r] = 0
      BY <1>1, <2>2, <3>1 DEF RequestServed
    <3>2. CASE native[r] # 0
      BY <1>1, <3>2 DEF RequestServed, NativeOK
    <3> QED BY <3>1, <3>2
  <2> QED BY <2>1, <2>2
<1>6. after'[r] = "fired" => r \in ctxDone'
  BY <1>1 DEF RequestServed, NativeOK
<1>7. r \in opened' => phase'[native'[r]] # "Ready"
  <2>1. CASE r \in opened
    <3>1. native[r] # 0 /\ phase[native[r]] # "Ready" /\ native'[r] = native[r]
      BY <1>1, <2>1, RequestLasts DEF NativeOK
    <3> QED BY <3>1, RequestLasts DEF CallForward
  <2>2. CASE r \notin opened
    <3>1. r \in opened' => native'[r] = native[r]
      BY <2>2, RequestLasts
    <3> QED BY <1>1, <2>2, <3>1 DEF RequestServed
  <2> QED BY <2>1, <2>2
<1>8. ASSUME NEW s \in Requests \ {r}, native'[r] # 0 PROVE native'[s] # native'[r]
  <2>1. /\ native'[r] = native[r] \/ \E g \in S : Made(g) /\ req[g] = r /\ native'[r] = arg[g]
        /\ native'[s] = native[s] \/ \E g \in S : Made(g) /\ req[g] = s /\ native'[s] = arg[g]
    BY RequestLasts
  <2>2. \A g, h \in S : g = h
    BY DEF Moves
  <2> QED BY <1>1, <1>2, <1>8, <2>1, <2>2 DEF NativeOK
<1> QED BY <1>3, <1>4, <1>5, <1>6, <1>7, <1>8, ReasonNext DEF NativeOK

(* The reader that met a failure tells it, or its body's error does.       *)
LEMMA ReaderTells ==
  ASSUME GoInv, NEW S \in SUBSET Users, Moves(S), NEW r \in Requests, NEW g \in Users,
         at[g] \in ReadEnds, readMu[r] = g, req[g] = r, native[r] \in failed'
  PROVE  err'[r] # "none" \/ (readMu'[r] = g /\ at'[g] \in ReadEnds)
<1>1. RequestForward(S, r) /\ \A h \in Users : HoldsOK(h) /\ h # NoThread
  BY GoInvParts, ThreadsSplit DEF Moves, Forward
<1>2. CASE g \in S
  BY <1>2 DEF Moves, Serves, Leaves, ItsCall
<1>3. CASE g \notin S
  <2>1. readMu'[r] = g
    BY <1>1, <1>3 DEF RequestForward, HoldsOK
  <2> QED BY <1>3, <2>1 DEF Moves, Still
<1> QED BY <1>2, <1>3

LEMMA BodyNext ==
  ASSUME GoInv, NEW S \in SUBSET Users, Moves(S), NEW r \in Requests
  PROVE  BodyOK(r)'
<1>1. /\ BodyOK(r) /\ NativeOK(r) /\ RequestServed(S, r)
      /\ \A g \in Users : HoldsOK(g) /\ AloneOK(g) /\ PlaceOK(g) /\ g # NoThread
      /\ readMu[r] \in Users \union {NoThread}
  BY GoInvParts, ThreadsSplit DEF Moves, Serves, GoTypeOK
<1>2. (r \notin opened' => err'[r] = "none") /\ err'[r] \notin Symptoms
  BY <1>1, RequestLasts DEF RequestServed, BodyOK
<1>3. ASSUME native'[r] \in failed', r \in opened', err'[r] = "none"
      PROVE  readMu'[r] # NoThread /\ at'[readMu'[r]] \in ReadEnds
  <2>1. r \in opened /\ native'[r] = native[r] /\ native[r] # 0
    BY <1>1, <1>3, RequestLasts DEF RequestServed
  <2>2. \E g \in Users : at[g] \in ReadEnds /\ readMu[r] = g /\ req[g] = r
    <3>1. CASE native[r] \in failed
      <4>1. err[r] = "none"
        BY <1>1, <1>3 DEF RequestServed
      <4>2. readMu[r] # NoThread /\ at[readMu[r]] \in ReadEnds
        BY <1>1, <2>1, <3>1, <4>1 DEF BodyOK, ReadEnds
      <4> QED BY <1>1, <4>2 DEF AloneOK
    <3>2. CASE native[r] \notin failed
      <4>1. PICK g \in S : arg[g] = native[r] /\ pc[g] \in {"poll", "body"}
        <5>1. CallForward(S, native[r])
          BY <2>1, RequestLasts
        <5> QED BY <1>3, <2>1, <3>2, <5>1 DEF CallForward
      <4>2. at[g] \in {"doSent", "rdDone"} /\ native[req[g]] = native[r]
        BY <1>1, <4>1 DEF PlaceOK, ItsCall
      <4>3. req[g] \in Requests
        BY <1>1, <4>2 DEF HoldsOK, InDo, InRead, Sending, Reading
      <4>4. req[g] = r
        BY <1>1, <2>1, <4>2, <4>3 DEF NativeOK
      <4>5. at[g] = "rdDone" /\ readMu[r] = g
        BY <1>1, <2>1, <4>2, <4>4 DEF HoldsOK, InDo, InRead, Sending, Reading
      <4> QED BY <4>4, <4>5 DEF ReadEnds
    <3> QED BY <3>1, <3>2
  <2> QED BY <1>1, <1>3, <2>1, <2>2, ReaderTells
<1> QED BY <1>2, <1>3 DEF BodyOK, ReadEnds

LEMMA OverNext ==
  ASSUME GoInv, NEW S \in SUBSET Users, Moves(S), NEW r \in Requests
  PROVE  OverOK(r)'
<1>1. /\ OverOK(r) /\ BodyOK(r) /\ NativeOK(r) /\ RequestServed(S, r) /\ RequestForward(S, r)
      /\ \A g \in Users : HoldsOK(g) /\ AloneOK(g) /\ g # NoThread
      /\ readMu[r] \in Users \union {NoThread} /\ bodyMu[r] \in Users \union {NoThread}
      /\ r \in closed => r \in opened
  BY GoInvParts, ThreadsSplit DEF Moves, Serves, Forward, GoTypeOK
<1>2. \A k \in IssuedCalls : k \in calls' => k \in calls
  BY DEF Moves, Forward, CallsForward, CallForward
<1>3. ASSUME r \in closed'
      PROVE  /\ after'[r] # "armed"
             /\ native'[r] \in calls' => bodyMu'[r] # NoThread /\ at'[bodyMu'[r]] = "clCall"
  <2>1. CASE r \notin closed
    BY <1>1, <1>3, <2>1 DEF RequestServed
  <2>2. CASE r \in closed
    <3>1. native[r] # 0 /\ native'[r] = native[r] /\ native[r] \in IssuedCalls
      BY <1>1, <2>2, RequestLasts
    <3>2. after'[r] # "armed"
      <4>1. \A g \in S : ~(Made(g) /\ req[g] = r)
        BY <1>1, <3>1 DEF Made, HoldsOK, Asking, ItsCall
      <4> QED BY <1>1, <2>2, <4>1 DEF OverOK, RequestServed
    <3>3. ASSUME native[r] \in calls' PROVE bodyMu'[r] # NoThread /\ at'[bodyMu'[r]] = "clCall"
      <4>1. PICK h \in Users : bodyMu[r] = h /\ at[h] = "clCall"
        BY <1>1, <1>2, <2>2, <3>1, <3>3 DEF OverOK
      <4>2. h \notin S
        <5>1. req[h] = r
          BY <1>1, <4>1 DEF AloneOK
        <5> QED BY <3>3, <4>1, <5>1 DEF Moves, Serves, Leaves, ItsCall
      <4>3. bodyMu'[r] = h /\ at'[h] = "clCall"
        BY <1>1, <4>1, <4>2 DEF RequestForward, Moves, Still
      <4> QED BY <1>1, <4>3
    <3> QED BY <3>1, <3>2, <3>3
  <2> QED BY <2>1, <2>2
<1>4. ASSUME err'[r] # "none"
      PROVE  Freed(r)' \/ (readMu'[r] # NoThread /\ at'[readMu'[r]] = "rdStop")
  <2>1. CASE err'[r] # err[r]
    BY <1>1, <2>1 DEF RequestServed
  <2>2. CASE err'[r] = err[r]
    <3>1. r \in opened /\ native[r] # 0 /\ native'[r] = native[r]
      BY <1>1, <1>4, <2>2, RequestLasts DEF BodyOK
    <3>2. CASE Freed(r)
      BY <3>1, <3>2, RequestLasts
    <3>3. CASE readMu[r] # NoThread /\ at[readMu[r]] = "rdStop"
      <4>1. PICK h \in Users : readMu[r] = h /\ at[h] = "rdStop" /\ req[h] = r
        BY <1>1, <3>3 DEF AloneOK
      <4>2. CASE h \in S
        BY <3>1, <4>1, <4>2 DEF Moves, Serves, Leaves, ItsCall, Freed
      <4>3. CASE h \notin S
        <5>1. readMu'[r] = h /\ at'[h] = "rdStop"
          BY <1>1, <4>1, <4>3 DEF RequestForward, HoldsOK, Moves, Still
        <5> QED BY <1>1, <5>1
      <4> QED BY <4>2, <4>3
    <3> QED BY <1>1, <1>4, <2>2, <3>2, <3>3 DEF OverOK
  <2> QED BY <2>1, <2>2
<1>5. ASSUME native'[r] # 0, r \notin opened', ~UnderWay(r)' PROVE Freed(r)'
  <2>1. native[r] # 0 /\ native'[r] = native[r] /\ r \notin opened
    BY <1>5, RequestLasts
  <2>2. CASE ~UnderWay(r)
    BY <1>1, <2>1, <2>2, RequestLasts DEF OverOK
  <2>3. CASE UnderWay(r)
    <3>1. PICK h \in Users : req[h] = r /\ at[h] \in Sending
      BY <2>3 DEF UnderWay
    <3>2. h \in S
      BY <1>5, <3>1 DEF Moves, Still, UnderWay
    <3> QED BY <1>5, <2>1, <3>1, <3>2 DEF Moves, Serves, Leaves, UnderWay, ItsCall, Freed
  <2> QED BY <2>2, <2>3
<1> QED BY <1>3, <1>4, <1>5 DEF OverOK

LEMMA CallbackNext ==
  ASSUME GoInv, [GoNext]_allVars, NEW r \in Requests
  PROVE  CallbackOK(r)'
<1>1. ThreadsOK /\ Callback[r] \in Threads /\ Callback[r] \notin Users /\ pc[Callback[r]] \in {"idle", "cancel"}
  BY GoInvParts, ThreadsSplit DEF CallbackOK
<1>2. ASSUME NEW t \in Threads, Step(t) PROVE CallbackOK(r)'
  BY <1>1, <1>2 DEF CallbackOK, ThreadsOK, Step, Cancel, Register, Abort, Poll, Suspend, SendStart,
     SendAnswer, ReadStart, ReadAnswer, InBody, Return, Goto, Transmit, threadVars
<1>3. ASSUME NEW t \in Threads, NEW k, CloseRequest(t, k) PROVE CallbackOK(r)'
  BY <1>1, <1>3 DEF CallbackOK, ThreadsOK, CloseRequest, Start, StartAndReturn
<1>4. ASSUME UNCHANGED vars PROVE CallbackOK(r)'
  BY <1>1, <1>4 DEF CallbackOK, vars, threadVars
<1>5. ASSUME NEW g \in Users, GoStep(g) PROVE CallbackOK(r)'
  <2>1. g \in Threads /\ g # Callback[r]
    BY <1>1, ThreadsSplit
  <2>2. CASE Call(g)
    BY <1>4, <2>2 DEF Call, DoStart, ReadLock, CloseBody, CloseClient
  <2>3. ASSUME \E k : CreateRequest(g, k) \/ Close(g, k) \/ Send(g, k) \/ Read(g, k)
        PROVE  CallbackOK(r)'
    BY <1>1, <2>1, <2>3 DEF CallbackOK, ThreadsOK, CreateRequest, Close, Send, Read, Lookup, Start,
       StartAndReturn
  <2>4. CASE DoStep(g)
    BY <1>3, <1>4, <2>1, <2>3, <2>4 DEF DoStep, DoId, DoNew, DoMade, DoSend, DoSent, DoDrop,
       DoDropped, DoCtx, DoHandle
  <2>5. CASE ReadStep(g)
    BY <1>3, <1>4, <2>1, <2>3, <2>5 DEF ReadStep, ReadCheck, ReadCall, ReadDone, ReadFail, ReadCtx,
       ReadHandle, ReadStop, ReadFreed
  <2>6. CASE CloseStep(g)
    BY <1>3, <1>4, <2>1, <2>3, <2>6 DEF CloseStep, CloseBodyCall, CloseBodyDone, CloseClientCall,
       CloseClientDone
  <2> QED BY <1>5, <2>2, <2>4, <2>5, <2>6 DEF GoStep
<1>6. ASSUME NEW s \in Requests, EndContext(s) \/ Fire(s) PROVE CallbackOK(r)'
  BY <1>3, <1>4, <1>6, ThreadsSplit DEF EndContext, Fire
<1>7. ASSUME NEW t \in Threads, BridgeStep(t) PROVE CallbackOK(r)'
  BY <1>2, <1>7 DEF BridgeStep
<1>8. CASE UNCHANGED allVars
  BY <1>4, <1>8 DEF allVars
<1> QED BY <1>5, <1>6, <1>7, <1>8, GoSteps, ThreadsSplit

-----------------------------------------------------------------------------
(* The invariant holds. *)

LEMMA GoRegistryInit ==
  ASSUME GoInit
  PROVE  RegistryInv
<1>1. nextId = 1 /\ clients = {1} /\ 1 \in Ids /\ 1 \in 0 .. MaxId /\ NoCalls
  BY NewClientAssumption, BridgeAssumption DEF GoInit, TheClient, Ids
<1>2. TypeOK
  BY <1>1, BridgeAssumption, EmptySeq
     DEF NoCalls, TypeOK, RegistryOK, CallsOK, ThreadsOK, Ids, Ops, Results, Places
<1>3. Issued = {1} /\ IssuedCalls = {} /\ IssuedClients = {1}
  BY <1>1 DEF Issued, IssuedCalls, IssuedClients, NoCalls
<1> QED
  BY <1>1, <1>2, <1>3 DEF NoCalls, RegistryInv, KindsDisjoint, OwnersAreClients, CallsHaveClient,
     CancelledIsClosed, WorkersKnowHandles, ClosedIsCancelled

LEMMA GoInvInit ==
  ASSUME GoInit
  PROVE  GoInv
<1>1. RegistryInv /\ CallInv /\ NoCalls
  BY GoRegistryInit, CallNew DEF GoInit
<1>2. /\ Users \subseteq Threads /\ NoThread \notin Users /\ NoRequest \notin Requests
      /\ \A r \in Requests : Callback[r] \in Threads
  BY ThreadsSplit, CallbackAssumption
<1>3. GoTypeOK
  BY <1>1, BridgeAssumption DEF GoInit, GoTypeOK, RegistryInv, Results, Positions
<1>4. IssuedClients = {TheClient} /\ IssuedCalls = {}
  <2>1. nextId = 1 /\ TheClient = 1 /\ 1 \in Ids /\ \A k \in Ids : owner[k] = 0
    BY <1>1, NewClientAssumption DEF GoInit, TheClient, NoCalls
  <2>2. Issued = {1}
    BY <2>1 DEF Issued, Ids
  <2> QED BY <2>1, <2>2 DEF IssuedClients, IssuedCalls
<1>5. UnmadeOK
  BY <1>1, <1>4 DEF UnmadeOK, Unused, NoCalls
<1>6. ClientOK
  BY <1>2, <1>4 DEF GoInit, ClientOK, Leaving, TheClient
<1>7. ASSUME NEW g \in Users
      PROVE  /\ PlaceOK(g) /\ HoldsOK(g) /\ AloneOK(g) /\ MadeOK(g) /\ SendOK(g) /\ ReadOK(g)
             /\ BlameOK(g)
  <2>1. /\ at[g] = "idle" /\ pc[g] = "idle" /\ req[g] = NoRequest /\ ret[g] = "none"
        /\ \A r \in Requests : readMu[r] # g /\ bodyMu[r] # g
    BY <1>1, <1>2 DEF GoInit, NoCalls
  <2> QED BY <1>2, <2>1 DEF PlaceOK, HoldsOK, AloneOK, MadeOK, Made, SendOK, ReadOK, BlameOK, InDo,
           InRead, InClose, Asking, Sending, Failing, Reading, Closing, Symptoms
<1>8. ASSUME NEW r \in Requests
      PROVE  NativeOK(r) /\ BodyOK(r) /\ OverOK(r) /\ CallbackOK(r)
  <2>1. /\ native[r] = 0 /\ after[r] = "unset" /\ err[r] = "none"
        /\ r \notin started /\ r \notin opened /\ r \notin closed
        /\ pc[Callback[r]] = "idle"
    BY <1>1, <1>2, <1>8 DEF GoInit, NoCalls
  <2> QED BY <2>1 DEF NativeOK, BodyOK, OverOK, CallbackOK, Symptoms
<1> QED BY <1>1, <1>3, <1>5, <1>6, <1>7, <1>8 DEF GoInv

LEMMA GoInvNext ==
  ASSUME GoInv, [GoNext]_allVars
  PROVE  GoInv'
<1>1. RegistryInv' /\ CallInv'
  BY BridgeNext, RegistryNext, CallNext, GoInvParts
<1>2. GoTypeOK' /\ UnmadeOK' /\ ClientOK'
  BY GoTyped, UnmadeNext, ClientNext
<1>3. PICK S \in SUBSET Users : Moves(S)
  BY <1>1, <1>2, StepMoves
<1>4. \A g \in Users : /\ PlaceOK(g)' /\ HoldsOK(g)' /\ AloneOK(g)' /\ MadeOK(g)' /\ SendOK(g)'
                       /\ ReadOK(g)' /\ BlameOK(g)'
  BY <1>2, <1>3, UsersNext
<1>5. \A r \in Requests : NativeOK(r)' /\ BodyOK(r)' /\ OverOK(r)' /\ CallbackOK(r)'
  BY <1>3, NativeNext, BodyNext, OverNext, CallbackNext
<1> QED BY <1>1, <1>2, <1>4, <1>5 DEF GoInv

(* Every invariant of the bridge and of the package holds in every state,  *)
(* for any number of goroutines, requests and handles.                     *)
THEOREM GoCorrect == GoSpec => []GoInv
<1>1. GoInit => GoInv
  BY GoInvInit
<1>2. GoInv /\ [GoNext]_allVars => GoInv'
  BY GoInvNext
<1> QED BY <1>1, <1>2, PTL DEF GoSpec

(* The package's state stays in its types. *)
THEOREM GoTypeCorrect == GoSpec => []GoTypeOK
<1>1. GoInv => GoTypeOK
  BY DEF GoInv
<1> QED BY <1>1, GoCorrect, PTL

(* The package uses the bridge as it is meant to be used: it names only    *)
(* handles it was given, and every step of it is a step of the bridge.     *)
THEOREM GoUsesBridge == GoSpec => []RegistryInv /\ [][Next]_vars
<1>1. GoInv => RegistryInv
  BY DEF GoInv
<1>2. GoInv /\ [GoNext]_allVars => [Next]_vars
  BY BridgeNext
<1> QED BY <1>1, <1>2, GoCorrect, PTL DEF GoSpec

-----------------------------------------------------------------------------
(* What the invariant is for. *)

(* Do and Read never return the bridge's "closed", "cancelled" or          *)
(* "invalid_input": whoever took a call out of the bridge had left the     *)
(* cause behind first, where requestError looks.                           *)
THEOREM CausesNotSymptomsAlways == GoSpec => []CausesNotSymptoms
<1>1. GoInv => CausesNotSymptoms
  BY DEF GoInv, CausesNotSymptoms, HoldsOK, BodyOK
<1> QED BY <1>1, GoCorrect, PTL

(* A request that is over and that nobody works on has left the bridge,    *)
(* and no callback waits for its context.                                  *)
THEOREM NothingLeaksAlways == GoSpec => []NothingLeaks
<1>1. ASSUME GoInv, NEW r \in Requests, Over(r), ~AtWork(r), native[r] # 0
      PROVE  native[r] \notin calls /\ after[r] # "armed"
  <2>1. OverOK(r) /\ \A g \in Users : AloneOK(g) /\ HoldsOK(g)
    BY <1>1, GoInvParts
  <2>2. readMu[r] \in Users \union {NoThread} /\ bodyMu[r] \in Users \union {NoThread}
    BY <1>1, GoInvParts DEF GoTypeOK
  <2>3. \A g \in Users : req[g] = r => at[g] = "idle"
    BY <1>1 DEF AtWork
  <2>4. ~(readMu[r] # NoThread /\ at[readMu[r]] = "rdStop")
    BY <2>1, <2>2, <2>3 DEF AloneOK
  <2>5. ~(bodyMu[r] # NoThread /\ at[bodyMu[r]] = "clCall")
    BY <2>1, <2>2, <2>3 DEF AloneOK
  <2>6. ~UnderWay(r)
    BY <2>3 DEF UnderWay, Sending
  <2> QED BY <1>1, <2>1, <2>4, <2>5, <2>6 DEF OverOK, Over, Freed
<1>2. GoInv => NothingLeaks
  BY <1>1 DEF NothingLeaks
<1> QED BY <1>2, GoCorrect, PTL

(* When Client.Close has returned, to any caller, the client is cancelled  *)
(* and none of its requests is left in the bridge.                         *)
THEOREM ClosedMeansReleasedAlways == GoSpec => []ClosedMeansReleased
<1>1. ASSUME GoInv, handle = 0, mu = NoThread
      PROVE  TheClient \in cancelled /\ \A k \in IssuedCalls : k \notin calls
  <2>1. TheClient \in cancelled /\ IssuedClients = {TheClient}
    BY <1>1, GoInvParts DEF ClientOK
  <2>2. clients = {} /\ CallsHaveClient
    BY <1>1, <2>1, GoInvParts DEF RegistryInv, CancelledIsClosed, KindsDisjoint
  <2> QED BY <2>1, <2>2 DEF CallsHaveClient
<1>2. GoInv => ClosedMeansReleased
  BY <1>1 DEF ClosedMeansReleased
<1> QED BY <1>2, GoCorrect, PTL

-----------------------------------------------------------------------------
(* Bodies. *)

LEMMA TakesGrow ==
  ASSUME CallsOK, NEW k \in Ids, NEW bytes \in Seq(1 .. BodyLen), NEW n \in Takes(bytes),
         Deliver(k, bytes, n)
  PROVE  Len(out[k]) < Len(out'[k])
<1>1. n \in Nat /\ 1 <= n /\ n <= Len(bytes) /\ Len(bytes) \in Nat
  BY LenProperties DEF Takes
<1>2. SubSeq(bytes, 1, n) \in Seq(1 .. BodyLen) /\ Len(SubSeq(bytes, 1, n)) = n
  <2>1. \A i \in 1 .. n : bytes[i] \in 1 .. BodyLen
    <3>1. bytes \in [1 .. Len(bytes) -> 1 .. BodyLen]
      BY LenProperties
    <3>2. 1 .. n \subseteq 1 .. Len(bytes)
      BY <1>1
    <3> QED BY <3>1, <3>2
  <2> QED BY <1>1, <2>1, SubSeqProperties
<1>3. out[k] \in Seq(1 .. BodyLen) /\ Len(out[k]) \in Nat
  BY LenProperties DEF CallsOK
<1>4. out'[k] = out[k] \o SubSeq(bytes, 1, n)
  BY DEF Deliver, CallsOK
<1>5. Len(out'[k]) = Len(out[k]) + n
  BY <1>2, <1>3, <1>4, ConcatProperties
<1> QED BY <1>1, <1>3, <1>5

(* Bytes reach a caller when a reader of the call is answered.             *)
LEMMA OutGrows ==
  ASSUME CallsOK, NEW t \in Threads, Step(t), NEW k \in Ids
  PROVE  \/ out'[k] = out[k]
         \/ InBody(t, "read") /\ arg[t] = k /\ Len(out[k]) < Len(out'[k])
<1>1. CASE ReadStart(t)
  <2>1. CASE arg[t] # k \/ UNCHANGED out
    BY <1>1, <2>1 DEF ReadStart, Deliver, CallsOK
  <2>2. CASE arg[t] = k /\ ~UNCHANGED out
    <3>1. PICK n \in Takes(pending[k]) : Deliver(k, pending[k], n)
      BY <1>1, <2>2 DEF ReadStart
    <3>2. pending[k] \in Seq(1 .. BodyLen)
      BY DEF CallsOK
    <3> QED BY <1>1, <2>2, <3>1, <3>2, TakesGrow DEF ReadStart
  <2> QED BY <2>1, <2>2
<1>2. CASE ReadAnswer(t)
  <2>1. CASE arg[t] # k \/ UNCHANGED out
    BY <1>2, <2>1 DEF ReadAnswer, Deliver, CallsOK
  <2>2. CASE arg[t] = k /\ ~UNCHANGED out
    <3>1. PICK m \in fetched[k] + 1 .. BodyLen :
            \E n \in Takes(Chunk(k, m)) : Deliver(k, Chunk(k, m), n)
      BY <1>2, <2>2 DEF ReadAnswer
    <3>2. Chunk(k, m) \in Seq(1 .. BodyLen)
      BY ChunkType
    <3> QED BY <1>2, <2>2, <3>1, <3>2, TakesGrow DEF ReadAnswer
  <2> QED BY <2>1, <2>2
<1> QED BY <1>1, <1>2 DEF Step, Cancel, Register, Abort, Poll, Suspend, SendStart, SendAnswer, callVars,
        history

OutShort == \A k \in Ids : Len(out[k]) \in 0 .. BodyLen

LEMMA OutWithin == RegistryInv /\ CallInv => OutShort
<1>1. ASSUME RegistryInv, CallInv, NEW k \in Ids PROVE Len(out[k]) \in 0 .. BodyLen
  <2>1. /\ Len(out[k]) \in Nat /\ Len(pending[k]) \in Nat /\ fetched[k] \in 0 .. BodyLen
        /\ Len(out[k]) + Len(pending[k]) = fetched[k]
    BY <1>1, OutLength DEF RegistryInv, CallInv
  <2>2. \A i, j, f, b \in Nat : i + j = f /\ f \in 0 .. b => i \in 0 .. b
    OBVIOUS
  <2>3. BodyLen \in Nat /\ fetched[k] \in Nat
    BY <2>1, BridgeAssumption
  <2> QED BY ONLY <2>1, <2>2, <2>3
<1> QED BY <1>1 DEF OutShort

LEMMA OutWithinPrime == RegistryInv' /\ CallInv' => OutShort'
BY OutWithin, PTL

LEMMA ContractQuiet ==
  ASSUME NEW r \in Requests,
         Delivered(r)' = Delivered(r), err'[r] = err[r], r \in closed' <=> r \in closed
  PROVE  [Contract(r)!Next]_(Contract(r)!vars)
BY DEF Contract!vars

(* What the bridge does for a reader is a delivery to its body. *)
LEMMA ContractBridge ==
  ASSUME GoInv, RegistryInv', CallInv', NEW t \in Threads, BridgeStep(t), NEW r \in Requests
  PROVE  [Contract(r)!Next]_(Contract(r)!vars)
<1>1. UNCHANGED <<native, err, closed, at, req>> /\ Step(t)
  BY DEF BridgeStep, packageVars, requestVars, bodyVars, goVars
<1>2. NativeOK(r) /\ RegistryInv /\ CallsOK /\ IssuedCalls \subseteq Ids
  BY GoInvParts, IssuedType
<1>3. CASE native[r] = 0
  BY <1>1, <1>3, ContractQuiet DEF Delivered
<1>4. CASE native[r] # 0
  <2>1. PICK k \in Ids : k = native[r]
    BY <1>2, <1>4 DEF NativeOK
  <2>2. Delivered(r) = Len(out[k]) /\ Delivered(r)' = Len(out'[k])
    BY <1>1, <1>4, <2>1 DEF Delivered
  <2>3. CASE out'[k] = out[k]
    BY <1>1, <2>2, <2>3, ContractQuiet
  <2>4. CASE out'[k] # out[k]
    <3>1. InBody(t, "read") /\ arg[t] = k /\ Len(out[k]) < Len(out'[k])
      BY <1>1, <1>2, <2>4, OutGrows
    <3>2. t \in Users
      BY <3>1, ThreadsSplit, GoInvParts DEF CallbackOK, InBody
    <3>3. PlaceOK(t) /\ HoldsOK(t)
      BY <3>2, GoInvParts
    <3>4. at[t] = "rdDone" /\ arg[t] = ItsCall(t)
      BY <3>1, <3>3 DEF PlaceOK, InBody
    <3>5. req[t] \in Requests /\ err[req[t]] = "none"
      BY <3>3, <3>4 DEF HoldsOK, InRead, Reading
    <3>6. req[t] = r
      BY <1>2, <1>4, <2>1, <3>1, <3>4, <3>5 DEF NativeOK, ItsCall
    <3>7. Len(out[k]) \in 0 .. BodyLen /\ Len(out'[k]) \in 0 .. BodyLen
      BY OutWithin, OutWithinPrime, GoInvParts DEF OutShort
    <3>8. Delivered(r)' \in Delivered(r) + 1 .. BodyLen
      BY <2>2, <3>1, <3>7, BridgeAssumption
    <3>9. err[r] = "none" /\ err'[r] = err[r] /\ (r \in closed)' = (r \in closed)
      BY <1>1, <3>5, <3>6
    <3> QED BY <3>8, <3>9 DEF Contract!Next, Contract!Deliver
  <2> QED BY <2>3, <2>4
<1> QED BY <1>3, <1>4

(* A failing Read ends its body with a reason, and Close closes it.        *)
LEMMA ContractGo ==
  ASSUME GoInv, NEW g \in Users, GoStep(g), NEW r \in Requests
  PROVE  [Contract(r)!Next]_(Contract(r)!vars)
<1>1. /\ GoTypeOK /\ HoldsOK(g) /\ ReadOK(g) /\ MadeOK(g)
      /\ NativeOK(r) /\ RegistryInv /\ CallInv
  BY GoInvParts
<1>2. ASSUME UNCHANGED <<native, out, err, closed>> PROVE [Contract(r)!Next]_(Contract(r)!vars)
  BY <1>2, ContractQuiet DEF Delivered
<1>3. CASE Call(g)
  <2>1. ASSUME NEW s \in Requests, CloseBody(g, s) PROVE [Contract(r)!Next]_(Contract(r)!vars)
    <3>1. UNCHANGED <<native, out, err>> /\ closed' \in {closed, closed \union {s}}
      BY <2>1 DEF CloseBody, vars, history, requestVars
    <3>2. Delivered(r)' = Delivered(r) /\ err'[r] = err[r]
      BY <3>1 DEF Delivered
    <3>3. CASE r \in closed' <=> r \in closed
      BY <3>2, <3>3, ContractQuiet
    <3>4. CASE r \in closed'
      BY <3>2, <3>4 DEF Contract!Next, Contract!Close
    <3> QED BY <3>1, <3>3, <3>4
  <2> QED BY <1>2, <1>3, <2>1 DEF Call, DoStart, ReadLock, CloseClient, vars, history, bodyVars, clientVars,
           requestVars
<1>4. CASE DoStep(g)
  <2>1. CASE DoMade(g) /\ native' # native
    <3>1. Made(g) /\ native' = [native EXCEPT ![req[g]] = arg[g]] /\ UNCHANGED <<out, err, closed>>
      BY <2>1 DEF DoMade, Made, Back, Succeeded, vars, history, bodyVars
    <3>2. /\ req[g] \in Requests /\ native[req[g]] = 0
          /\ arg[g] \in Ids /\ arg[g] # 0 /\ out[arg[g]] = <<>>
      <4>1. req[g] \in Requests /\ native[req[g]] = 0
        BY <1>1, <3>1 DEF HoldsOK, Made, InDo, Asking, ItsCall
      <4>2. arg[g] \in Ids /\ out[arg[g]] = <<>>
        BY <1>1, <3>1, IssuedType, GoInvParts DEF MadeOK, Unused
      <4> QED BY <4>1, <4>2 DEF Ids
    <3>3. CASE r = req[g]
      <4>1. native[r] = 0 /\ native'[r] = arg[g] /\ native'[r] # 0 /\ out'[native'[r]] = <<>>
        BY <1>1, <3>1, <3>2, <3>3 DEF GoTypeOK
      <4>2. Delivered(r) = 0 /\ Delivered(r)' = 0
        BY <4>1, EmptySeq DEF Delivered
      <4> QED BY <3>1, <4>2, ContractQuiet
    <3>4. CASE r # req[g]
      <4>1. native'[r] = native[r]
        BY <1>1, <3>1, <3>4 DEF GoTypeOK
      <4> QED BY <3>1, <4>1, ContractQuiet DEF Delivered
    <3> QED BY <3>3, <3>4
  <2>2. CASE DoMade(g) /\ native' = native
    BY <1>2, <2>2 DEF DoMade, vars, history, bodyVars
  <2>3. CASE DoNew(g) \/ DoSend(g) \/ DoDrop(g)
    BY <1>2, <2>3 DEF DoNew, DoSend, DoDrop, CreateRequest, Send, CloseRequest, Lookup, requestVars,
       bodyVars, history
  <2>4. CASE DoId(g) \/ DoSent(g) \/ DoDropped(g) \/ DoCtx(g) \/ DoHandle(g)
    BY <1>2, <2>4 DEF DoId, DoSent, DoDropped, DoCtx, DoHandle, requestVars, bodyVars, vars, history
  <2> QED BY <1>4, <2>1, <2>2, <2>3, <2>4 DEF DoStep
<1>5. CASE ReadStep(g)
  <2>1. ASSUME NEW v, Settle(g, req[g], v), UNCHANGED <<native, out, closed>>,
               at[g] \in {"rdFail", "rdCtx", "rdHandle"},
               \/ v \in {"ctx", "ErrClientClosed", "error"}
               \/ v = "eof" /\ Len(out[ItsCall(g)]) = BodyLen
               \/ v = "ErrBodyClosed" /\ req[g] \in closed
        PROVE  [Contract(r)!Next]_(Contract(r)!vars)
    <3>1. req[g] \in Requests /\ err[req[g]] = "none" /\ ItsCall(g) # 0
      <4>1. at[g] \in Reading
        BY <2>1 DEF Reading
      <4> QED BY <1>1, <2>1, <4>1, ItsCallIssued DEF HoldsOK, Ids
    <3>2. Delivered(r)' = Delivered(r) /\ ((r \in closed)' = (r \in closed))
      BY <2>1 DEF Delivered
    <3>3. CASE r = req[g]
      <4>1. err[r] = "none" /\ err'[r] = v
        BY <1>1, <2>1, <3>1, <3>3 DEF Settle, GoTypeOK
      <4>2. v = "eof" => Delivered(r) = BodyLen
        BY <2>1, <3>1, <3>3 DEF Delivered, ItsCall
      <4> QED BY <2>1, <3>2, <3>3, <4>1, <4>2 DEF Contract!Next, Contract!End
    <3>4. CASE r # req[g]
      <4>1. err'[r] = err[r]
        BY <1>1, <2>1, <3>4 DEF Settle, GoTypeOK
      <4> QED BY <3>2, <4>1, ContractQuiet
    <3> QED BY <3>3, <3>4
  <2>2. CASE ReadFail(g)
    BY <1>2, <2>1, <2>2 DEF ReadFail, vars, history, requestVars
  <2>3. CASE ReadCtx(g)
    BY <1>2, <2>1, <2>3 DEF ReadCtx, vars, history, requestVars
  <2>4. CASE ReadHandle(g)
    <3>1. handle = 0 \/ cause[g] = "error" \/ (cause[g] = "eof" /\ Len(out[ItsCall(g)]) = BodyLen)
      BY <1>1, <2>4 DEF ReadHandle, ReadOK
    <3> QED BY <2>1, <2>4, <3>1 DEF ReadHandle, vars, history, requestVars
  <2>5. CASE ReadCall(g) \/ ReadStop(g)
    BY <1>2, <2>5 DEF ReadCall, ReadStop, Read, CloseRequest, Lookup, requestVars, bodyVars, history
  <2>6. CASE ReadCheck(g) \/ ReadDone(g) \/ ReadFreed(g)
    BY <1>2, <2>6 DEF ReadCheck, ReadDone, ReadFreed, requestVars, vars, history
  <2> QED BY <1>5, <2>2, <2>3, <2>4, <2>5, <2>6 DEF ReadStep
<1>6. CASE CloseStep(g)
  BY <1>2, <1>6 DEF CloseStep, CloseBodyCall, CloseBodyDone, CloseClientCall, CloseClientDone,
     CloseRequest, Close, Lookup, requestVars, bodyVars, vars, history
<1> QED BY <1>3, <1>4, <1>5, <1>6 DEF GoStep

(* Every response body is a BodyContract: bytes until the first terminal   *)
(* result, io.EOF only after the last of them, and a result that stays     *)
(* (responseBody.Read and Close), also when reads, closes and the end of   *)
(* the context race.                                                       *)
THEOREM BodiesImplementContract == GoSpec => BodiesKeepContract
<1>1. GoInit => \A r \in Requests : Contract(r)!Init
  BY DEF GoInit, Contract!Init, Delivered
<1>2. ASSUME GoInv, GoInv', [GoNext]_allVars
      PROVE  [\A r \in Requests : [Contract(r)!Next]_(Contract(r)!vars)]_allVars
  <2> SUFFICES ASSUME NEW r \in Requests PROVE [Contract(r)!Next]_(Contract(r)!vars)
    OBVIOUS
  <2>1. RegistryInv' /\ CallInv'
    BY <1>2 DEF GoInv
  <2>2. ASSUME NEW g \in Users, GoStep(g) PROVE [Contract(r)!Next]_(Contract(r)!vars)
    BY <1>2, <2>2, ContractGo
  <2>3. ASSUME NEW t \in Threads, BridgeStep(t) PROVE [Contract(r)!Next]_(Contract(r)!vars)
    BY <1>2, <2>1, <2>3, ContractBridge
  <2>4. ASSUME UNCHANGED <<native, out, err, closed>> PROVE [Contract(r)!Next]_(Contract(r)!vars)
    BY <2>4, ContractQuiet DEF Delivered
  <2>5. ASSUME NEW s \in Requests, EndContext(s) \/ Fire(s)
        PROVE  [Contract(r)!Next]_(Contract(r)!vars)
    BY <2>4, <2>5 DEF EndContext, Fire, CloseRequest, Lookup, vars, history, requestVars, bodyVars
  <2>6. CASE UNCHANGED allVars
    BY <2>4, <2>6 DEF allVars, vars, history, packageVars, requestVars, bodyVars
  <2> QED BY <1>2, <2>2, <2>3, <2>5, <2>6, GoSteps, ThreadsSplit
<1> QED BY <1>1, <1>2, GoCorrect, PTL DEF GoSpec, BodiesKeepContract
=============================================================================
