--------------------------- MODULE TransportProofs ---------------------------
(***************************************************************************)
(* Theorems about Transport, for any number of goroutines and requests and *)
(* bodies of any length: type correctness, that causes are reported before *)
(* symptoms, that an upload is closed once, that nothing is left behind,   *)
(* that closing is for good, and that bodies implement BodyContract.       *)
(***************************************************************************)
EXTENDS Transport, TLAPS

-----------------------------------------------------------------------------
(* The invariant. *)

(* Whose call a goroutine is in: mapError is called from two of them.      *)
InRoundTrip(g) == at[g] \in RoundTripping \/ (at[g] \in Mapping /\ then[g] # "reading")
InRead(g) == at[g] \in Reading \/ (at[g] \in Mapping /\ then[g] = "reading")
InBodyClose(g) == at[g] \in {"bcInner", "bcFinish"}

(* What a goroutine holds at its place. *)
HoldsOK(g) ==
  /\ at[g] \notin Closing \union {"idle"} => req[g] \in Requests
  /\ at[g] \in Mapping => then[g] # "none"
  /\ at[g] \in {"fail", "failShut", "rdFailed", "rdEnd"} => err[g] # "nil"
  /\ at[g] \in Mapping /\ then[g] = "reading" => err[g] # "nil"

(* A RoundTrip has its request to itself, and has got that far with it.    *)
AloneOK(g) ==
  InRoundTrip(g) =>
    /\ answer[req[g]] = "awaited"
    /\ \A h \in Users : InRoundTrip(h) /\ req[h] = req[g] => h = g

ContextOK(g) ==
  InRoundTrip(g) =>
    /\ at[g] \in {"state", "context"} => op[req[g]] = "unset"
    /\ at[g] \notin {"state", "context", "failShut"} => op[req[g]] # "unset"
    /\ req[g] \in finished => at[g] = "failShut"
    /\ at[g] = "failShut" => op[req[g]] # "live" /\ reg[req[g]] # "armed"
    /\ native[req[g]] = "open" => at[g] = "doing"

UploadOK(g) ==
  InRoundTrip(g) =>
    /\ at[g] \in {"state", "context", "upload"} \/ (at[g] \in Mapping /\ then[g] = "begun") =>
         upload[req[g]] \in {"none", "open"}
    /\ at[g] = "upload" => upload[req[g]] = "open"
    /\ at[g] \in {"do", "doing"} \/ (at[g] \in Mapping /\ then[g] # "begun") => IsShut(req[g])

(* A Read has its body's lock, and goes past the check of a body only      *)
(* while that has not ended.                                               *)
ReadOK(g) ==
  InRead(g) =>
    /\ Opened(req[g]) /\ readMu[req[g]] = g
    /\ at[g] # "rdCheck" => terminal[req[g]] = "none"
    /\ at[g] \notin {"rdCheck", "rdInner"} =>
         /\ native[req[g]] # "open"
         /\ err[g] \in Causes \union Symptoms \union {"error", "eof", "ErrBodyClosed"}
         /\ err[g] = "eof" => delivered[req[g]] = BodyLen

(* An error that has not been mapped is no cause yet, and a symptom has    *)
(* one; what mapError answered is honest.                                  *)
BlameOK(g) ==
  /\ at[g] \in {"unwatch", "shut"} => err[g] \in {"nil", "upload"}
  /\ at[g] \in Mapping \union {"rdFailed"} =>
       /\ err[g] \notin Causes
       /\ err[g] = "ErrBodyClosed" => req[g] \in shut
       /\ err[g] = "ctx" => OpEnded(req[g])
       /\ err[g] = "ErrClientClosed" =>
            OpEnded(req[g]) \/ (lifetime = "done" /\ at[g] # "mapOperation")
  /\ at[g] \in {"fail", "failShut", "rdEnd"} => Honest(err[g], req[g])

(* What is known of a request, whoever is at work on it. *)
OperationOK(r) ==
  /\ answer[r] = "none" => op[r] = "unset"
  /\ Opened(r) => op[r] # "unset"
  /\ op[r] = "unset" => reg[r] = "unset" /\ native[r] = "none"
  /\ op[r] = "request" => r \in ended
  /\ op[r] = "ErrTransportClosed" => closed
  /\ op[r] = "finished" => r \in finished
  /\ r \in finished => OpEnded(r) /\ reg[r] # "armed"
  /\ r \in finished /\ Opened(r) => r \in shut \/ terminal[r] # "none"
  /\ answer[r] \notin {"none", "awaited", "response"} =>
       native[r] # "open" /\ reg[r] # "armed" /\ op[r] # "live"

ClosesOK(r) ==
  /\ answer[r] = "none" => upload[r] = "none"
  /\ closes[r] = IF upload[r] \in {"none", "open"} THEN 0 ELSE 1
  /\ watch[r] = "armed" =>
       /\ upload[r] = "open"
       /\ \E g \in Users : at[g] \in {"uploading", "unwatch"} /\ req[g] = r
  /\ answer[r] \notin {"none", "awaited"} => IsShut(r)

BodyOK(r) ==
  /\ r \in shut =>
       /\ Opened(r)
       /\ r \in innerShut \/ \E g \in Users : at[g] = "bcInner" /\ req[g] = r
       /\ r \in finished \/ \E g \in Users : InBodyClose(g) /\ req[g] = r
  /\ r \in innerShut => native[r] # "open"
  /\ terminal[r] # "none" => Opened(r) /\ r \in finished /\ native[r] # "open"
  /\ Honest(answer[r], r) /\ Honest(terminal[r], r)

(* The client of a Transport that the program has dropped is closed when   *)
(* neither a RoundTrip nor an unfinished body is left.                     *)
Collected ==
  /\ ~held
  /\ \A g \in Users : ~InRoundTrip(g)
  /\ \A r \in Requests : Opened(r) => r \in finished

OwnOK ==
  /\ client = "none" <=> lifetime = "none"
  /\ lifetime = "done" => closed
  /\ \A g \in Users : at[g] \in Closing => closed
  /\ \A g \in Users : at[g] = "tcClient" => lifetime # "live"
  /\ closed /\ lifetime = "live" => \E g \in Users : at[g] = "tcCancel"
  /\ closed /\ client = "open" => \E g \in Users : at[g] \in Closing
  /\ client = "closed" => lifetime = "done" \/ Collected
  /\ \A r \in Requests : native[r] = "open" => client = "open"

BodyClosersOK == \A g \in Users : InBodyClose(g) => req[g] \in shut

Inv ==
  /\ TypeOK /\ OwnOK /\ BodyClosersOK
  /\ \A g \in Users : /\ HoldsOK(g) /\ AloneOK(g) /\ ContextOK(g)
                      /\ UploadOK(g) /\ ReadOK(g) /\ BlameOK(g)
  /\ \A r \in Requests : OperationOK(r) /\ ClosesOK(r) /\ BodyOK(r)

-----------------------------------------------------------------------------
(* Steps. *)

RoundTripStep(g) ==
  \/ State(g) \/ MakeContext(g) \/ WatchUpload(g) \/ Uploaded(g) \/ Unwatch(g)
  \/ Shut(g) \/ UploadShut(g) \/ Do(g) \/ DoResponse(g) \/ DoFails(g) \/ Fail(g) \/ Failed(g)
MappingStep(g) == MapRequest(g) \/ MapLifetime(g) \/ MapOperation(g)
ReadStep(g) == ReadCheck(g) \/ ReadData(g) \/ ReadFails(g) \/ ReadFailed(g) \/ ReadEnd(g)
CloseStep(g) == CloseInner(g) \/ CloseFinish(g) \/ CloseSteps(g)

GoStep(g) ==
  Call(g) \/ RoundTripStep(g) \/ MappingStep(g) \/ ReadStep(g) \/ CloseStep(g)

ContextStep(r) ==
  \/ EndRequest(r) \/ TimeOut(r) \/ Propagate(r) \/ EndLifetime(r)
  \/ FreeNative(r) \/ FireUpload(r) \/ FiredShut(r)

(* Every step is a goroutine's, or of what goes on without one. *)
LEMMA Steps ==
  ASSUME [Next]_vars
  PROVE  \/ \E g \in Users : GoStep(g)
         \/ \E r \in Requests : ContextStep(r)
         \/ Drop \/ Collect \/ UNCHANGED vars
BY DEF Next, Call, Continue, Callbacks, Environment, GoStep, RoundTripStep, MappingStep,
       ReadStep, CloseStep, ContextStep, UploadInterrupted, DoInterrupted, ReadInterrupted

(* A goroutine and what it works with are left alone. *)
Stays(h) == at'[h] = at[h] /\ req'[h] = req[h] /\ then'[h] = then[h] /\ err'[h] = err[h]

(* Errors that are not the absence of one. *)
LEMMA ErrorsKnown ==
  /\ Causes \subseteq Errors /\ Symptoms \subseteq Errors
  /\ "nil" \notin Errors /\ "none" \notin Errors /\ "awaited" \notin Errors
  /\ \A r \in Requests, e \in Errors : Blamed(r, e) \in Errors
BY DEF Errors, Causes, Symptoms, Blamed, OpEnded

-----------------------------------------------------------------------------
(* Type correctness. *)

Typed == TypeOK /\ BodyClosersOK /\ \A g \in Users : HoldsOK(g)

LEMMA TypedInit == Init => Typed
<1>1. ASSUME Init PROVE TypeOK
  <2>1. delivered \in [Requests -> 0 .. BodyLen] /\ closes \in [Requests -> Nat]
    BY <1>1, TransportAssumption DEF Init
  <2>2. /\ at \in [Users -> RoundTripping \union Mapping \union Reading \union Closing
                             \union {"idle", "bcInner", "bcFinish"}]
        /\ reg \in [Requests -> Registrations] /\ watch \in [Requests -> Registrations]
    BY <1>1 DEF Init, Registrations
  <2> QED BY <1>1, <2>1, <2>2 DEF Init, TypeOK
<1>2. ASSUME Init PROVE BodyClosersOK /\ \A g \in Users : HoldsOK(g)
  BY <1>2 DEF Init, BodyClosersOK, InBodyClose, HoldsOK, Mapping
<1> QED BY <1>1, <1>2 DEF Typed

LEMMA TypedCall ==
  ASSUME Typed, NEW g \in Users, Call(g)
  PROVE  Typed'
<1> USE DEF Typed, TypeOK, HoldsOK, BodyClosersOK, InBodyClose
<1>1. ASSUME NEW r \in Requests, RoundTrip(g, r) PROVE Typed'
  BY <1>1 DEF RoundTrip, ownVars, contextVars, bodyVars, RoundTripping, Mapping, Closing, Errors
<1>2. ASSUME NEW r \in Requests, ReadLock(g, r) PROVE Typed'
  BY <1>2 DEF ReadLock, Begin, ownVars, contextVars, uploadVars, Reading, Mapping, Closing
<1>3. ASSUME NEW r \in Requests, CloseBody(g, r) PROVE Typed'
  BY <1>3 DEF CloseBody, Begin, ownVars, contextVars, uploadVars, Mapping, Closing
<1>4. ASSUME Close(g) PROVE Typed'
  BY <1>4 DEF Close, Begin, contextVars, uploadVars, bodyVars, Mapping, Closing
<1> QED BY <1>1, <1>2, <1>3, <1>4 DEF Call

LEMMA TypedMapping ==
  ASSUME Typed, NEW g \in Users, MappingStep(g)
  PROVE  Typed'
<1> USE DEF Typed, TypeOK, HoldsOK, BodyClosersOK, InBodyClose
<1>1. ASSUME at[g] \in Mapping, NEW e \in Errors \union {"nil"},
             then[g] = "reading" => e # "nil", Mapped(g, e), UNCHANGED stateVars
      PROVE  Typed'
  BY <1>1 DEF Mapped, GoWith, stateVars, ownVars, contextVars, uploadVars, bodyVars,
       Mapping, Closing, RoundTripping, Reading
<1>2. ASSUME at[g] \in Mapping, NEW p \in Mapping, Go(g, p), UNCHANGED stateVars
      PROVE  Typed'
  BY <1>2 DEF Go, stateVars, ownVars, contextVars, uploadVars, bodyVars, Mapping, Closing
<1>3. CASE MapRequest(g)
  BY <1>1, <1>2, <1>3, ErrorsKnown DEF MapRequest, Mapping, Causes
<1>4. CASE MapLifetime(g)
  BY <1>1, <1>2, <1>4, ErrorsKnown DEF MapLifetime, Mapping, Causes
<1>5. CASE MapOperation(g)
  <2>1. req[g] \in Requests
    BY <1>5 DEF MapOperation, Mapping, Closing
  <2>2. OpEnded(req[g]) => op[req[g]] \in Causes
    BY <2>1 DEF OpEnded
  <2> QED BY <1>1, <1>5, <2>2, ErrorsKnown DEF MapOperation, Mapping
<1> QED BY <1>3, <1>4, <1>5 DEF MappingStep

LEMMA TypedRoundTrip ==
  ASSUME Typed, NEW g \in Users, RoundTripStep(g)
  PROVE  Typed'
<1> USE DEF Typed, TypeOK, HoldsOK, BodyClosersOK, InBodyClose, Mapping, Closing,
            stateVars, ownVars, contextVars, uploadVars, bodyVars
<1>1. CASE State(g)
  <2>1. {"ErrTransportClosed", "native"} \subseteq Errors
    BY DEF Errors, Causes
  <2> QED BY <1>1, <2>1 DEF State, GoWith, Go, RoundTripping
<1>2. CASE MakeContext(g)
  BY <1>2, ErrorsKnown DEF MakeContext, Map, Causes, Symptoms, Registrations
<1>3. CASE WatchUpload(g)
  BY <1>3 DEF WatchUpload, Go, RoundTripping, Registrations
<1>4. CASE Uploaded(g)
  BY <1>4 DEF Uploaded, GoWith, RoundTripping, Errors
<1>5. CASE Unwatch(g)
  BY <1>5 DEF Unwatch, Stopped, Go, RoundTripping, Registrations
<1>6. CASE Shut(g)
  BY <1>6 DEF Shut, BeginShut, goVars
<1>7. CASE UploadShut(g)
  BY <1>7 DEF UploadShut, Map
<1>8. CASE Do(g)
  BY <1>8, ErrorsKnown DEF Do, Map, Go, GoWith, RoundTripping, Errors
<1>9. CASE DoResponse(g)
  <2>1. /\ at[g] = "doing"
        /\ UNCHANGED <<ownVars, contextVars, uploadVars, shut, readMu, terminal,
                       delivered, finished, innerShut>>
    BY <1>9 DEF DoResponse
  <2>2. CASE Return(g) /\ answer' = [answer EXCEPT ![req[g]] = "response"] /\ UNCHANGED native
    <3>1. /\ answer' \in [Requests -> Errors \union {"none", "awaited", "response"}]
          /\ native' = native
      BY <2>2
    <3>2. TypeOK'
      BY <2>1, <2>2, <3>1 DEF Return
    <3>3. BodyClosersOK' /\ \A h \in Users : HoldsOK(h)'
      BY <2>1, <2>2 DEF Return
    <3> QED BY <3>2, <3>3
  <2>3. CASE /\ native' = [native EXCEPT ![req[g]] = "freed"]
             /\ GoWith(g, "fail", "invalid") /\ UNCHANGED answer
    <3>1. native' \in [Requests -> {"none", "open", "freed"}] /\ answer' = answer
      BY <2>3
    <3>2. TypeOK'
      BY <2>1, <2>3, <3>1 DEF GoWith, RoundTripping, Errors
    <3>3. BodyClosersOK' /\ \A h \in Users : HoldsOK(h)'
      BY <2>1, <2>3 DEF GoWith
    <3> QED BY <3>2, <3>3
  <2> QED BY <1>9, <2>2, <2>3 DEF DoResponse
<1>10. CASE DoFails(g)
  BY <1>10, ErrorsKnown DEF DoFails, Map, Errors
<1>11. CASE Fail(g)
  BY <1>11 DEF Fail, Finish, EndOp, Stopped, Go, RoundTripping, Registrations, Causes
<1>12. CASE Failed(g)
  BY <1>12 DEF Failed, Return, RoundTripping
<1> QED BY <1>1, <1>2, <1>3, <1>4, <1>5, <1>6, <1>7, <1>8, <1>9, <1>10, <1>11, <1>12
      DEF RoundTripStep

LEMMA TypedRead ==
  ASSUME Typed, NEW g \in Users, ReadStep(g)
  PROVE  Typed'
<1> USE DEF Typed, TypeOK, HoldsOK, BodyClosersOK, InBodyClose, Mapping, Closing, Reading,
            stateVars, ownVars, contextVars, uploadVars, bodyVars
<1>1. CASE ReadCheck(g)
  BY <1>1 DEF ReadCheck, Go, Unlocked, Return
<1>2. CASE ReadData(g)
  <2>1. delivered'[req[g]] \in 0 .. BodyLen
    BY <1>2, TransportAssumption DEF ReadData
  <2>2. delivered' \in [Requests -> 0 .. BodyLen]
    BY <1>2, <2>1 DEF ReadData
  <2> QED BY <1>2, <2>2 DEF ReadData, Unlocked, Return
<1>3. CASE ReadFails(g)
  <2>1. {"error", "eof"} \subseteq Errors
    BY DEF Errors
  <2> QED BY <1>3, <2>1, ErrorsKnown DEF ReadFails, GoWith
<1>4. CASE ReadFailed(g)
  <2>1. "ErrBodyClosed" \in Errors
    BY DEF Errors
  <2> QED BY <1>4, <2>1, ErrorsKnown DEF ReadFailed, GoWith, Map
<1>5. CASE ReadEnd(g)
  BY <1>5 DEF ReadEnd, Finish, EndOp, Stopped, Unlocked, Return, Registrations, Causes
<1> QED BY <1>1, <1>2, <1>3, <1>4, <1>5 DEF ReadStep

LEMMA TypedClose ==
  ASSUME Typed, NEW g \in Users, CloseStep(g)
  PROVE  Typed'
<1> USE DEF Typed, TypeOK, HoldsOK, BodyClosersOK, InBodyClose, Mapping, Closing,
            ownVars, contextVars, uploadVars, bodyVars
<1>1. CASE CloseInner(g)
  BY <1>1 DEF CloseInner, Go
<1>2. CASE CloseFinish(g)
  BY <1>2 DEF CloseFinish, Finish, EndOp, Stopped, Return, Registrations, Causes
<1>3. CASE CloseSteps(g)
  BY <1>3 DEF CloseSteps, Ended, ClientGone, Go, Return
<1> QED BY <1>1, <1>2, <1>3 DEF CloseStep

LEMMA TypedContext ==
  ASSUME Typed, NEW r \in Requests, ContextStep(r)
  PROVE  Typed'
<1> USE DEF Typed, TypeOK, HoldsOK, BodyClosersOK, InBodyClose,
            ownVars, contextVars, uploadVars, bodyVars, goVars
<1>1. CASE EndRequest(r) \/ TimeOut(r) \/ Propagate(r)
  BY <1>1 DEF EndRequest, TimeOut, Propagate, EndOp, Causes
<1>2. CASE EndLifetime(r)
  BY <1>2 DEF EndLifetime, EndOp, Causes, Registrations
<1>3. CASE FreeNative(r)
  BY <1>3 DEF FreeNative
<1>4. CASE FireUpload(r) \/ FiredShut(r)
  BY <1>4 DEF FireUpload, FiredShut, BeginShut, Registrations
<1> QED BY <1>1, <1>2, <1>3, <1>4 DEF ContextStep

LEMMA TypedGo ==
  ASSUME Typed, NEW g \in Users, GoStep(g)
  PROVE  Typed'
BY TypedCall, TypedRoundTrip, TypedMapping, TypedRead, TypedClose DEF GoStep

LEMMA TypedNext ==
  ASSUME Typed, [Next]_vars
  PROVE  Typed'
<1>1. ASSUME NEW g \in Users, GoStep(g) PROVE Typed'
  BY <1>1, TypedGo
<1>2. ASSUME NEW r \in Requests, ContextStep(r) PROVE Typed'
  BY <1>2, TypedContext
<1> USE DEF Typed, TypeOK, HoldsOK, BodyClosersOK, InBodyClose,
            ownVars, contextVars, uploadVars, bodyVars, goVars
<1>3. CASE Drop
  BY <1>3 DEF Drop
<1>4. CASE Collect
  BY <1>4 DEF Collect, ClientGone
<1>5. CASE UNCHANGED vars
  BY <1>5 DEF vars, stateVars
<1> QED BY <1>1, <1>2, <1>3, <1>4, <1>5, Steps

(* Values stay in their types, for any goroutines, requests and bodies.    *)
THEOREM TypeCorrect == Spec => []TypeOK
<1>1. Typed => TypeOK
  BY DEF Typed
<1> QED BY <1>1, TypedInit, TypedNext, PTL DEF Spec

-----------------------------------------------------------------------------
(* What a step may do to a request, whoever else is at work on it. *)

Moves(S, r, P) == \E g \in S : at[g] \in P /\ req[g] = r

(* A step of the goroutines S, of which there is one or none. *)
ContextForward(S, r) ==
  /\ r \in ended => r \in ended'
  /\ op[r] # "unset" => op'[r] # "unset"
  /\ op'[r] # op[r] => op[r] = "live" \/ Moves(S, r, {"context"})
  /\ reg'[r] = "armed" => reg[r] = "armed" \/ Moves(S, r, {"context"})
  /\ r \in finished => r \in finished'
  /\ r \in finished' => r \in finished \/ Moves(S, r, {"fail", "rdEnd", "bcFinish"})

UploadForward(S, r) ==
  /\ answer'[r] # answer[r] =>
       (answer[r] = "none" /\ answer'[r] = "awaited") \/ Moves(S, r, {"doing", "failShut"})
  /\ upload'[r] # upload[r] =>
       \/ answer[r] = "none"
       \/ watch[r] = "armed"
       \/ upload[r] = "closing"
       \/ Moves(S, r, {"shut", "failShut"})

BodyForward(S, r) ==
  /\ r \in shut => r \in shut'
  /\ r \in shut' => r \in shut \/ Opened(r)
  /\ native'[r] = "open" => native[r] = "open" \/ Moves(S, r, {"do"})
  /\ readMu'[r] # readMu[r] => readMu[r] = NoUser \/ Moves(S, r, Reading)
  /\ terminal'[r] # terminal[r] => Moves(S, r, {"rdEnd"})
  /\ delivered'[r] # delivered[r] => Moves(S, r, {"rdInner"})

Forward(S, r) ==
  /\ ContextForward(S, r) /\ UploadForward(S, r) /\ BodyForward(S, r)
  /\ closed => closed'
  /\ lifetime = "done" => lifetime' = "done"

LEMMA ForwardCall ==
  ASSUME Typed, NEW g \in Users, Call(g), NEW r \in Requests
  PROVE  Forward({g}, r)
<1> USE DEF Forward, ContextForward, UploadForward, BodyForward, Moves,
            ownVars, contextVars, uploadVars, bodyVars, Typed, TypeOK
<1>1. ASSUME NEW s \in Requests, RoundTrip(g, s) PROVE Forward({g}, r)
  BY <1>1 DEF RoundTrip
<1>2. ASSUME NEW s \in Requests, ReadLock(g, s) PROVE Forward({g}, r)
  BY <1>2 DEF ReadLock
<1>3. ASSUME NEW s \in Requests, CloseBody(g, s) PROVE Forward({g}, r)
  BY <1>3 DEF CloseBody
<1>4. ASSUME Close(g) PROVE Forward({g}, r)
  BY <1>4 DEF Close
<1> QED BY <1>1, <1>2, <1>3, <1>4 DEF Call

LEMMA ForwardRoundTrip ==
  ASSUME Typed, OwnOK, NEW g \in Users, RoundTripStep(g), NEW r \in Requests
  PROVE  Forward({g}, r)
<1> USE DEF Forward, ContextForward, UploadForward, BodyForward, Moves,
            stateVars, ownVars, contextVars, uploadVars, bodyVars, Typed, TypeOK
<1>1. CASE State(g)
  BY <1>1 DEF State, OwnOK
<1>2. CASE MakeContext(g)
  BY <1>2 DEF MakeContext
<1>3. CASE WatchUpload(g) \/ Uploaded(g) \/ Unwatch(g) \/ UploadShut(g)
  BY <1>3 DEF WatchUpload, Uploaded, Unwatch, UploadShut
<1>4. CASE Shut(g)
  BY <1>4 DEF Shut, BeginShut, goVars
<1>5. CASE Do(g)
  BY <1>5 DEF Do
<1>6. CASE DoResponse(g)
  BY <1>6 DEF DoResponse
<1>7. CASE DoFails(g)
  BY <1>7 DEF DoFails
<1>8. CASE Fail(g)
  BY <1>8 DEF Fail, Finish, EndOp, Stopped
<1>9. CASE Failed(g)
  BY <1>9 DEF Failed
<1> QED BY <1>1, <1>2, <1>3, <1>4, <1>5, <1>6, <1>7, <1>8, <1>9 DEF RoundTripStep

LEMMA ForwardRead ==
  ASSUME Typed, NEW g \in Users, ReadStep(g), NEW r \in Requests
  PROVE  Forward({g}, r)
<1> USE DEF Forward, ContextForward, UploadForward, BodyForward, Moves, Reading,
            stateVars, ownVars, contextVars, uploadVars, bodyVars, Typed, TypeOK
<1>1. CASE ReadCheck(g)
  BY <1>1 DEF ReadCheck, Unlocked
<1>2. CASE ReadData(g)
  BY <1>2 DEF ReadData, Unlocked
<1>3. CASE ReadFails(g) \/ ReadFailed(g)
  BY <1>3 DEF ReadFails, ReadFailed
<1>4. CASE ReadEnd(g)
  BY <1>4 DEF ReadEnd, Finish, EndOp, Stopped, Unlocked
<1> QED BY <1>1, <1>2, <1>3, <1>4 DEF ReadStep

LEMMA ForwardClose ==
  ASSUME Typed, NEW g \in Users, CloseStep(g), NEW r \in Requests
  PROVE  Forward({g}, r)
<1> USE DEF Forward, ContextForward, UploadForward, BodyForward, Moves,
            ownVars, contextVars, uploadVars, bodyVars, Typed, TypeOK
<1>1. CASE CloseInner(g)
  BY <1>1 DEF CloseInner
<1>2. CASE CloseFinish(g)
  BY <1>2 DEF CloseFinish, Finish, EndOp, Stopped
<1>3. CASE CloseSteps(g)
  BY <1>3 DEF CloseSteps, Ended, ClientGone
<1> QED BY <1>1, <1>2, <1>3 DEF CloseStep

LEMMA ForwardGo ==
  ASSUME Typed, OwnOK, NEW g \in Users, GoStep(g), NEW r \in Requests
  PROVE  Forward({g}, r)
<1>1. CASE MappingStep(g)
  BY <1>1 DEF MappingStep, MapRequest, MapLifetime, MapOperation, Forward, ContextForward,
       UploadForward, BodyForward, stateVars, ownVars, contextVars, uploadVars, bodyVars
<1> QED BY <1>1, ForwardCall, ForwardRoundTrip, ForwardRead, ForwardClose DEF GoStep

LEMMA ForwardContext ==
  ASSUME Typed, NEW s \in Requests, ContextStep(s), NEW r \in Requests
  PROVE  Forward({}, r)
<1> USE DEF Forward, ContextForward, UploadForward, BodyForward, Moves,
            ownVars, contextVars, uploadVars, bodyVars, Typed, TypeOK
<1>1. CASE EndRequest(s) \/ TimeOut(s) \/ Propagate(s)
  BY <1>1 DEF EndRequest, TimeOut, Propagate, EndOp
<1>2. CASE EndLifetime(s)
  BY <1>2 DEF EndLifetime, EndOp
<1>3. CASE FreeNative(s)
  BY <1>3 DEF FreeNative
<1>4. CASE FireUpload(s) \/ FiredShut(s)
  BY <1>4 DEF FireUpload, FiredShut, BeginShut
<1> QED BY <1>1, <1>2, <1>3, <1>4 DEF ContextStep

(* A goroutine's step moves no other goroutine. *)
LEMMA OthersStay ==
  ASSUME Typed, NEW g \in Users, GoStep(g), NEW h \in Users, h # g
  PROVE  Stays(h)
<1> USE DEF Typed, TypeOK, Stays
<1>1. ASSUME \/ \E p : Go(g, p)
             \/ \E p, e : GoWith(g, p, e)
             \/ \E r, p : Begin(g, r, p)
             \/ Return(g)
             \/ \E c, e : Map(g, c, e)
             \/ UNCHANGED goVars
      PROVE  Stays(h)
  BY <1>1 DEF Go, GoWith, Begin, Return, Map, goVars
<1>2. CASE Call(g)
  <2>1. ASSUME NEW r \in Requests, RoundTrip(g, r) PROVE Stays(h)
    BY <2>1 DEF RoundTrip
  <2>2. ASSUME NEW r \in Requests, ReadLock(g, r) \/ CloseBody(g, r) PROVE Stays(h)
    BY <2>2, <1>1 DEF ReadLock, CloseBody
  <2> QED BY <1>1, <1>2, <2>1, <2>2 DEF Call, Close
<1>3. CASE RoundTripStep(g)
  BY <1>1, <1>3 DEF RoundTripStep, State, MakeContext, WatchUpload, Uploaded, Unwatch, Shut,
       UploadShut, Do, DoResponse, DoFails, Fail, Failed
<1>4. CASE MappingStep(g)
  BY <1>1, <1>4 DEF MappingStep, MapRequest, MapLifetime, MapOperation, Mapped
<1>5. CASE ReadStep(g)
  BY <1>1, <1>5 DEF ReadStep, ReadCheck, ReadData, ReadFails, ReadFailed, ReadEnd
<1>6. CASE CloseStep(g)
  BY <1>1, <1>6 DEF CloseStep, CloseInner, CloseFinish, CloseSteps
<1> QED BY <1>2, <1>3, <1>4, <1>5, <1>6 DEF GoStep

-----------------------------------------------------------------------------
(* What a goroutine relies on, while others move. *)

LEMMA InvParts ==
  ASSUME Inv
  PROVE  /\ Typed /\ OwnOK
         /\ \A g \in Users : /\ HoldsOK(g) /\ AloneOK(g) /\ ContextOK(g)
                             /\ UploadOK(g) /\ ReadOK(g) /\ BlameOK(g)
         /\ \A r \in Requests : OperationOK(r) /\ ClosesOK(r) /\ BodyOK(r)
BY DEF Inv, Typed

(* Nobody else is at work on the request of a RoundTrip, and only Closes   *)
(* are at work on the request of a Read.                                   *)
LEMMA Undisturbed ==
  ASSUME Inv, NEW h \in Users, NEW g \in Users, g # h, req[g] = req[h]
  PROVE  /\ InRoundTrip(h) => at[g] \in Closing \union {"idle"}
         /\ InRead(h) => at[g] \in Closing \union {"idle", "bcInner", "bcFinish"}
<1>1. /\ AloneOK(g) /\ AloneOK(h) /\ ReadOK(g) /\ ReadOK(h) /\ HoldsOK(g) /\ HoldsOK(h)
      /\ TypeOK
      /\ InBodyClose(g) => req[g] \in shut
  BY InvParts DEF Inv, BodyClosersOK
<1>2. req[g] \in Requests => BodyOK(req[g])
  BY InvParts
<1>3. InRoundTrip(g) \/ InRead(g) \/ InBodyClose(g) \/ at[g] \in Closing \union {"idle"}
  <2>1. at[g] \in RoundTripping \union Mapping \union Reading \union Closing
                   \union {"idle", "bcInner", "bcFinish"}
    BY <1>1 DEF TypeOK
  <2> QED BY <2>1 DEF InRoundTrip, InRead, InBodyClose
<1>4. ~(InRoundTrip(g) /\ InRoundTrip(h)) /\ ~(InRead(g) /\ InRead(h))
  BY <1>1 DEF AloneOK, ReadOK
<1>5. InRead(g) \/ InBodyClose(g) => Opened(req[g])
  <2>1. InBodyClose(g) => req[g] \in Requests
    BY <1>1 DEF TypeOK
  <2> QED BY <1>1, <1>2, <2>1 DEF ReadOK, BodyOK
<1>6. InRoundTrip(h) => answer[req[g]] = "awaited"
  BY <1>1 DEF AloneOK
<1>7. InRead(h) => Opened(req[g])
  BY <1>1 DEF ReadOK
<1>8. InRoundTrip(g) => answer[req[g]] = "awaited"
  BY <1>1 DEF AloneOK
<1> QED BY <1>3, <1>4, <1>5, <1>6, <1>7, <1>8 DEF Opened, InBodyClose

(* What the callers of a step's goroutines leave to one that stays. *)
LEMMA OthersForward ==
  ASSUME Inv, NEW S \in SUBSET Users, NEW h \in Users, h \notin S, req[h] \in Requests,
         Forward(S, req[h])
  PROVE  LET r == req[h] IN
         /\ InRoundTrip(h) \/ InRead(h) =>
              /\ answer[r] # "none" => answer'[r] = answer[r]
              /\ op'[r] # op[r] => op[r] = "live"
              /\ reg'[r] = "armed" => reg[r] = "armed"
              /\ native'[r] = "open" => native[r] = "open"
              /\ terminal'[r] = terminal[r] /\ delivered'[r] = delivered[r]
         /\ InRoundTrip(h) /\ r \in finished' => r \in finished
         /\ InRead(h) => readMu'[r] = readMu[r] \/ readMu[r] = NoUser
         /\ InRoundTrip(h) /\ upload'[r] # upload[r] =>
                answer[r] = "none" \/ watch[r] = "armed" \/ upload[r] = "closing"
<1> DEFINE r == req[h]
<1>1. ASSUME NEW g \in S, req[g] = r
      PROVE  /\ InRoundTrip(h) => at[g] \in {"idle", "tcCancel", "tcClient"}
             /\ InRead(h) => at[g] \in {"idle", "tcCancel", "tcClient", "bcInner", "bcFinish"}
  BY <1>1, Undisturbed DEF Closing
<1>2. InRoundTrip(h) =>
        /\ ~Moves(S, r, {"context"}) /\ ~Moves(S, r, {"fail", "rdEnd", "bcFinish"})
        /\ ~Moves(S, r, {"doing", "failShut"}) /\ ~Moves(S, r, {"shut", "failShut"})
        /\ ~Moves(S, r, {"do"}) /\ ~Moves(S, r, {"rdEnd"}) /\ ~Moves(S, r, {"rdInner"})
  BY <1>1 DEF Moves
<1>3. InRead(h) =>
        /\ ~Moves(S, r, {"context"}) /\ ~Moves(S, r, Reading)
        /\ ~Moves(S, r, {"doing", "failShut"})
        /\ ~Moves(S, r, {"do"}) /\ ~Moves(S, r, {"rdEnd"}) /\ ~Moves(S, r, {"rdInner"})
  BY <1>1 DEF Moves, Reading
<1> QED BY <1>2, <1>3 DEF Forward, ContextForward, UploadForward, BodyForward

(* A goroutine that stays keeps what it relies on. *)
LEMMA OthersKeep ==
  ASSUME Inv, NEW S \in SUBSET Users, NEW h \in Users, h \notin S, Stays(h),
         \A r \in Requests : Forward(S, r)
  PROVE  ContextOK(h)' /\ UploadOK(h)' /\ ReadOK(h)' /\ BlameOK(h)'
<1> DEFINE r == req[h]
<1>1. /\ at'[h] = at[h] /\ req'[h] = r /\ then'[h] = then[h] /\ err'[h] = err[h]
      /\ InRoundTrip(h)' <=> InRoundTrip(h)
      /\ InRead(h)' <=> InRead(h)
  BY DEF Stays, InRoundTrip, InRead
<1>2. /\ ContextOK(h) /\ UploadOK(h) /\ ReadOK(h) /\ BlameOK(h) /\ AloneOK(h) /\ HoldsOK(h)
  BY InvParts
<1>3. at[h] \notin Closing \union {"idle"} => r \in Requests
  BY <1>2 DEF HoldsOK
<1>4. InRoundTrip(h) \/ InRead(h) => r \in Requests
  BY <1>3 DEF InRoundTrip, InRead, RoundTripping, Reading, Mapping, Closing
<1>5. ContextOK(h)'
  <2> SUFFICES ASSUME InRoundTrip(h) PROVE ContextOK(h)'
    BY <1>1 DEF ContextOK
  <2>1. answer[r] = "awaited"
    BY <1>2 DEF AloneOK
  <2> QED BY <1>1, <1>2, <1>4, <2>1, OthersForward DEF ContextOK, Forward, ContextForward
<1>6. UploadOK(h)'
  <2> SUFFICES ASSUME InRoundTrip(h) PROVE UploadOK(h)'
    BY <1>1 DEF UploadOK
  <2>1. answer[r] = "awaited" /\ \A g \in Users : InRoundTrip(g) /\ req[g] = r => g = h
    BY <1>2 DEF AloneOK
  <2>2. watch[r] = "armed" => at[h] \in {"uploading", "unwatch"}
    <3>1. ClosesOK(r)
      BY <1>4, InvParts
    <3> QED BY <2>1, <3>1 DEF ClosesOK, InRoundTrip, RoundTripping
  <2>3. upload'[r] # upload[r] => at[h] \in {"uploading", "unwatch"} \/ upload[r] = "closing"
    BY <1>4, <2>1, <2>2, OthersForward
  <2> QED BY <1>1, <1>2, <2>3 DEF UploadOK, IsShut, Mapping
<1>7. ReadOK(h)'
  <2> SUFFICES ASSUME InRead(h) PROVE ReadOK(h)'
    BY <1>1 DEF ReadOK
  <2>1. h # NoUser
    BY TransportAssumption
  <2> QED BY <1>1, <1>2, <1>4, <2>1, OthersForward DEF ReadOK, Opened
<1>8. BlameOK(h)'
  <2>1. at[h] \in Mapping \union {"rdFailed", "fail", "failShut", "rdEnd"} =>
          r \in Requests /\ Forward(S, r)
    BY <1>3 DEF Mapping, Closing
  <2>2. at[h] \in Mapping \union {"rdFailed", "fail", "failShut", "rdEnd"} =>
          InRoundTrip(h) \/ InRead(h)
    BY DEF InRoundTrip, InRead, Reading, RoundTripping
  <2>3. at[h] \in Mapping \union {"rdFailed", "fail", "failShut", "rdEnd"} =>
          /\ OpEnded(r) => op'[r] = op[r]
          /\ r \in ended => r \in ended'
          /\ r \in shut => r \in shut'
          /\ closed => closed'
          /\ lifetime = "done" => lifetime' = "done"
    BY <2>1, <2>2, OthersForward DEF OpEnded, Forward, ContextForward, BodyForward
  <2>4. CASE at[h] \in Mapping \union {"rdFailed"}
    <3>1. at[h] \notin {"unwatch", "shut", "fail", "failShut", "rdEnd"}
      BY <2>4 DEF Mapping
    <3> QED BY <1>1, <1>2, <2>3, <2>4, <3>1 DEF BlameOK, OpEnded
  <2>5. CASE at[h] \in {"fail", "failShut", "rdEnd"}
    <3>1. Honest(err[h], r) /\ at[h] \notin Mapping \union {"rdFailed", "unwatch", "shut"}
      BY <1>2, <2>5 DEF BlameOK, Mapping
    <3>2. err[h] \in {"deadline", "legacy"} => OpEnded(r)
      BY <3>1 DEF Honest, OpEnded
    <3>3. Honest(err[h], r)'
      BY <1>1, <2>3, <2>5, <3>1, <3>2 DEF Honest
    <3> QED BY <1>1, <3>1, <3>3 DEF BlameOK
  <2>6. CASE at[h] \notin Mapping \union {"rdFailed", "fail", "failShut", "rdEnd"}
    BY <1>1, <1>2, <2>6 DEF BlameOK
  <2> QED BY <2>4, <2>5, <2>6
<1> QED BY <1>5, <1>6, <1>7, <1>8

-----------------------------------------------------------------------------
(* What a goroutine makes true of itself. *)

RoundTripMoves(g) ==
  InRoundTrip(g)' =>
    /\ answer'[req'[g]] = "awaited"
    /\ (InRoundTrip(g) /\ req'[g] = req[g]) \/ (held /\ answer[req'[g]] = "none")

Keeps(g) ==
  RoundTripMoves(g) /\ ContextOK(g)' /\ UploadOK(g)' /\ ReadOK(g)' /\ BlameOK(g)'

(* A goroutine with nothing in its hands. *)
LEMMA IdleKeeps ==
  ASSUME NEW g, at'[g] \in {"idle", "bcInner", "bcFinish", "tcCancel", "tcClient"}
  PROVE  Keeps(g)
BY DEF Keeps, RoundTripMoves, ContextOK, UploadOK, ReadOK, BlameOK, InRoundTrip, InRead,
       RoundTripping, Reading, Mapping

LEMMA CallKeeps ==
  ASSUME Inv, NEW g \in Users, Call(g)
  PROVE  Keeps(g)
<1> USE DEF Typed, TypeOK
<1>0. Typed
  BY InvParts
<1>1. ASSUME NEW r \in Requests, RoundTrip(g, r) PROVE Keeps(g)
  <2>1. /\ answer[r] = "none" /\ answer'[r] = "awaited" /\ req'[g] = r /\ held
        /\ \/ at'[g] = "state"
           \/ at'[g] = "failShut" /\ err'[g] = "invalid"
        /\ op'[r] = "unset" /\ upload'[r] \in {"none", "open"}
        /\ native'[r] = "none" /\ r \notin finished' /\ reg'[r] = "unset"
    <3>1. OperationOK(r)
      BY InvParts
    <3>2. op[r] = "unset" /\ native[r] = "none" /\ r \notin finished /\ reg[r] = "unset"
      BY <1>1, <3>1 DEF RoundTrip, OperationOK, OpEnded
    <3> QED BY <1>0, <1>1, <3>2 DEF RoundTrip, contextVars
  <2>2. InRoundTrip(g)' /\ ~InRead(g)' /\ at'[g] \notin Mapping
    BY <2>1 DEF InRoundTrip, InRead, RoundTripping, Reading, Mapping
  <2>3. RoundTripMoves(g) /\ ContextOK(g)' /\ UploadOK(g)' /\ ReadOK(g)'
    BY <2>1, <2>2 DEF RoundTripMoves, ContextOK, UploadOK, ReadOK
  <2>4. BlameOK(g)'
    BY <2>1, <2>2 DEF BlameOK, Honest, Symptoms
  <2> QED BY <2>3, <2>4 DEF Keeps
<1>2. ASSUME NEW r \in Requests, ReadLock(g, r) PROVE Keeps(g)
  <2>1. /\ at'[g] = "rdCheck" /\ req'[g] = r
        /\ answer'[r] = "response" /\ readMu'[r] = g
    BY <1>0, <1>2 DEF ReadLock, Begin, Opened
  <2>2. ~InRoundTrip(g)' /\ at'[g] \notin Mapping
    BY <2>1 DEF InRoundTrip, RoundTripping, Mapping
  <2> QED BY <2>1, <2>2 DEF Keeps, RoundTripMoves, ContextOK, UploadOK, ReadOK, BlameOK, Opened
<1>3. ASSUME NEW r \in Requests, CloseBody(g, r) PROVE Keeps(g)
  BY <1>0, <1>3, IdleKeeps DEF CloseBody, Begin
<1>4. ASSUME Close(g) PROVE Keeps(g)
  BY <1>0, <1>4, IdleKeeps DEF Close, Begin
<1> QED BY <1>1, <1>2, <1>3, <1>4 DEF Call

(* What a RoundTrip knows where it stands. *)
LEMMA RoundTripKnows ==
  ASSUME Inv, NEW g \in Users, InRoundTrip(g)
  PROVE  /\ TypeOK /\ OwnOK /\ req[g] \in Requests
         /\ answer[req[g]] = "awaited"
         /\ HoldsOK(g) /\ ContextOK(g) /\ UploadOK(g) /\ BlameOK(g)
         /\ OperationOK(req[g]) /\ ClosesOK(req[g])
         /\ ~InRead(g)
         /\ req[g] \notin finished \/ at[g] = "failShut"
<1>1. HoldsOK(g) /\ AloneOK(g) /\ ContextOK(g) /\ UploadOK(g) /\ BlameOK(g) /\ TypeOK /\ OwnOK
  BY InvParts DEF Typed
<1>2. req[g] \in Requests
  BY <1>1 DEF HoldsOK, InRoundTrip, RoundTripping, Mapping, Closing
<1>3. ~InRead(g)
  BY DEF InRoundTrip, InRead, RoundTripping, Reading, Mapping
<1> QED BY <1>1, <1>2, <1>3, InvParts DEF AloneOK, ContextOK

(* The Client blames what has really happened. *)
LEMMA BlamedExplained ==
  ASSUME Inv, NEW g \in Users, InRoundTrip(g) \/ InRead(g), req[g] \in Requests,
         NEW e \in {"error", "eof"}
  PROVE  LET r == req[g] IN
         /\ Blamed(r, e) \in Symptoms \union {e, "ErrBodyClosed"}
         /\ Blamed(r, e) = "ErrBodyClosed" => r \in shut
         /\ Blamed(r, e) = "ctx" => OpEnded(r)
         /\ Blamed(r, e) = "ErrClientClosed" => OpEnded(r) \/ lifetime = "done"
         /\ Blamed(r, e) = e => ~OpEnded(r) /\ client # "closed"
<1> DEFINE r == req[g]
<1>1. TypeOK /\ OwnOK /\ OperationOK(r) /\ ReadOK(g)
  BY InvParts DEF Typed
<1>2. innerShut \subseteq shut
  BY <1>1 DEF TypeOK
<1>3. client = "closed" => OpEnded(r) \/ lifetime = "done"
  BY <1>1 DEF OwnOK, Collected, ReadOK, OperationOK
<1> QED BY <1>2, <1>3 DEF Blamed, Symptoms

(* mapError is asked about a failure of Client.Do. *)
LEMMA FailureMapped ==
  ASSUME Inv, NEW g \in Users, at[g] \in {"do", "doing"}, Map(g, "doing", Blamed(req[g], "error")),
         native'[req[g]] # "open", UNCHANGED <<ownVars, contextVars, uploadVars, answer, bodyVars, finished>>
  PROVE  Keeps(g)
<1> DEFINE r == req[g]
           b == Blamed(r, "error")
<1>1. InRoundTrip(g)
  BY DEF InRoundTrip, RoundTripping
<1>2. /\ TypeOK /\ r \in Requests /\ answer[r] = "awaited" /\ ContextOK(g) /\ UploadOK(g)
      /\ r \notin finished
  BY <1>1, RoundTripKnows
<1>3. at'[g] = "mapRequest" /\ then'[g] = "doing" /\ req'[g] = r /\ err'[g] = b
  BY <1>2 DEF Map, TypeOK
<1>4. InRoundTrip(g)' /\ ~InRead(g)'
  BY <1>3 DEF InRoundTrip, InRead, Mapping, Reading
<1>5. UNCHANGED <<answer, op, reg, finished, upload, shut, lifetime>>
  BY DEF ownVars, contextVars, uploadVars, bodyVars
<1>6. ContextOK(g)'
  BY <1>1, <1>2, <1>3, <1>5 DEF ContextOK
<1>7. UploadOK(g)'
  BY <1>1, <1>2, <1>3, <1>5 DEF UploadOK, IsShut
<1>8. BlameOK(g)'
  <2>1. /\ b \notin Causes
        /\ b = "ErrBodyClosed" => r \in shut
        /\ b = "ctx" => OpEnded(r)
        /\ b = "ErrClientClosed" => OpEnded(r) \/ lifetime = "done"
    BY <1>1, <1>2, BlamedExplained DEF Causes, Symptoms
  <2> QED BY <1>3, <1>5, <2>1 DEF BlameOK, OpEnded
<1> QED BY <1>1, <1>2, <1>3, <1>4, <1>5, <1>6, <1>7, <1>8 DEF Keeps, RoundTripMoves, ReadOK

LEMMA RoundTripKeeps ==
  ASSUME Inv, NEW g \in Users, RoundTripStep(g)
  PROVE  Keeps(g)
<1> DEFINE r == req[g]
<1>0. InRoundTrip(g) /\ at[g] \notin Mapping
  BY DEF RoundTripStep, InRoundTrip, RoundTripping, Mapping, State, MakeContext, WatchUpload,
         Uploaded, Unwatch, Shut, UploadShut, Do, DoResponse, DoFails, Fail, Failed
<1> USE DEF TypeOK, stateVars, ownVars, contextVars, uploadVars, bodyVars,
            Keeps, RoundTripMoves, InRoundTrip, InRead, RoundTripping, Reading, Mapping
<1>1. CASE State(g)
  BY <1>0, <1>1, RoundTripKnows
     DEF State, Go, GoWith, ContextOK, UploadOK, ReadOK, BlameOK, Honest, Symptoms, OperationOK
<1>2. CASE MakeContext(g)
  BY <1>0, <1>2, RoundTripKnows
     DEF MakeContext, Map, ContextOK, UploadOK, ReadOK, BlameOK, OpEnded, Causes, OperationOK
<1>3. CASE WatchUpload(g)
  BY <1>0, <1>3, RoundTripKnows DEF WatchUpload, Go, ContextOK, UploadOK, ReadOK, BlameOK
<1>4. CASE Uploaded(g)
  BY <1>0, <1>4, RoundTripKnows DEF Uploaded, GoWith, ContextOK, UploadOK, ReadOK, BlameOK
<1>5. CASE Unwatch(g)
  BY <1>0, <1>5, RoundTripKnows DEF Unwatch, Go, ContextOK, UploadOK, ReadOK, BlameOK
<1>6. CASE Shut(g)
  BY <1>0, <1>6, RoundTripKnows
     DEF Shut, BeginShut, goVars, ContextOK, UploadOK, ReadOK, BlameOK, Honest
<1>7. CASE UploadShut(g)
  BY <1>0, <1>7, RoundTripKnows
     DEF UploadShut, Map, ContextOK, UploadOK, ReadOK, BlameOK, IsShut, Causes
<1>8. CASE Do(g)
  <2>1. CASE GoWith(g, "fail", "invalid") /\ UNCHANGED native
    BY <1>0, <1>8, <2>1, RoundTripKnows
       DEF Do, GoWith, ContextOK, UploadOK, ReadOK, BlameOK, Honest, Symptoms
  <2>2. CASE Map(g, "doing", Blamed(r, "error")) /\ UNCHANGED native
    <3>1. native[r] # "open"
      BY <1>0, <1>8, RoundTripKnows DEF Do, ContextOK
    <3> QED BY <1>8, <2>2, <3>1, FailureMapped DEF Do
  <2>3. CASE Go(g, "doing") /\ ~OpEnded(r)
    <3>1. at'[g] = "doing" /\ req'[g] = r /\ InRoundTrip(g)' /\ ~InRead(g)'
      BY <1>0, <2>3, RoundTripKnows DEF Go
    <3>2. UNCHANGED <<answer, op, reg, finished, upload>> /\ at[g] = "do"
      BY <1>8 DEF Do
    <3>3. ContextOK(g)' /\ UploadOK(g)'
      BY <1>0, <3>1, <3>2, RoundTripKnows DEF ContextOK, UploadOK, IsShut
    <3>4. ReadOK(g)' /\ BlameOK(g)'
      BY <3>1 DEF ReadOK, BlameOK
    <3>5. RoundTripMoves(g)
      BY <1>0, <3>1, <3>2, RoundTripKnows
    <3> QED BY <3>3, <3>4, <3>5
  <2> QED BY <1>8, <2>1, <2>2, <2>3 DEF Do
<1>9. CASE DoResponse(g)
  <2>1. CASE Return(g)
    BY <1>0, <1>9, <2>1, RoundTripKnows, IdleKeeps DEF DoResponse, Return
  <2>2. CASE GoWith(g, "fail", "invalid")
    BY <1>0, <1>9, <2>2, RoundTripKnows
       DEF DoResponse, GoWith, Return, ContextOK, UploadOK, ReadOK, BlameOK, Honest, Symptoms
  <2> QED BY <1>9, <2>1, <2>2 DEF DoResponse
<1>10. CASE DoFails(g)
  <2>1. native'[r] # "open"
    BY <1>0, <1>10, RoundTripKnows DEF DoFails
  <2> QED BY <1>10, <2>1, FailureMapped DEF DoFails
<1>11. CASE Fail(g)
  BY <1>0, <1>11, RoundTripKnows
     DEF Fail, Finish, EndOp, Stopped, Go, ContextOK, UploadOK, ReadOK, BlameOK, Honest
<1>12. CASE Failed(g)
  BY <1>0, <1>12, RoundTripKnows, IdleKeeps DEF Failed, Return
<1> QED BY <1>1, <1>2, <1>3, <1>4, <1>5, <1>6, <1>7, <1>8, <1>9, <1>10, <1>11, <1>12
        DEF RoundTripStep

(* mapError's answer, once it is honest, is all that its caller needs.     *)
LEMMA MappedKeeps ==
  ASSUME Inv, NEW g \in Users, at[g] \in Mapping, UNCHANGED stateVars,
         NEW e, Mapped(g, e), Honest(e, req[g]),
         InRead(g) => /\ e \in Causes \union {"error", "eof", "ErrBodyClosed"}
                      /\ e = "eof" => delivered[req[g]] = BodyLen
  PROVE  Keeps(g)
<1> DEFINE r == req[g]
<1>1. /\ TypeOK /\ HoldsOK(g) /\ AloneOK(g) /\ ContextOK(g) /\ UploadOK(g) /\ ReadOK(g)
  BY InvParts DEF Typed
<1>2. UNCHANGED <<answer, op, reg, finished, native, upload, shut, ended, closed, lifetime,
                  readMu, terminal, delivered>>
  BY DEF stateVars, ownVars, contextVars, uploadVars, bodyVars
<1>3. /\ req'[g] = r /\ then'[g] = then[g] /\ err'[g] = e
      /\ at'[g] = IF then[g] = "reading" THEN "rdEnd"
                  ELSE IF e # "nil" THEN "fail"
                  ELSE IF then[g] = "begun" /\ upload[r] # "none" THEN "upload"
                  ELSE "do"
  BY <1>1 DEF Mapped, GoWith, TypeOK
<1>4. Honest(e, r)'
  BY <1>2, <1>3 DEF Honest
<1>5. CASE then[g] = "reading"
  <2>1. InRead(g) /\ at'[g] = "rdEnd"
    BY <1>3, <1>5 DEF InRead
  <2>2. InRead(g)' /\ ~InRoundTrip(g)' /\ at'[g] \notin Mapping
    BY <2>1 DEF InRead, InRoundTrip, Reading, RoundTripping, Mapping
  <2>3. at[g] \notin {"rdCheck", "rdInner"}
    BY DEF Mapping
  <2>4. ReadOK(g)'
    BY <1>1, <1>2, <1>3, <2>1, <2>3 DEF ReadOK, Opened
  <2> QED BY <1>3, <1>4, <2>1, <2>2, <2>4
          DEF Keeps, RoundTripMoves, ContextOK, UploadOK, BlameOK
<1>6. CASE then[g] # "reading"
  <2>1. InRoundTrip(g)
    BY <1>6 DEF InRoundTrip
  <2>2. /\ at'[g] \in {"fail", "upload", "do"}
        /\ at'[g] = "upload" => then[g] = "begun" /\ upload[r] # "none"
        /\ at'[g] = "do" => then[g] # "begun" \/ upload[r] = "none"
    BY <1>3, <1>6
  <2>3. InRoundTrip(g)' /\ ~InRead(g)' /\ at'[g] \notin Mapping
    BY <2>2 DEF InRead, InRoundTrip, Reading, RoundTripping, Mapping
  <2>4. at[g] \notin {"state", "context", "failShut", "doing", "upload", "do"}
    BY DEF Mapping
  <2>5. RoundTripMoves(g)
    BY <1>1, <1>2, <1>3, <2>1 DEF RoundTripMoves, AloneOK
  <2>6. ContextOK(g)'
    BY <1>1, <1>2, <1>3, <2>1, <2>2, <2>4 DEF ContextOK
  <2>7. UploadOK(g)'
    BY <1>1, <1>2, <1>3, <2>1, <2>2, <2>3, <2>4 DEF UploadOK, IsShut
  <2>8. ReadOK(g)' /\ BlameOK(g)'
    BY <1>3, <1>4, <2>2, <2>3 DEF ReadOK, BlameOK
  <2> QED BY <2>5, <2>6, <2>7, <2>8 DEF Keeps
<1> QED BY <1>5, <1>6

(* Between two of its questions, transportError has only learnt what the   *)
(* cause is not.                                                           *)
LEMMA AskedKeeps ==
  ASSUME Inv, NEW g \in Users, at[g] \in Mapping, UNCHANGED stateVars,
         NEW p \in {"mapLifetime", "mapOperation"}, Go(g, p),
         p = "mapOperation" => lifetime # "done"
  PROVE  Keeps(g)
<1>1. /\ TypeOK /\ HoldsOK(g) /\ AloneOK(g) /\ ContextOK(g) /\ UploadOK(g) /\ ReadOK(g)
      /\ BlameOK(g)
  BY InvParts DEF Typed
<1>2. UNCHANGED <<answer, op, reg, finished, native, upload, shut, lifetime,
                  readMu, terminal, delivered>>
  BY DEF stateVars, ownVars, contextVars, uploadVars, bodyVars
<1>3. at'[g] = p /\ req'[g] = req[g] /\ then'[g] = then[g] /\ err'[g] = err[g]
  BY <1>1 DEF Go, TypeOK
<1>4. p \in Mapping /\ (InRoundTrip(g)' <=> InRoundTrip(g)) /\ (InRead(g)' <=> InRead(g))
  BY <1>3 DEF InRoundTrip, InRead, Mapping, RoundTripping, Reading
<1>5. at[g] \notin {"state", "context", "failShut", "doing", "upload", "do", "rdCheck", "rdInner"}
  BY DEF Mapping
<1>6. ContextOK(g)'
  BY <1>1, <1>2, <1>3, <1>4, <1>5 DEF ContextOK
<1>7. UploadOK(g)' /\ RoundTripMoves(g)
  BY <1>1, <1>2, <1>3, <1>4, <1>5 DEF UploadOK, IsShut, RoundTripMoves, AloneOK
<1>8. ReadOK(g)' /\ BlameOK(g)'
  BY <1>1, <1>2, <1>3, <1>4, <1>5 DEF ReadOK, BlameOK, Opened, OpEnded
<1> QED BY <1>6, <1>7, <1>8 DEF Keeps

LEMMA MappingKeeps ==
  ASSUME Inv, NEW g \in Users, MappingStep(g)
  PROVE  Keeps(g)
<1> DEFINE r == req[g]
<1>1. at[g] \in Mapping /\ UNCHANGED stateVars
  BY DEF MappingStep, MapRequest, MapLifetime, MapOperation, Mapping
<1>2. /\ TypeOK /\ HoldsOK(g) /\ ContextOK(g) /\ ReadOK(g) /\ BlameOK(g) /\ OwnOK
  BY InvParts DEF Typed
<1>3. r \in Requests
  BY <1>1, <1>2 DEF HoldsOK, Mapping, Closing
<1>4. OperationOK(r)
  BY <1>3, InvParts
<1>5. CASE MapRequest(g)
  <2>1. CASE r \in ended
    <3>1. Honest("request", r)
      BY <2>1 DEF Honest, Symptoms
    <3> QED BY <1>1, <1>5, <2>1, <3>1, MappedKeeps DEF MapRequest, Causes
  <2> QED BY <1>1, <1>5, <2>1, AskedKeeps DEF MapRequest
<1>6. CASE MapLifetime(g)
  <2>1. CASE lifetime = "done"
    <3>1. Honest("ErrTransportClosed", r)
      BY <1>2, <2>1 DEF Honest, Symptoms, OwnOK
    <3> QED BY <1>1, <1>6, <2>1, <3>1, MappedKeeps DEF MapLifetime, Causes
  <2> QED BY <1>1, <1>6, <2>1, AskedKeeps DEF MapLifetime
<1>7. CASE MapOperation(g)
  <2>1. CASE OpEnded(r)
    <3>1. op[r] \in Causes
      BY <1>2, <1>3, <2>1 DEF TypeOK, OpEnded
    <3>2. op[r] = "finished" => r \in shut
      <4>1. r \in finished => InRead(g)
        BY <1>1, <1>2 DEF ContextOK, InRoundTrip, InRead, Mapping
      <4>2. InRead(g) => Opened(r) /\ terminal[r] = "none"
        BY <1>1, <1>2 DEF ReadOK, Mapping
      <4> QED BY <1>4, <4>1, <4>2 DEF OperationOK
    <3>3. Honest(op[r], r)
      BY <1>4, <3>1, <3>2 DEF Honest, OperationOK, Causes, Symptoms
    <3>4. Mapped(g, op[r])
      BY <1>7, <2>1 DEF MapOperation
    <3>5. op[r] # "eof"
      BY <3>1 DEF Causes
    <3> QED BY <1>1, <3>1, <3>3, <3>4, <3>5, MappedKeeps
  <2>2. CASE ~OpEnded(r)
    <3>1. Mapped(g, err[g]) /\ at[g] = "mapOperation"
      BY <1>7, <2>2 DEF MapOperation
    <3>2. /\ err[g] \notin Causes \union Symptoms
          /\ err[g] = "ErrBodyClosed" => r \in shut
      BY <1>1, <1>2, <2>2, <3>1 DEF BlameOK, Symptoms
    <3>3. Honest(err[g], r)
      BY <3>2 DEF Honest, Causes
    <3>4. InRead(g) =>
            /\ err[g] \in Causes \union {"error", "eof", "ErrBodyClosed"}
            /\ err[g] = "eof" => delivered[r] = BodyLen
      BY <1>2, <3>1, <3>2 DEF ReadOK
    <3> QED BY <1>1, <3>1, <3>3, <3>4, MappedKeeps
  <2> QED BY <2>1, <2>2
<1> QED BY <1>5, <1>6, <1>7 DEF MappingStep

LEMMA ReadKeeps ==
  ASSUME Inv, NEW g \in Users, ReadStep(g)
  PROVE  Keeps(g)
<1> DEFINE r == req[g]
<1>1. InRead(g) /\ at[g] \notin Mapping
  BY DEF ReadStep, ReadCheck, ReadData, ReadFails, ReadFailed, ReadEnd, InRead, Reading, Mapping
<1>2. /\ TypeOK /\ HoldsOK(g) /\ ReadOK(g) /\ BlameOK(g)
  BY InvParts DEF Typed
<1>3. r \in Requests /\ Opened(r) /\ readMu[r] = g
  BY <1>1, <1>2 DEF HoldsOK, ReadOK, InRead, Reading, Closing
<1>4. ASSUME at'[g] \in Reading \/ (at'[g] \in Mapping /\ then'[g] = "reading"), ReadOK(g)', BlameOK(g)'
      PROVE  Keeps(g)
  BY <1>4 DEF Keeps, RoundTripMoves, ContextOK, UploadOK, InRoundTrip, RoundTripping, Reading, Mapping
<1>5. CASE ReadCheck(g)
  <2>1. CASE Return(g)
    BY <1>2, <2>1, IdleKeeps DEF Return, TypeOK
  <2>2. CASE Go(g, "rdInner") /\ UNCHANGED readMu /\ terminal[r] = "none"
    <3>1. at'[g] = "rdInner" /\ req'[g] = r /\ UNCHANGED <<answer, terminal>>
      BY <1>2, <1>5, <2>2 DEF Go, TypeOK, ReadCheck
    <3>2. ReadOK(g)'
      BY <1>3, <2>2, <3>1 DEF ReadOK, Opened
    <3> QED BY <1>4, <3>1, <3>2 DEF BlameOK, Reading, Mapping
  <2> QED BY <1>5, <2>1, <2>2 DEF ReadCheck
<1>6. CASE ReadData(g)
  BY <1>2, <1>6, IdleKeeps DEF ReadData, Return, TypeOK
<1>7. CASE ReadFails(g)
  <2>1. PICK e \in {"error", "eof"} :
          /\ GoWith(g, "rdFailed", Blamed(r, e))
          /\ e = "eof" => delivered[r] = BodyLen
    BY <1>7 DEF ReadFails
  <2>2. at[g] = "rdInner" /\ UNCHANGED <<answer, op, lifetime, shut, readMu, terminal, delivered>>
    BY <1>7 DEF ReadFails, ownVars, contextVars, bodyVars
  <2>3. /\ at'[g] = "rdFailed" /\ req'[g] = r /\ err'[g] = Blamed(r, e) /\ native'[r] = "freed"
    BY <1>2, <1>3, <1>7, <2>1 DEF ReadFails, GoWith, TypeOK
  <2>4. /\ Blamed(r, e) \in Symptoms \union {e, "ErrBodyClosed"}
        /\ Blamed(r, e) = "ErrBodyClosed" => r \in shut
        /\ Blamed(r, e) = "ctx" => OpEnded(r)
        /\ Blamed(r, e) = "ErrClientClosed" => OpEnded(r) \/ lifetime = "done"
    BY <1>1, <1>3, BlamedExplained
  <2>5. ReadOK(g)'
    BY <1>1, <1>2, <2>1, <2>2, <2>3, <2>4 DEF ReadOK, Opened, Symptoms
  <2>6. BlameOK(g)'
    BY <2>2, <2>3, <2>4 DEF BlameOK, OpEnded, Causes, Symptoms, Mapping
  <2> QED BY <1>4, <2>3, <2>5, <2>6 DEF Reading
<1>8. CASE ReadFailed(g)
  <2>1. /\ at[g] = "rdFailed"
        /\ UNCHANGED <<answer, op, lifetime, shut, native, readMu, terminal, delivered, ended, closed>>
    BY <1>8 DEF ReadFailed, stateVars, ownVars, contextVars, bodyVars
  <2>2. CASE r \in shut
    <3>1. at'[g] = "rdEnd" /\ req'[g] = r /\ err'[g] = "ErrBodyClosed"
      BY <1>2, <1>8, <2>2 DEF ReadFailed, GoWith, TypeOK
    <3>2. ReadOK(g)'
      BY <1>1, <1>2, <2>1, <3>1 DEF ReadOK, Opened
    <3>3. BlameOK(g)'
      BY <2>1, <2>2, <3>1 DEF BlameOK, Honest, Symptoms, Mapping
    <3> QED BY <1>4, <3>1, <3>2, <3>3 DEF Reading
  <2>3. CASE r \notin shut
    <3>1. at'[g] = "mapRequest" /\ then'[g] = "reading" /\ req'[g] = r /\ err'[g] = err[g]
      BY <1>2, <1>8, <2>3 DEF ReadFailed, Map, TypeOK
    <3>2. ReadOK(g)'
      BY <1>1, <1>2, <2>1, <3>1 DEF ReadOK, Opened
    <3>3. BlameOK(g)'
      BY <1>2, <2>1, <3>1 DEF BlameOK, OpEnded, Mapping
    <3> QED BY <1>4, <3>1, <3>2, <3>3 DEF Mapping
  <2> QED BY <2>2, <2>3
<1>9. CASE ReadEnd(g)
  BY <1>2, <1>9, IdleKeeps DEF ReadEnd, Return, TypeOK
<1> QED BY <1>5, <1>6, <1>7, <1>8, <1>9 DEF ReadStep

LEMMA GoKeeps ==
  ASSUME Inv, NEW g \in Users, GoStep(g)
  PROVE  Keeps(g)
<1>1. CASE CloseStep(g)
  <2>1. TypeOK
    BY DEF Inv
  <2> QED BY <1>1, <2>1, IdleKeeps
          DEF CloseStep, CloseInner, CloseFinish, CloseSteps, Go, Return, TypeOK
<1> QED BY <1>1, CallKeeps, RoundTripKeeps, MappingKeeps, ReadKeeps DEF GoStep

(* Still, a RoundTrip has its request to itself. *)
LEMMA AloneNext ==
  ASSUME Inv, NEW g \in Users, GoStep(g), NEW h \in Users
  PROVE  AloneOK(h)'
<1>1. /\ RoundTripMoves(g)
      /\ \A k \in Users : k # g => Stays(k)
      /\ \A k \in Users : AloneOK(k) /\ HoldsOK(k)
  BY GoKeeps, OthersStay, InvParts DEF Keeps
<1>2. ASSUME NEW k \in Users, k # g, InRoundTrip(k)'
      PROVE  InRoundTrip(k) /\ req'[k] = req[k] /\ answer[req[k]] = "awaited" /\ answer'[req[k]] = "awaited"
  <2>1. InRoundTrip(k) /\ req'[k] = req[k]
    BY <1>1, <1>2 DEF Stays, InRoundTrip
  <2>2. answer[req[k]] = "awaited" /\ req[k] \in Requests
    BY <1>1, <2>1 DEF AloneOK, HoldsOK, InRoundTrip, RoundTripping, Mapping, Closing
  <2>3. Forward({g}, req[k])
    BY <2>2, ForwardGo, InvParts
  <2>4. answer'[req[k]] = answer[req[k]]
    BY <1>2, <2>1, <2>2, <2>3, OthersForward
  <2> QED BY <2>1, <2>2, <2>4
<1>3. ASSUME NEW k \in Users, k # g, InRoundTrip(k)', InRoundTrip(g)', req'[k] = req'[g]
      PROVE  FALSE
  BY <1>1, <1>2, <1>3 DEF RoundTripMoves, AloneOK
<1>4. ASSUME NEW k \in Users, k # g, k # h, h # g, InRoundTrip(k)', InRoundTrip(h)', req'[k] = req'[h]
      PROVE  FALSE
  BY <1>1, <1>2, <1>4 DEF AloneOK
<1>5. InRoundTrip(h)' => answer'[req'[h]] = "awaited"
  BY <1>1, <1>2 DEF RoundTripMoves
<1> QED BY <1>3, <1>4, <1>5 DEF AloneOK

-----------------------------------------------------------------------------
(* What is known of the Transport itself. *)

(* Nobody sends, and nothing unfinished is read, through a client that was *)
(* collected, and nobody will.                                             *)
LEMMA CollectedLasts ==
  ASSUME Inv, Collected, NEW g \in Users, GoStep(g)
  PROVE  Collected'
<1>1. \A h \in Users : ~InRoundTrip(h)
  BY DEF Collected
<1>2. RoundTripMoves(g) /\ \A h \in Users : h # g => Stays(h)
  BY GoKeeps, OthersStay, InvParts DEF Keeps
<1>3. ~held /\ ~held'
  <2>1. CASE Call(g)
    BY <2>1 DEF Collected, Call, RoundTrip, ReadLock, CloseBody, Close, ownVars
  <2>2. CASE RoundTripStep(g)
    BY <2>2 DEF Collected, RoundTripStep, State, MakeContext, WatchUpload, Uploaded, Unwatch,
       Shut, UploadShut, Do, DoResponse, DoFails, Fail, Failed, stateVars, ownVars
  <2>3. CASE MappingStep(g)
    BY <2>3 DEF Collected, MappingStep, MapRequest, MapLifetime, MapOperation, stateVars, ownVars
  <2>4. CASE ReadStep(g)
    BY <2>4 DEF Collected, ReadStep, ReadCheck, ReadData, ReadFails, ReadFailed, ReadEnd,
       stateVars, ownVars
  <2>5. CASE CloseStep(g)
    BY <2>5 DEF Collected, CloseStep, CloseInner, CloseFinish, CloseSteps, stateVars, ownVars
  <2> QED BY <2>1, <2>2, <2>3, <2>4, <2>5 DEF GoStep
<1>4. ASSUME NEW h \in Users PROVE ~InRoundTrip(h)'
  BY <1>1, <1>2, <1>3 DEF RoundTripMoves, Stays, InRoundTrip
<1>5. ASSUME NEW r \in Requests, Opened(r)' PROVE r \in finished'
  <2>1. Forward({g}, r)
    BY ForwardGo, InvParts
  <2>2. ~Moves({g}, r, {"doing", "failShut"})
    BY <1>1 DEF Moves, InRoundTrip, RoundTripping
  <2>3. Opened(r)
    BY <1>5, <2>1, <2>2 DEF Forward, UploadForward, Opened
  <2> QED BY <2>1, <2>3 DEF Collected, Forward, ContextForward
<1> QED BY <1>3, <1>4, <1>5 DEF Collected

LEMMA OwnGo ==
  ASSUME Inv, NEW g \in Users, GoStep(g)
  PROVE  OwnOK'
<1>0. TypeOK /\ OwnOK /\ (Collected => Collected')
  BY CollectedLasts, InvParts DEF Typed
<1>00. \A h \in Users : h # g => at'[h] = at[h]
  BY OthersStay, InvParts DEF Stays
<1>1. ASSUME UNCHANGED <<closed, client, lifetime>>,
             at[g] \notin Closing, at'[g] \notin Closing,
             \A r \in Requests : native'[r] = "open" => native[r] = "open" \/ client = "open"
      PROVE  OwnOK'
  BY <1>0, <1>00, <1>1 DEF OwnOK, Closing
<1>2. CASE Call(g)
  <2>1. ASSUME NEW r \in Requests, RoundTrip(g, r) PROVE OwnOK'
    BY <1>0, <1>1, <2>1 DEF RoundTrip, ownVars, Closing, TypeOK
  <2>2. ASSUME NEW r \in Requests, ReadLock(g, r) \/ CloseBody(g, r) PROVE OwnOK'
    BY <1>0, <1>1, <2>2 DEF ReadLock, CloseBody, Begin, ownVars, Closing, TypeOK
  <2>3. ASSUME Close(g) PROVE OwnOK'
    BY <1>0, <1>00, <2>3 DEF Close, Begin, Closing, TypeOK, OwnOK
  <2> QED BY <1>2, <2>1, <2>2, <2>3 DEF Call
<1>3. CASE RoundTripStep(g)
  <2>1. CASE State(g)
    BY <1>0, <1>00, <2>1 DEF State, Go, GoWith, Closing, TypeOK, OwnOK
  <2>2. CASE MakeContext(g) \/ WatchUpload(g) \/ Uploaded(g) \/ Unwatch(g) \/ UploadShut(g)
    BY <1>0, <1>1, <2>2 DEF MakeContext, WatchUpload, Uploaded, Unwatch, UploadShut, Map, Go,
       GoWith, stateVars, ownVars, Closing, TypeOK
  <2>3. CASE Shut(g) \/ Do(g)
    BY <1>0, <1>1, <2>3 DEF Shut, Do, Map, Go, GoWith, goVars, ownVars, Closing, TypeOK
  <2>4. CASE DoResponse(g) \/ DoFails(g)
    BY <1>0, <1>1, <2>4 DEF DoResponse, DoFails, Map, Return, GoWith, ownVars, Closing, TypeOK
  <2>5. CASE Fail(g) \/ Failed(g)
    BY <1>0, <1>1, <2>5 DEF Fail, Failed, Go, Return, ownVars, Closing, TypeOK
  <2> QED BY <1>3, <2>1, <2>2, <2>3, <2>4, <2>5 DEF RoundTripStep
<1>4. CASE MappingStep(g)
  BY <1>0, <1>1, <1>4 DEF MappingStep, MapRequest, MapLifetime, MapOperation, Mapped, Go, GoWith,
     stateVars, ownVars, Closing, TypeOK
<1>5. CASE ReadStep(g)
  <2>1. CASE ReadCheck(g) \/ ReadData(g)
    BY <1>0, <1>1, <2>1 DEF ReadCheck, ReadData, Go, Return, ownVars, Closing, TypeOK
  <2>2. CASE ReadFails(g) \/ ReadFailed(g)
    BY <1>0, <1>1, <2>2 DEF ReadFails, ReadFailed, GoWith, Map, stateVars, ownVars, Closing, TypeOK
  <2>3. CASE ReadEnd(g)
    BY <1>0, <1>1, <2>3 DEF ReadEnd, Return, ownVars, Closing, TypeOK
  <2> QED BY <1>5, <2>1, <2>2, <2>3 DEF ReadStep
<1>6. CASE CloseStep(g)
  <2>1. CASE CloseInner(g) \/ CloseFinish(g)
    BY <1>0, <1>1, <2>1 DEF CloseInner, CloseFinish, Go, Return, ownVars, Closing, TypeOK
  <2>2. CASE CloseSteps(g)
    BY <1>0, <1>00, <2>2 DEF CloseSteps, Ended, ClientGone, Go, Return, Closing, TypeOK, OwnOK
  <2> QED BY <1>6, <2>1, <2>2 DEF CloseStep
<1> QED BY <1>2, <1>3, <1>4, <1>5, <1>6 DEF GoStep

LEMMA OwnElse ==
  ASSUME Inv, (\E r \in Requests : ContextStep(r)) \/ Drop \/ Collect
  PROVE  OwnOK'
<1>0. TypeOK /\ OwnOK
  BY InvParts DEF Typed
<1>1. ASSUME NEW r \in Requests, ContextStep(r) PROVE OwnOK'
  <2>1. /\ UNCHANGED <<closed, client, lifetime, held, answer, finished>> /\ UNCHANGED <<at, then>>
        /\ \A s \in Requests : native'[s] = "open" => native[s] = "open"
    BY <1>0, <1>1 DEF ContextStep, EndRequest, TimeOut, Propagate, EndLifetime, FreeNative,
       FireUpload, FiredShut, ownVars, goVars, TypeOK
  <2> QED BY <1>0, <2>1 DEF OwnOK, Collected, InRoundTrip, Opened
<1>2. CASE Drop
  BY <1>0, <1>2 DEF Drop, OwnOK, Collected, goVars
<1>3. CASE Collect
  <2>1. UNCHANGED <<closed, lifetime, held, answer, finished, at, then>> /\ ~closed /\ client' = "closed"
    BY <1>3 DEF Collect, ClientGone, goVars
  <2>2. Collected'
    BY <1>3, <2>1 DEF Collect, InUse, Collected, InRoundTrip, Opened
  <2>3. \A r \in Requests : native'[r] # "open"
    BY <1>3 DEF Collect, ClientGone
  <2>4. client = "open"
    BY <1>3 DEF Collect
  <2> QED BY <1>0, <2>1, <2>2, <2>3, <2>4 DEF OwnOK
<1> QED BY <1>1, <1>2, <1>3

-----------------------------------------------------------------------------
(* What is known of a request. *)

LEMMA OperationCall ==
  ASSUME Inv, NEW g \in Users, Call(g), NEW r \in Requests
  PROVE  OperationOK(r)'
<1>0. TypeOK /\ OperationOK(r)
  BY InvParts DEF Typed
<1> USE DEF OperationOK, Opened, OpEnded, TypeOK, ownVars, contextVars, bodyVars
<1>1. ASSUME NEW s \in Requests, RoundTrip(g, s) PROVE OperationOK(r)'
  BY <1>0, <1>1 DEF RoundTrip
<1>2. ASSUME NEW s \in Requests, ReadLock(g, s) PROVE OperationOK(r)'
  BY <1>0, <1>2 DEF ReadLock
<1>3. ASSUME NEW s \in Requests, CloseBody(g, s) PROVE OperationOK(r)'
  BY <1>0, <1>3 DEF CloseBody
<1>4. ASSUME Close(g) PROVE OperationOK(r)'
  BY <1>0, <1>4 DEF Close
<1> QED BY <1>1, <1>2, <1>3, <1>4 DEF Call

LEMMA OperationRoundTrip ==
  ASSUME Inv, NEW g \in Users, RoundTripStep(g), NEW r \in Requests
  PROVE  OperationOK(r)'
<1>0. TypeOK /\ OperationOK(r)
  BY InvParts DEF Typed
<1>00. InRoundTrip(g)
  BY DEF RoundTripStep, InRoundTrip, RoundTripping, State, MakeContext, WatchUpload,
         Uploaded, Unwatch, Shut, UploadShut, Do, DoResponse, DoFails, Fail, Failed
<1> USE DEF OperationOK, Opened, OpEnded, TypeOK, stateVars, ownVars, contextVars, uploadVars,
            bodyVars
<1>1. CASE State(g)
  BY <1>0, <1>1 DEF State
<1>2. CASE MakeContext(g)
  BY <1>0, <1>00, <1>2, RoundTripKnows DEF MakeContext, ContextOK
<1>3. CASE WatchUpload(g) \/ Uploaded(g) \/ Unwatch(g) \/ UploadShut(g)
  BY <1>0, <1>3 DEF WatchUpload, Uploaded, Unwatch, UploadShut
<1>4. CASE Shut(g)
  BY <1>0, <1>4 DEF Shut, goVars
<1>5. CASE Do(g)
  BY <1>0, <1>00, <1>5, RoundTripKnows DEF Do, ContextOK
<1>6. CASE DoResponse(g)
  BY <1>0, <1>00, <1>6, RoundTripKnows DEF DoResponse, ContextOK
<1>7. CASE DoFails(g)
  BY <1>0, <1>00, <1>7, RoundTripKnows DEF DoFails, ContextOK
<1>8. CASE Fail(g)
  BY <1>0, <1>00, <1>8, RoundTripKnows DEF Fail, Finish, EndOp, Stopped, ContextOK
<1>9. CASE Failed(g)
  BY <1>0, <1>00, <1>9, RoundTripKnows DEF Failed, ContextOK, HoldsOK, Errors, Causes, Symptoms
<1> QED BY <1>1, <1>2, <1>3, <1>4, <1>5, <1>6, <1>7, <1>8, <1>9 DEF RoundTripStep

LEMMA OperationBody ==
  ASSUME Inv, NEW g \in Users, ReadStep(g) \/ CloseStep(g), NEW r \in Requests
  PROVE  OperationOK(r)'
<1>0. TypeOK /\ HoldsOK(g) /\ ReadOK(g) /\ OperationOK(r)
  BY InvParts DEF Typed
<1> USE DEF OperationOK, Opened, OpEnded, TypeOK, stateVars, ownVars, contextVars, uploadVars,
            bodyVars
<1>1. CASE ReadCheck(g) \/ ReadData(g) \/ ReadFailed(g)
  BY <1>0, <1>1 DEF ReadCheck, ReadData, ReadFailed
<1>2. CASE ReadFails(g)
  BY <1>0, <1>2 DEF ReadFails, ReadOK, InRead, Reading
<1>3. CASE ReadEnd(g)
  <2>1. err[g] # "none"
    BY <1>0, <1>3 DEF ReadEnd, Errors, Causes, Symptoms
  <2>2. Opened(req[g]) /\ req[g] \in Requests
    BY <1>0, <1>3 DEF ReadEnd, ReadOK, InRead, Reading, HoldsOK, Closing
  <2> QED BY <1>0, <1>3, <2>1, <2>2 DEF ReadEnd, Finish, EndOp, Stopped
<1>4. InBodyClose(g) => Opened(req[g])
  <2>1. InBodyClose(g) => req[g] \in shut
    BY DEF Inv, BodyClosersOK
  <2> QED BY <1>0, <2>1, InvParts DEF BodyOK
<1>5. CASE CloseInner(g) \/ CloseFinish(g)
  <2>1. Opened(req[g]) /\ req[g] \in shut
    BY <1>4, <1>5 DEF CloseInner, CloseFinish, InBodyClose, Inv, BodyClosersOK
  <2>2. CASE CloseInner(g)
    BY <1>0, <2>1, <2>2 DEF CloseInner
  <2>3. CASE CloseFinish(g)
    BY <1>0, <2>1, <2>3 DEF CloseFinish, Finish, EndOp, Stopped
  <2> QED BY <1>5, <2>2, <2>3
<1>6. CASE CloseSteps(g)
  BY <1>0, <1>6 DEF CloseSteps, ClientGone
<1> QED BY <1>1, <1>2, <1>3, <1>5, <1>6 DEF ReadStep, CloseStep

LEMMA OperationElse ==
  ASSUME Inv, (\E s \in Requests : ContextStep(s)) \/ Drop \/ Collect, NEW r \in Requests
  PROVE  OperationOK(r)'
<1>0. TypeOK /\ OperationOK(r) /\ OwnOK
  BY InvParts DEF Typed
<1> USE DEF OperationOK, Opened, OpEnded, TypeOK, ownVars, contextVars, bodyVars
<1>1. ASSUME NEW s \in Requests, EndRequest(s) \/ TimeOut(s) \/ Propagate(s)
      PROVE  OperationOK(r)'
  BY <1>0, <1>1 DEF EndRequest, TimeOut, Propagate, EndOp
<1>2. ASSUME NEW s \in Requests, EndLifetime(s) PROVE OperationOK(r)'
  BY <1>0, <1>2 DEF EndLifetime, EndOp, OwnOK
<1>3. ASSUME NEW s \in Requests, FreeNative(s) \/ FireUpload(s) \/ FiredShut(s)
      PROVE  OperationOK(r)'
  BY <1>0, <1>3 DEF FreeNative, FireUpload, FiredShut
<1>4. CASE Drop \/ Collect
  BY <1>0, <1>4 DEF Drop, Collect, ClientGone
<1> QED BY <1>1, <1>2, <1>3, <1>4 DEF ContextStep

(* Only the RoundTrip that armed the watch relies on it. *)
LEMMA WatcherStays ==
  ASSUME Inv, NEW g \in Users, GoStep(g), NEW r \in Requests, watch[r] = "armed",
         ~(at[g] \in {"uploading", "unwatch"} /\ req[g] = r)
  PROVE  \E h \in Users : at'[h] \in {"uploading", "unwatch"} /\ req'[h] = r
<1>1. PICK h \in Users : at[h] \in {"uploading", "unwatch"} /\ req[h] = r
  BY InvParts DEF ClosesOK
<1>2. h # g
  BY <1>1
<1>3. Stays(h)
  BY <1>2, OthersStay, InvParts
<1> QED BY <1>1, <1>3 DEF Stays

LEMMA ClosesGo ==
  ASSUME Inv, NEW g \in Users, GoStep(g), NEW r \in Requests
  PROVE  ClosesOK(r)'
<1>0. TypeOK /\ ClosesOK(r) /\ HoldsOK(g)
  BY InvParts DEF Typed
<1>1. ASSUME UNCHANGED <<upload, closes, watch>>,
             at[g] \notin {"uploading", "unwatch"},
             answer'[r] = answer[r] \/ (answer'[r] \notin {"none", "awaited"} /\ IsShut(r))
      PROVE  ClosesOK(r)'
  BY <1>0, <1>1, WatcherStays DEF ClosesOK, IsShut
<1> USE DEF stateVars, uploadVars
<1>2. CASE Call(g)
  <2>1. ASSUME NEW s \in Requests, RoundTrip(g, s) PROVE ClosesOK(r)'
    <3>1. watch' = watch /\ closes' = closes /\ at[g] = "idle" /\ answer[s] = "none"
      BY <2>1 DEF RoundTrip
    <3>2. CASE r # s
      <4>1. answer'[r] = answer[r] /\ upload'[r] = upload[r]
        BY <1>0, <2>1, <3>2 DEF RoundTrip, TypeOK
      <4> QED BY <1>0, <3>1, <4>1, WatcherStays DEF ClosesOK, IsShut
    <3>3. CASE r = s
      <4>1. answer'[r] = "awaited" /\ upload'[r] \in {"none", "open"}
        BY <1>0, <2>1, <3>3 DEF RoundTrip, TypeOK
      <4>2. upload[r] = "none" /\ watch[r] # "armed" /\ closes[r] = 0
        BY <1>0, <3>1, <3>3 DEF ClosesOK
      <4> QED BY <3>1, <4>1, <4>2 DEF ClosesOK
    <3> QED BY <3>2, <3>3
  <2>2. ASSUME NEW s \in Requests, ReadLock(g, s) \/ CloseBody(g, s) PROVE ClosesOK(r)'
    BY <1>1, <2>2 DEF ReadLock, CloseBody, Begin
  <2>3. ASSUME Close(g) PROVE ClosesOK(r)'
    BY <1>1, <2>3 DEF Close
  <2> QED BY <1>2, <2>1, <2>2, <2>3 DEF Call
<1>3. CASE RoundTripStep(g)
  <2>0. InRoundTrip(g)
    BY <1>3 DEF RoundTripStep, InRoundTrip, RoundTripping, State, MakeContext, WatchUpload,
       Uploaded, Unwatch, Shut, UploadShut, Do, DoResponse, DoFails, Fail, Failed
  <2>1. CASE State(g) \/ MakeContext(g) \/ UploadShut(g) \/ Do(g) \/ DoFails(g) \/ Fail(g)
    BY <1>1, <2>1 DEF State, MakeContext, UploadShut, Do, DoFails, Fail
  <2>2. CASE WatchUpload(g)
    <3>1. upload[req[g]] = "open"
      BY <2>0, <2>2, RoundTripKnows DEF WatchUpload, UploadOK
    <3>2. at'[g] = "uploading" /\ req'[g] = req[g] /\ at[g] = "upload"
      BY <1>0, <2>2 DEF WatchUpload, Go, TypeOK
    <3>3. /\ UNCHANGED <<upload, closes, answer>>
          /\ r # req[g] => watch'[r] = watch[r]
      BY <1>0, <2>2 DEF WatchUpload, TypeOK
    <3> QED BY <1>0, <3>1, <3>2, <3>3, WatcherStays DEF ClosesOK, IsShut
  <2>3. CASE Uploaded(g)
    <3>1. at'[g] = "unwatch" /\ req'[g] = req[g]
      BY <1>0, <2>3 DEF Uploaded, GoWith, TypeOK
    <3>2. UNCHANGED <<upload, closes, watch, answer>>
      BY <2>3 DEF Uploaded
    <3> QED BY <1>0, <3>1, <3>2, WatcherStays DEF ClosesOK, IsShut
  <2>4. CASE Unwatch(g)
    <3>1. /\ UNCHANGED <<upload, closes, answer>>
          /\ watch'[r] = "armed" => watch[r] = "armed" /\ r # req[g]
      BY <1>0, <2>4 DEF Unwatch, Stopped, TypeOK
    <3> QED BY <1>0, <3>1, WatcherStays DEF ClosesOK, IsShut
  <2>5. CASE Shut(g)
    <3>1. CASE r # req[g]
      <4>1. UNCHANGED <<upload[r], closes[r], watch, answer>> /\ at[g] \in {"shut", "failShut"}
        BY <1>0, <2>5, <3>1 DEF Shut, BeginShut, TypeOK
      <4> QED BY <1>0, <4>1, WatcherStays DEF ClosesOK, IsShut
    <3>2. CASE r = req[g]
      <4>1. /\ at[g] \in {"shut", "failShut"} /\ UNCHANGED <<watch, answer>>
            /\ \/ upload[r] = "open" /\ upload'[r] = "closing" /\ closes'[r] = closes[r] + 1
               \/ upload[r] = "closing" /\ upload'[r] = "closed" /\ closes'[r] = closes[r]
        BY <1>0, <2>5, <3>2 DEF Shut, BeginShut, TypeOK
      <4>2. answer[r] = "awaited" /\ \A h \in Users : InRoundTrip(h) /\ req[h] = r => h = g
        BY <2>0, <3>2, InvParts DEF AloneOK
      <4>3. watch[r] # "armed"
        BY <1>0, <4>1, <4>2 DEF ClosesOK, InRoundTrip, RoundTripping
      <4> QED BY <1>0, <4>1, <4>2, <4>3 DEF ClosesOK
    <3> QED BY <3>1, <3>2
  <2>6. CASE DoResponse(g)
    <3>1. IsShut(req[g])
      BY <2>0, <2>6, RoundTripKnows DEF DoResponse, UploadOK
    <3> QED BY <1>0, <1>1, <2>6, <3>1 DEF DoResponse, TypeOK
  <2>7. CASE Failed(g)
    <3>1. err[g] \in Errors
      BY <1>0, <2>7 DEF Failed, HoldsOK, TypeOK
    <3>2. err[g] \notin {"none", "awaited"}
      BY <3>1, ErrorsKnown
    <3> QED BY <1>0, <1>1, <2>7, <3>2 DEF Failed, TypeOK
  <2> QED BY <1>3, <2>1, <2>2, <2>3, <2>4, <2>5, <2>6, <2>7 DEF RoundTripStep
<1>4. CASE MappingStep(g)
  BY <1>1, <1>4 DEF MappingStep, MapRequest, MapLifetime, MapOperation
<1>5. CASE ReadStep(g)
  BY <1>1, <1>5 DEF ReadStep, ReadCheck, ReadData, ReadFails, ReadFailed, ReadEnd
<1>6. CASE CloseStep(g)
  BY <1>1, <1>6 DEF CloseStep, CloseInner, CloseFinish, CloseSteps
<1> QED BY <1>2, <1>3, <1>4, <1>5, <1>6 DEF GoStep

LEMMA ClosesElse ==
  ASSUME Inv, (\E s \in Requests : ContextStep(s)) \/ Drop \/ Collect, NEW r \in Requests
  PROVE  ClosesOK(r)'
<1>0. TypeOK /\ ClosesOK(r)
  BY InvParts DEF Typed
<1> USE DEF ClosesOK, IsShut, TypeOK, uploadVars, goVars
<1>1. ASSUME NEW s \in Requests,
             EndRequest(s) \/ TimeOut(s) \/ Propagate(s) \/ EndLifetime(s) \/ FreeNative(s)
      PROVE  ClosesOK(r)'
  BY <1>0, <1>1 DEF EndRequest, TimeOut, Propagate, EndLifetime, FreeNative
<1>2. ASSUME NEW s \in Requests, FireUpload(s) PROVE ClosesOK(r)'
  <2>1. ClosesOK(s)
    BY InvParts
  <2> QED BY <1>0, <1>2, <2>1 DEF FireUpload, BeginShut
<1>3. ASSUME NEW s \in Requests, FiredShut(s) PROVE ClosesOK(r)'
  BY <1>0, <1>3 DEF FiredShut
<1>4. CASE Drop \/ Collect
  BY <1>0, <1>4 DEF Drop, Collect
<1> QED BY <1>1, <1>2, <1>3, <1>4 DEF ContextStep

(* What was an honest answer stays one: causes are not taken back.         *)
LEMMA HonestLasts ==
  ASSUME Inv, NEW S \in SUBSET Users, NEW r \in Requests, Forward(S, r), NEW e, Honest(e, r)
  PROVE  Honest(e, r)'
<1>1. Moves(S, r, {"context"}) => op[r] = "unset"
  <2>1. ASSUME NEW g \in S, at[g] = "context", req[g] = r PROVE op[r] = "unset"
    BY <2>1, InvParts DEF ContextOK, InRoundTrip, RoundTripping
  <2> QED BY <2>1 DEF Moves
<1>2. OpEnded(r) => op'[r] = op[r]
  BY <1>1 DEF Forward, ContextForward, OpEnded
<1>3. e \in {"deadline", "legacy"} => OpEnded(r)
  BY DEF Honest, OpEnded
<1> QED BY <1>2, <1>3 DEF Honest, Forward, ContextForward, BodyForward

(* A body being closed is in the hands of whoever closes it. *)
LEMMA CloserStays ==
  ASSUME Inv, NEW g \in Users, GoStep(g), NEW h \in Users, InBodyClose(h), h # g
  PROVE  at'[h] = at[h] /\ req'[h] = req[h] /\ InBodyClose(h)'
BY OthersStay, InvParts DEF Stays, InBodyClose

LEMMA BodyQuiet ==
  ASSUME Inv, NEW g \in Users, GoStep(g), NEW r \in Requests,
         UNCHANGED <<shut, innerShut>>, ~InBodyClose(g), terminal'[r] = terminal[r],
         answer'[r] = answer[r] \/ (answer[r] \in {"none", "awaited"} /\ Honest(answer'[r], r))
  PROVE  BodyOK(r)'
<1>1. BodyOK(r) /\ Forward({g}, r)
  BY InvParts, ForwardGo
<1>2. Opened(r) => Opened(r)'
  BY DEF Opened
<1>3. native'[r] = "open" => native[r] = "open" \/ answer[r] = "awaited"
  <2>1. Moves({g}, r, {"do"}) => answer[r] = "awaited"
    BY InvParts DEF Moves, AloneOK, InRoundTrip, RoundTripping
  <2> QED BY <1>1, <2>1 DEF Forward, BodyForward
<1>4. PICK a, t : a = answer'[r] /\ t = terminal'[r]
  OBVIOUS
<1>5. Honest(answer[r], r)' /\ Honest(terminal[r], r)'
  <2>1. Honest(a, r) /\ Honest(t, r)
    BY <1>1, <1>4 DEF BodyOK
  <2>2. Honest(a, r)' /\ Honest(t, r)'
    BY <1>1, <2>1, HonestLasts
  <2> QED BY <1>4, <2>2 DEF Honest
<1>6. ASSUME NEW h \in Users, InBodyClose(h), req[h] = r
      PROVE  at'[h] = at[h] /\ req'[h] = r /\ InBodyClose(h)'
  BY <1>6, CloserStays
<1>7. r \in shut =>
        /\ r \in innerShut \/ \E h \in Users : at'[h] = "bcInner" /\ req'[h] = r
        /\ r \in finished' \/ \E h \in Users : InBodyClose(h)' /\ req'[h] = r
  <2>1. r \in finished => r \in finished'
    BY <1>1 DEF Forward, ContextForward
  <2> QED BY <1>1, <1>6, <2>1 DEF BodyOK, InBodyClose
<1>8. /\ r \in innerShut => native'[r] # "open"
      /\ terminal[r] # "none" => r \in finished' /\ native'[r] # "open"
  <2>1. innerShut \subseteq shut
    BY DEF Inv, TypeOK
  <2> QED BY <1>1, <1>3, <2>1 DEF BodyOK, Opened, Forward, ContextForward
<1> QED BY <1>1, <1>2, <1>5, <1>7, <1>8 DEF BodyOK

LEMMA HonestWords ==
  ASSUME NEW r
  PROVE  Honest("awaited", r) /\ Honest("response", r) /\ Honest("none", r)
BY DEF Honest, Symptoms

LEMMA BodyCall ==
  ASSUME Inv, NEW g \in Users, Call(g), NEW r \in Requests
  PROVE  BodyOK(r)'
<1>0. TypeOK /\ BodyOK(r) /\ GoStep(g)
  BY InvParts DEF Typed, GoStep
<1> USE DEF bodyVars
<1>1. ASSUME NEW s \in Requests, RoundTrip(g, s) PROVE BodyOK(r)'
  <2>1. answer'[r] = answer[r] \/ (answer[r] = "none" /\ answer'[r] = "awaited")
    BY <1>0, <1>1 DEF RoundTrip, TypeOK
  <2>2. ~InBodyClose(g)
    BY <1>1 DEF RoundTrip, InBodyClose
  <2> QED BY <1>0, <1>1, <2>1, <2>2, BodyQuiet, HonestWords DEF RoundTrip
<1>2. ASSUME NEW s \in Requests, ReadLock(g, s) PROVE BodyOK(r)'
  BY <1>0, <1>2, BodyQuiet DEF ReadLock, Begin, InBodyClose
<1>3. ASSUME NEW s \in Requests, CloseBody(g, s) PROVE BodyOK(r)'
  <2>1. at'[g] = "bcInner" /\ req'[g] = s /\ at[g] = "idle"
    BY <1>0, <1>3 DEF CloseBody, Begin, TypeOK
  <2>2. /\ shut' = shut \union {s} /\ Opened(s)
        /\ UNCHANGED <<answer, op, ended, closed, native, innerShut, terminal, finished>>
    BY <1>3 DEF CloseBody, ownVars, contextVars
  <2>3. \A h \in Users : InBodyClose(h) =>
          at'[h] = at[h] /\ req'[h] = req[h] /\ InBodyClose(h)'
    BY <1>0, <2>1, CloserStays DEF InBodyClose
  <2>4. Honest(answer[r], r)' /\ Honest(terminal[r], r)'
    BY <1>0, <2>2 DEF BodyOK, Honest
  <2>5. InBodyClose(g)'
    BY <2>1 DEF InBodyClose
  <2>6. r \in shut' => /\ r \in innerShut \/ \E h \in Users : at'[h] = "bcInner" /\ req'[h] = r
                       /\ r \in finished \/ \E h \in Users : InBodyClose(h)' /\ req'[h] = r
                       /\ Opened(r)
    BY <1>0, <2>1, <2>2, <2>3, <2>5 DEF BodyOK, InBodyClose
  <2> QED BY <1>0, <2>2, <2>4, <2>6 DEF BodyOK, Opened
<1>4. ASSUME Close(g) PROVE BodyOK(r)'
  BY <1>0, <1>4, BodyQuiet DEF Close, Begin, InBodyClose
<1> QED BY <1>1, <1>2, <1>3, <1>4 DEF Call

LEMMA BodyGo ==
  ASSUME Inv, NEW g \in Users, GoStep(g), NEW r \in Requests
  PROVE  BodyOK(r)'
<1>0. TypeOK /\ BodyOK(r) /\ BlameOK(g) /\ HoldsOK(g) /\ ReadOK(g)
  BY InvParts DEF Typed
<1> USE DEF stateVars, bodyVars
<1>1. CASE RoundTripStep(g)
  <2>1. InRoundTrip(g) /\ ~InBodyClose(g)
    BY <1>1 DEF RoundTripStep, InRoundTrip, RoundTripping, InBodyClose, State, MakeContext, WatchUpload,
       Uploaded, Unwatch, Shut, UploadShut, Do, DoResponse, DoFails, Fail, Failed
  <2>2. CASE State(g) \/ MakeContext(g) \/ WatchUpload(g) \/ Uploaded(g) \/ Unwatch(g) \/ Shut(g)
    BY <2>1, <2>2, BodyQuiet DEF State, MakeContext, WatchUpload, Uploaded, Unwatch, Shut
  <2>3. CASE UploadShut(g) \/ Do(g) \/ DoFails(g) \/ Fail(g)
    BY <2>1, <2>3, BodyQuiet DEF UploadShut, Do, DoFails, Fail
  <2>4. CASE DoResponse(g)
    <3>1. answer'[r] = answer[r] \/ (answer[r] = "awaited" /\ answer'[r] = "response")
      BY <1>0, <2>1, <2>4, RoundTripKnows DEF DoResponse, TypeOK
    <3> QED BY <2>1, <2>4, <3>1, BodyQuiet, HonestWords DEF DoResponse
  <2>5. CASE Failed(g)
    <3>1. Honest(err[g], req[g])
      BY <1>0, <2>5 DEF Failed, BlameOK
    <3>2. answer'[r] = answer[r] \/ (answer[r] = "awaited" /\ answer'[r] = err[g] /\ r = req[g])
      BY <1>0, <2>1, <2>5, RoundTripKnows DEF Failed, TypeOK
    <3> QED BY <2>1, <2>5, <3>1, <3>2, BodyQuiet DEF Failed
  <2> QED BY <1>1, <2>2, <2>3, <2>4, <2>5 DEF RoundTripStep
<1>2. CASE MappingStep(g)
  BY <1>2, BodyQuiet
     DEF MappingStep, MapRequest, MapLifetime, MapOperation, InBodyClose
<1>3. CASE ReadStep(g)
  <2>1. CASE ReadCheck(g) \/ ReadData(g) \/ ReadFails(g) \/ ReadFailed(g)
    BY <2>1, BodyQuiet DEF ReadCheck, ReadData, ReadFails, ReadFailed, InBodyClose
  <2>2. CASE ReadEnd(g) /\ r # req[g]
    <3>1. terminal'[r] = terminal[r]
      BY <1>0, <2>2 DEF ReadEnd, TypeOK
    <3> QED BY <2>2, <3>1, BodyQuiet DEF ReadEnd, InBodyClose
  <2>3. CASE ReadEnd(g) /\ r = req[g]
    <3>1. /\ terminal'[r] = err[g] /\ r \in finished'
          /\ UNCHANGED <<answer, shut, innerShut, native>>
      BY <1>0, <2>3 DEF ReadEnd, Finish, TypeOK
    <3>2. Opened(r) /\ native[r] # "open"
      BY <1>0, <2>3 DEF ReadEnd, ReadOK, InRead, Reading
    <3>3. Forward({g}, r)
      BY ForwardGo, InvParts
    <3>4. Honest(err[g], r) /\ Honest(answer[r], r)
      BY <1>0, <2>3 DEF ReadEnd, BlameOK, BodyOK
    <3>5. PICK e, a : e = err[g] /\ a = answer[r]
      OBVIOUS
    <3>6. Honest(e, r)' /\ Honest(a, r)'
      BY <3>3, <3>4, <3>5, HonestLasts
    <3>7. Honest(answer[r], r)' /\ Honest(terminal[r], r)'
      BY <3>1, <3>5, <3>6 DEF Honest
    <3>8. \A h \in Users : InBodyClose(h) =>
            at'[h] = at[h] /\ req'[h] = req[h] /\ InBodyClose(h)'
      BY <2>3, CloserStays DEF InBodyClose, ReadEnd
    <3> QED BY <1>0, <3>1, <3>2, <3>7, <3>8 DEF BodyOK, Opened, InBodyClose
  <2> QED BY <1>3, <2>1, <2>2, <2>3 DEF ReadStep
<1>4. CASE CloseInner(g) \/ CloseFinish(g)
  <2>1. Forward({g}, r)
    BY ForwardGo, InvParts
  <2>2. PICK a, t : a = answer[r] /\ t = terminal[r]
    OBVIOUS
  <2>3. Honest(a, r)' /\ Honest(t, r)'
    BY <1>0, <2>1, <2>2, HonestLasts DEF BodyOK
  <2>4. UNCHANGED <<answer, terminal, shut>>
    BY <1>4 DEF CloseInner, CloseFinish
  <2>5. Honest(answer[r], r)' /\ Honest(terminal[r], r)'
    BY <2>2, <2>3, <2>4 DEF Honest
  <2>6. \A h \in Users \ {g} : InBodyClose(h) =>
          at'[h] = at[h] /\ req'[h] = req[h] /\ InBodyClose(h)'
    BY CloserStays
  <2>7. CASE CloseInner(g)
    <3>1. /\ at[g] = "bcInner" /\ at'[g] = "bcFinish" /\ req'[g] = req[g]
          /\ innerShut' = innerShut \union {req[g]} /\ finished' = finished
          /\ native'[r] = native[r] \/ native'[r] # "open"
          /\ r = req[g] => native'[r] # "open"
      BY <1>0, <2>7 DEF CloseInner, Go, TypeOK
    <3>2. InBodyClose(g)'
      BY <3>1 DEF InBodyClose
    <3> QED BY <1>0, <2>4, <2>5, <2>6, <3>1, <3>2 DEF BodyOK, Opened, InBodyClose
  <2>8. CASE CloseFinish(g)
    <3>1. /\ at[g] = "bcFinish" /\ finished' = finished \union {req[g]}
          /\ UNCHANGED <<native, innerShut>>
      BY <2>8 DEF CloseFinish, Finish
    <3> QED BY <1>0, <2>4, <2>5, <2>6, <3>1 DEF BodyOK, Opened, InBodyClose
  <2> QED BY <1>4, <2>7, <2>8
<1>5. CASE CloseSteps(g)
  BY <1>5, BodyQuiet DEF CloseSteps, InBodyClose
<1> QED BY <1>1, <1>2, <1>3, <1>4, <1>5, BodyCall DEF GoStep, CloseStep

LEMMA BodyElse ==
  ASSUME Inv, NEW r \in Requests,
         UNCHANGED <<goVars, answer, bodyVars, finished>>, Forward({}, r)
  PROVE  BodyOK(r)'
<1>1. BodyOK(r)
  BY InvParts
<1>2. PICK a, t : a = answer[r] /\ t = terminal[r]
  OBVIOUS
<1>3. Honest(a, r)' /\ Honest(t, r)'
  BY <1>1, <1>2, HonestLasts DEF BodyOK
<1>4. Honest(answer[r], r)' /\ Honest(terminal[r], r)'
  BY <1>2, <1>3 DEF Honest, bodyVars
<1>5. native'[r] = "open" => native[r] = "open"
  BY DEF Forward, BodyForward, Moves
<1> QED BY <1>1, <1>4, <1>5 DEF BodyOK, Opened, InBodyClose, goVars, bodyVars

-----------------------------------------------------------------------------
(* The invariant. *)

LEMMA InvInit == Init => Inv
<1> SUFFICES ASSUME Init PROVE Inv
  OBVIOUS
<1>1. TypeOK /\ BodyClosersOK /\ \A g \in Users : HoldsOK(g)
  BY TypedInit DEF Typed
<1>2. OwnOK
  BY DEF Init, OwnOK, Closing
<1>3. ASSUME NEW g \in Users
      PROVE  AloneOK(g) /\ ContextOK(g) /\ UploadOK(g) /\ ReadOK(g) /\ BlameOK(g)
  <2>1. at[g] = "idle"
    BY DEF Init
  <2> QED BY <2>1 DEF AloneOK, ContextOK, UploadOK, ReadOK, BlameOK, InRoundTrip, InRead,
          RoundTripping, Reading, Mapping
<1>4. ASSUME NEW r \in Requests PROVE OperationOK(r) /\ ClosesOK(r) /\ BodyOK(r)
  <2>1. OperationOK(r) /\ ClosesOK(r)
    BY DEF Init, OperationOK, ClosesOK, Opened, OpEnded
  <2>2. answer[r] = "none" /\ terminal[r] = "none" /\ r \notin shut /\ r \notin innerShut
    BY DEF Init
  <2>3. Honest(answer[r], r) /\ Honest(terminal[r], r)
    BY <2>2, HonestWords
  <2> QED BY <2>1, <2>2, <2>3 DEF BodyOK
<1> QED BY <1>1, <1>2, <1>3, <1>4 DEF Inv

LEMMA InvGo ==
  ASSUME Inv, NEW g \in Users, GoStep(g)
  PROVE  Inv'
<1>1. Typed /\ OwnOK
  BY InvParts
<1>2. Typed' /\ OwnOK'
  BY <1>1, TypedGo, OwnGo
<1>3. ASSUME NEW h \in Users
      PROVE  AloneOK(h)' /\ ContextOK(h)' /\ UploadOK(h)' /\ ReadOK(h)' /\ BlameOK(h)'
  <2>1. CASE h = g
    BY <2>1, AloneNext, GoKeeps DEF Keeps
  <2>2. CASE h # g
    BY <1>1, <2>2, AloneNext, OthersStay, OthersKeep, ForwardGo
  <2> QED BY <2>1, <2>2
<1>4. ASSUME NEW r \in Requests PROVE OperationOK(r)' /\ ClosesOK(r)' /\ BodyOK(r)'
  <2>1. CASE MappingStep(g)
    <3>1. UNCHANGED stateVars /\ OperationOK(r)
      BY <2>1, InvParts DEF MappingStep, MapRequest, MapLifetime, MapOperation
    <3>2. OperationOK(r)'
      BY <3>1 DEF OperationOK, Opened, OpEnded, stateVars, ownVars, contextVars, bodyVars
    <3> QED BY <3>2, ClosesGo, BodyGo
  <2>2. CASE ~MappingStep(g)
    BY <2>2, OperationCall, OperationRoundTrip, OperationBody, ClosesGo, BodyGo DEF GoStep
  <2> QED BY <2>1, <2>2
<1> QED BY <1>2, <1>3, <1>4 DEF Inv, Typed

LEMMA InvElse ==
  ASSUME Inv, (\E r \in Requests : ContextStep(r)) \/ Drop \/ Collect
  PROVE  Inv'
<1>1. Typed /\ [Next]_vars
  BY InvParts DEF Next, Callbacks, Environment, ContextStep
<1>2. Typed' /\ OwnOK'
  BY <1>1, TypedNext, OwnElse
<1>3. ASSUME NEW r \in Requests PROVE Forward({}, r)
  BY <1>1, ForwardContext
     DEF Drop, Collect, ClientGone, Forward, ContextForward, UploadForward, BodyForward,
         Typed, TypeOK, contextVars, uploadVars, bodyVars
<1>4. UNCHANGED <<goVars, answer, bodyVars, finished>>
  BY DEF ContextStep, EndRequest, TimeOut, Propagate, EndLifetime, FreeNative, FireUpload,
         FiredShut, Drop, Collect
<1>5. ASSUME NEW h \in Users
      PROVE  AloneOK(h)' /\ ContextOK(h)' /\ UploadOK(h)' /\ ReadOK(h)' /\ BlameOK(h)'
  <2>1. AloneOK(h)'
    <3>1. AloneOK(h)
      BY InvParts
    <3> QED BY <1>4, <3>1 DEF AloneOK, InRoundTrip, goVars
  <2> QED BY <1>3, <1>4, <2>1, OthersKeep DEF Stays, goVars
<1>6. ASSUME NEW r \in Requests PROVE OperationOK(r)' /\ ClosesOK(r)' /\ BodyOK(r)'
  BY <1>3, <1>4, OperationElse, ClosesElse, BodyElse
<1> QED BY <1>2, <1>5, <1>6 DEF Inv, Typed

LEMMA InvStutter ==
  ASSUME Inv, UNCHANGED vars
  PROVE  Inv'
<1>1. UNCHANGED <<closed, client, lifetime, held, ended, op, reg, upload, closer, closes, watch>>
      /\ UNCHANGED <<native, answer, shut, innerShut, readMu, terminal, delivered, finished>>
      /\ UNCHANGED <<at, req, then, err>>
  BY DEF vars, stateVars, ownVars, contextVars, uploadVars, bodyVars, goVars
<1>2. Typed' /\ OwnOK'
  <2>1. Typed'
    BY TypedNext, InvParts
  <2>2. OwnOK
    BY InvParts
  <2> QED BY <1>1, <2>1, <2>2 DEF OwnOK, Collected, InRoundTrip, Opened
<1>3. ASSUME NEW h \in Users
      PROVE  AloneOK(h)' /\ ContextOK(h)' /\ UploadOK(h)' /\ ReadOK(h)' /\ BlameOK(h)'
  <2>1. AloneOK(h) /\ ContextOK(h) /\ UploadOK(h) /\ ReadOK(h) /\ BlameOK(h)
    BY InvParts
  <2> QED BY <1>1, <2>1 DEF AloneOK, ContextOK, UploadOK, ReadOK, BlameOK, InRoundTrip, InRead,
          IsShut, Opened, OpEnded, Honest
<1>4. ASSUME NEW r \in Requests PROVE OperationOK(r)' /\ ClosesOK(r)' /\ BodyOK(r)'
  <2>1. OperationOK(r) /\ ClosesOK(r) /\ BodyOK(r)
    BY InvParts
  <2> QED BY <1>1, <2>1 DEF OperationOK, ClosesOK, BodyOK, IsShut, Opened, OpEnded, Honest,
          InBodyClose
<1> QED BY <1>2, <1>3, <1>4 DEF Inv, Typed

LEMMA InvNext ==
  ASSUME Inv, [Next]_vars
  PROVE  Inv'
BY Steps, InvGo, InvElse, InvStutter

LEMMA InvAlways == Spec => []Inv
BY InvInit, InvNext, PTL DEF Spec

-----------------------------------------------------------------------------
(* What follows for the callers of a Transport. *)

(* Whatever ends first, RoundTrip and Read report a real cause, and never  *)
(* the Client's symptom of one (transportError, mapError).                 *)
THEOREM CausesFirstAlways == Spec => []CausesFirst
<1>1. Inv => CausesFirst
  BY InvParts DEF CausesFirst, BodyOK
<1> QED BY <1>1, InvAlways, PTL

(* RoundTrip and the end of a context between them close an upload once,   *)
(* and it is closed before RoundTrip answers (closeUpload).                *)
THEOREM UploadClosedOnceAlways == Spec => []UploadClosedOnce
<1>1. ASSUME Inv PROVE UploadClosedOnce
  <2>1. ASSUME NEW r \in Requests PROVE ClosesOK(r)
    BY <1>1, InvParts
  <2> QED BY <2>1 DEF UploadClosedOnce, ClosesOK
<1> QED BY <1>1, InvAlways, PTL

(* A request that is over leaves nothing in the Client, no callback armed  *)
(* and no live context (finish, transportBody.Close).                      *)
THEOREM NothingLeaksAlways == Spec => []NothingLeaks
<1>1. ASSUME Inv, NEW r \in Requests, Over(r), \A g \in Users : req[g] # r
      PROVE  native[r] # "open" /\ reg[r] # "armed" /\ watch[r] # "armed" /\ op[r] # "live"
  <2>1. OperationOK(r) /\ ClosesOK(r) /\ BodyOK(r)
    BY <1>1, InvParts
  <2>2. watch[r] # "armed"
    BY <1>1, <2>1 DEF ClosesOK
  <2>3. r \in finished => reg[r] # "armed" /\ op[r] # "live"
    BY <2>1 DEF OperationOK, OpEnded
  <2>4. r \in shut => r \in finished /\ native[r] # "open"
    BY <1>1, <2>1 DEF BodyOK
  <2>5. terminal[r] # "none" => r \in finished /\ native[r] # "open"
    BY <2>1 DEF BodyOK
  <2>6. answer[r] \notin {"none", "awaited", "response"} =>
          native[r] # "open" /\ reg[r] # "armed" /\ op[r] # "live"
    BY <2>1 DEF OperationOK
  <2> QED BY <1>1, <2>2, <2>3, <2>4, <2>5, <2>6 DEF Over
<1>2. Inv => NothingLeaks
  BY <1>1 DEF NothingLeaks
<1> QED BY <1>2, InvAlways, PTL

(* A Transport that has been closed is empty and stays so, also if it was  *)
(* never used before (state, Transport.Close).                             *)
THEOREM ClosedForGoodAlways == Spec => []ClosedForGood
<1>1. ASSUME Inv PROVE ClosedForGood
  <2>1. OwnOK
    BY <1>1, InvParts
  <2> QED BY <2>1 DEF ClosedForGood, OwnOK, Closing
<1> QED BY <1>1, InvAlways, PTL

-----------------------------------------------------------------------------
(* Bodies. *)

LEMMA ContractQuiet ==
  ASSUME NEW r \in Requests,
         delivered'[r] = delivered[r], terminal'[r] = terminal[r], r \in shut' <=> r \in shut
  PROVE  [Contract(r)!Next]_(Contract(r)!vars)
BY DEF Contract!vars

(* A Read brings a chunk, or the body's end; Close closes it.              *)
LEMMA ContractGo ==
  ASSUME Inv, NEW g \in Users, GoStep(g), NEW r \in Requests
  PROVE  [Contract(r)!Next]_(Contract(r)!vars)
<1>0. TypeOK /\ HoldsOK(g) /\ ReadOK(g) /\ BlameOK(g)
  BY InvParts DEF Typed
<1> USE DEF stateVars, bodyVars
<1>1. CASE Call(g)
  <2>1. ASSUME NEW s \in Requests, RoundTrip(g, s) \/ ReadLock(g, s)
        PROVE  [Contract(r)!Next]_(Contract(r)!vars)
    BY <2>1, ContractQuiet DEF RoundTrip, ReadLock
  <2>2. ASSUME NEW s \in Requests, CloseBody(g, s) PROVE [Contract(r)!Next]_(Contract(r)!vars)
    <3>1. /\ UNCHANGED <<delivered, terminal>>
          /\ r = s => r \in shut'
          /\ r # s => (r \in shut' <=> r \in shut)
      BY <2>2 DEF CloseBody
    <3>2. CASE r = s
      BY <3>1, <3>2 DEF Contract!Next, Contract!Close
    <3> QED BY <3>1, <3>2, ContractQuiet
  <2>3. ASSUME Close(g) PROVE [Contract(r)!Next]_(Contract(r)!vars)
    BY <2>3, ContractQuiet DEF Close
  <2> QED BY <1>1, <2>1, <2>2, <2>3 DEF Call
<1>2. CASE RoundTripStep(g)
  BY <1>2, ContractQuiet DEF RoundTripStep, State, MakeContext, WatchUpload, Uploaded, Unwatch,
     Shut, UploadShut, Do, DoResponse, DoFails, Fail, Failed
<1>3. CASE MappingStep(g)
  BY <1>3, ContractQuiet DEF MappingStep, MapRequest, MapLifetime, MapOperation
<1>4. CASE ReadStep(g)
  <2>1. CASE ReadCheck(g) \/ ReadFails(g) \/ ReadFailed(g)
    BY <2>1, ContractQuiet DEF ReadCheck, ReadFails, ReadFailed
  <2>2. CASE ReadData(g)
    <3>1. UNCHANGED <<terminal, shut>>
      BY <2>2 DEF ReadData
    <3>2. CASE r # req[g]
      <4>1. delivered'[r] = delivered[r]
        BY <1>0, <2>2, <3>2 DEF ReadData, TypeOK
      <4> QED BY <3>1, <4>1, ContractQuiet
    <3>3. CASE r = req[g]
      <4>1. delivered'[r] = delivered[r] + 1 /\ delivered[r] < BodyLen /\ delivered[r] \in 0 .. BodyLen
        BY <1>0, <2>2, <3>3 DEF ReadData, TypeOK
      <4>2. delivered'[r] \in delivered[r] + 1 .. BodyLen
        BY <4>1, TransportAssumption
      <4>3. terminal[r] = "none"
        BY <1>0, <2>2, <3>3 DEF ReadData, ReadOK, InRead, Reading
      <4> QED BY <3>1, <4>2, <4>3 DEF Contract!Next, Contract!Deliver
    <3> QED BY <3>2, <3>3
  <2>3. CASE ReadEnd(g)
    <3>1. UNCHANGED <<delivered, shut>>
      BY <2>3 DEF ReadEnd
    <3>2. CASE r # req[g]
      <4>1. terminal'[r] = terminal[r]
        BY <1>0, <2>3, <3>2 DEF ReadEnd, TypeOK
      <4> QED BY <3>1, <4>1, ContractQuiet
    <3>3. CASE r = req[g]
      <4>1. terminal'[r] = err[g]
        BY <1>0, <2>3, <3>3 DEF ReadEnd, TypeOK
      <4>2. /\ terminal[r] = "none"
            /\ err[g] \in Causes \union Symptoms \union {"error", "eof", "ErrBodyClosed"}
            /\ err[g] = "eof" => delivered[r] = BodyLen
        BY <1>0, <2>3, <3>3 DEF ReadEnd, ReadOK, InRead, Reading
      <4>3. err[g] \notin Symptoms /\ (err[g] = "ErrBodyClosed" => r \in shut)
        BY <1>0, <2>3, <3>3 DEF ReadEnd, BlameOK, Honest
      <4> QED BY <3>1, <4>1, <4>2, <4>3 DEF Contract!Next, Contract!End
    <3> QED BY <3>2, <3>3
  <2> QED BY <1>4, <2>1, <2>2, <2>3 DEF ReadStep
<1>5. CASE CloseStep(g)
  BY <1>5, ContractQuiet DEF CloseStep, CloseInner, CloseFinish, CloseSteps
<1> QED BY <1>1, <1>2, <1>3, <1>4, <1>5 DEF GoStep

(* Every response body of a Transport is a BodyContract: bytes until the   *)
(* first terminal result, io.EOF only after the last of them, and closed   *)
(* only by its Close, whatever the collector does (transportBody).         *)
THEOREM BodiesImplementContract == Spec => BodiesKeepContract
<1>1. Init => \A r \in Requests : Contract(r)!Init
  BY DEF Init, Contract!Init
<1>2. ASSUME Inv, [Next]_vars
      PROVE  [\A r \in Requests : [Contract(r)!Next]_(Contract(r)!vars)]_vars
  <2> SUFFICES ASSUME NEW r \in Requests PROVE [Contract(r)!Next]_(Contract(r)!vars)
    OBVIOUS
  <2>1. ASSUME NEW g \in Users, GoStep(g) PROVE [Contract(r)!Next]_(Contract(r)!vars)
    BY <1>2, <2>1, ContractGo
  <2>2. CASE (\E s \in Requests : ContextStep(s)) \/ Drop \/ Collect \/ UNCHANGED vars
    BY <2>2, ContractQuiet DEF ContextStep, EndRequest, TimeOut, Propagate, EndLifetime,
       FreeNative, FireUpload, FiredShut, Drop, Collect, bodyVars, vars, stateVars
  <2> QED BY <1>2, <2>1, <2>2, Steps
<1> QED BY <1>1, <1>2, InvAlways, PTL DEF Spec, BodiesKeepContract
=============================================================================
