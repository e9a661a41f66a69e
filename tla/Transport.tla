------------------------------ MODULE Transport ------------------------------
(***************************************************************************)
(* httpclient.Transport (transport.go): the http.RoundTripper over one     *)
(* Client.  Goroutines run RoundTrip, read and close response bodies, and  *)
(* close the Transport; the contexts of a request end on their own, the    *)
(* program drops the Transport, and the collector cleans up after it.      *)
(*                                                                         *)
(* Of the Client beneath, this module keeps what HttpClient establishes:   *)
(* Close releases everything before anybody sees the client closed, and a  *)
(* failure is blamed on the context, then on the client.  Here both blames *)
(* are symptoms: "ctx" and "ErrClientClosed".                              *)
(***************************************************************************)
EXTENDS Naturals

CONSTANTS Users,      \* goroutines of the program
          NoUser,
          Requests,   \* requests, one RoundTrip each
          NoRequest,
          BodyLen     \* chunks in a response body

ASSUME TransportAssumption ==
  /\ NoUser \notin Users
  /\ NoRequest \notin Requests
  /\ BodyLen \in Nat

VARIABLES
  closed,     \* Transport.closed
  client,     \* Transport.client: "none", "open", or "closed"
  lifetime,   \* Transport.lifetime: "none", "live" or "done"
  held,       \* the program still refers to the Transport
  ended,      \* requests whose own context has ended
  op,         \* the operation context: "unset", "live", or its cause
  reg,        \* AfterFunc(lifetime, ...), which cancels it
  upload,     \* Request.Body: "none", "open", "closing" or "closed"
  closer,     \* who runs closeUpload, NoUser for the callback
  closes,     \* calls of Request.Body.Close (history)
  watch,      \* AfterFunc(ctx, closeUpload)
  native,     \* the Client's request: "none", "open" or "freed"
  answer,     \* what RoundTrip returned
  shut,       \* bodies with transportBody.closed set
  innerShut,  \* bodies whose inner Close ran
  readMu,     \* who holds transportBody.readMu
  terminal,   \* transportBody.terminal
  finished,   \* requests whose finish has run
  delivered,  \* chunks handed to readers
  at,         \* where a goroutine is
  req,        \* the request it works on
  then,       \* the call of mapError it is in
  err         \* the error it holds, "nil" for none

ownVars == <<closed, client, lifetime, held>>
contextVars == <<ended, op, reg>>
uploadVars == <<upload, closer, closes, watch>>
bodyVars == <<shut, innerShut, readMu, terminal, delivered>>
stateVars == <<ownVars, contextVars, uploadVars, native, answer, bodyVars, finished>>
goVars == <<at, req, then, err>>
vars == <<stateVars, goVars>>

Causes == {"request", "ErrTransportClosed", "deadline", "legacy", "finished"}
Symptoms == {"ctx", "ErrClientClosed"}
Errors == Causes \union Symptoms \union
          {"eof", "error", "upload", "native", "invalid", "ErrBodyClosed"}
RoundTripping == {"state", "context", "upload", "uploading", "unwatch", "shut", "do",
                  "doing", "fail", "failShut"}
Mapping == {"mapRequest", "mapLifetime", "mapOperation"}
Reading == {"rdCheck", "rdInner", "rdFailed", "rdEnd"}
Closing == {"tcCancel", "tcClient"}
Registrations == {"unset", "armed", "stopped", "fired"}

TypeOK ==
  /\ closed \in BOOLEAN /\ held \in BOOLEAN
  /\ client \in {"none", "open", "closed"}
  /\ lifetime \in {"none", "live", "done"}
  /\ ended \subseteq Requests
  /\ op \in [Requests -> Causes \union {"unset", "live"}]
  /\ reg \in [Requests -> Registrations] /\ watch \in [Requests -> Registrations]
  /\ upload \in [Requests -> {"none", "open", "closing", "closed"}]
  /\ closer \in [Requests -> Users \union {NoUser}]
  /\ closes \in [Requests -> Nat]
  /\ native \in [Requests -> {"none", "open", "freed"}]
  /\ answer \in [Requests -> Errors \union {"none", "awaited", "response"}]
  /\ shut \subseteq Requests /\ innerShut \subseteq shut /\ finished \subseteq Requests
  /\ readMu \in [Requests -> Users \union {NoUser}]
  /\ terminal \in [Requests -> Errors \union {"none"}]
  /\ delivered \in [Requests -> 0 .. BodyLen]
  /\ at \in [Users -> RoundTripping \union Mapping \union Reading \union Closing
                        \union {"idle", "bcInner", "bcFinish"}]
  /\ req \in [Users -> Requests \union {NoRequest}]
  /\ then \in [Users -> {"none", "begun", "uploaded", "doing", "reading"}]
  /\ err \in [Users -> Errors \union {"nil"}]

(* A zero Transport, or one that NewTransport made. *)
Init ==
  /\ closed = FALSE
  /\ held = TRUE
  /\ \/ client = "none" /\ lifetime = "none"
     \/ client = "open" /\ lifetime = "live"
  /\ ended = {}
  /\ op = [r \in Requests |-> "unset"]
  /\ reg = [r \in Requests |-> "unset"]
  /\ upload = [r \in Requests |-> "none"]
  /\ closer = [r \in Requests |-> NoUser]
  /\ closes = [r \in Requests |-> 0]
  /\ watch = [r \in Requests |-> "unset"]
  /\ native = [r \in Requests |-> "none"]
  /\ answer = [r \in Requests |-> "none"]
  /\ shut = {} /\ innerShut = {} /\ finished = {}
  /\ readMu = [r \in Requests |-> NoUser]
  /\ terminal = [r \in Requests |-> "none"]
  /\ delivered = [r \in Requests |-> 0]
  /\ at = [g \in Users |-> "idle"]
  /\ req = [g \in Users |-> NoRequest]
  /\ then = [g \in Users |-> "none"]
  /\ err = [g \in Users |-> "nil"]

-----------------------------------------------------------------------------
Opened(r) == answer[r] = "response"
OpEnded(r) == op[r] \notin {"unset", "live"}

Go(g, p) == at' = [at EXCEPT ![g] = p] /\ UNCHANGED <<req, then, err>>

GoWith(g, p, e) ==
  /\ at' = [at EXCEPT ![g] = p]
  /\ err' = [err EXCEPT ![g] = e]
  /\ UNCHANGED <<req, then>>

Begin(g, r, p) ==
  /\ at[g] = "idle"
  /\ at' = [at EXCEPT ![g] = p]
  /\ req' = [req EXCEPT ![g] = r]
  /\ UNCHANGED <<then, err>>

Return(g) ==
  /\ at' = [at EXCEPT ![g] = "idle"]
  /\ req' = [req EXCEPT ![g] = NoRequest]
  /\ then' = [then EXCEPT ![g] = "none"]
  /\ err' = [err EXCEPT ![g] = "nil"]

(* Calls mapError on e, on behalf of the place named by c. *)
Map(g, c, e) ==
  /\ at' = [at EXCEPT ![g] = "mapRequest"]
  /\ then' = [then EXCEPT ![g] = c]
  /\ err' = [err EXCEPT ![g] = e]
  /\ UNCHANGED req

(* What follows mapError's answer e: the RoundTrip or the Read fails with  *)
(* it, or the RoundTrip goes on.                                           *)
Mapped(g, e) ==
  GoWith(g, IF then[g] = "reading" THEN "rdEnd"
            ELSE IF e # "nil" THEN "fail"
            ELSE IF then[g] = "begun" /\ upload[req[g]] # "none" THEN "upload"
            ELSE "do", e)

Stopped(f, r) == [f EXCEPT ![r] = IF @ = "armed" THEN "stopped" ELSE @]

(* The operation context ends; the first cause stays. *)
EndOp(r, c) == op' = [op EXCEPT ![r] = IF @ = "live" THEN c ELSE @]

(* finish: leaves the lifetime, ends the operation, drops the Transport.   *)
Finish(r) ==
  /\ finished' = finished \union {r}
  /\ reg' = Stopped(reg, r)
  /\ EndOp(r, "finished")

(* How the Client reports the failure e of a request (requestError).       *)
Blamed(r, e) ==
  IF r \in innerShut THEN "ErrBodyClosed"
  ELSE IF OpEnded(r) THEN "ctx"
  ELSE IF client = "closed" THEN "ErrClientClosed"
  ELSE e

-----------------------------------------------------------------------------
(* RoundTrip *)

(* Its arguments are rejected at once, or accepted. *)
RoundTrip(g, r) ==
  /\ held
  /\ answer[r] = "none"
  /\ answer' = [answer EXCEPT ![r] = "awaited"]
  /\ \E u \in {"none", "open"} : upload' = [upload EXCEPT ![r] = u]
  /\ at[g] = "idle"
  /\ req' = [req EXCEPT ![g] = r]
  /\ \/ at' = [at EXCEPT ![g] = "state"] /\ UNCHANGED err
     \/ at' = [at EXCEPT ![g] = "failShut"] /\ err' = [err EXCEPT ![g] = "invalid"]
  /\ UNCHANGED <<ownVars, contextVars, closer, closes, watch, native, bodyVars, finished, then>>

(* Slip: a zero Transport is made usable before it is looked at. *)
StateUnchecked(g) ==
  /\ at[g] = "state"
  /\ IF client = "none" THEN client' = "open" /\ lifetime' = "live"
                        ELSE UNCHANGED <<client, lifetime>>
  /\ IF closed THEN GoWith(g, "failShut", "ErrTransportClosed") ELSE Go(g, "context")
  /\ UNCHANGED <<closed, held, contextVars, uploadVars, native, answer, bodyVars, finished>>

(* state, under mu: a zero Transport makes its client, or fails to.        *)
State(g) ==
  /\ at[g] = "state"
  /\ \/ closed /\ GoWith(g, "failShut", "ErrTransportClosed") /\ UNCHANGED <<client, lifetime>>
     \/ /\ ~closed
        /\ client # "none"
        /\ Go(g, "context")
        /\ UNCHANGED <<client, lifetime>>
     \/ /\ ~closed
        /\ client = "none"
        /\ \/ client' = "open" /\ lifetime' = "live" /\ Go(g, "context")
           \/ GoWith(g, "failShut", "native") /\ UNCHANGED <<client, lifetime>>
  /\ UNCHANGED <<closed, held, contextVars, uploadVars, native, answer, bodyVars, finished>>

(* transportContext, and mapError on what it says already. *)
MakeContext(g) ==
  LET r == req[g] IN
  /\ at[g] = "context"
  /\ \E c \in IF r \in ended THEN {"request"} ELSE {"live", "legacy"} :
       /\ op' = [op EXCEPT ![r] = c]
       /\ Map(g, "begun", IF c = "live" THEN "nil" ELSE "ctx")
  /\ reg' = [reg EXCEPT ![r] = "armed"]
  /\ UNCHANGED <<ownVars, ended, uploadVars, native, answer, bodyVars, finished>>

(* transportError asks three contexts in turn, any of which may end in the *)
(* meantime.                                                               *)
MapRequest(g) ==
  /\ at[g] = "mapRequest"
  /\ IF req[g] \in ended THEN Mapped(g, "request") ELSE Go(g, "mapLifetime")
  /\ UNCHANGED stateVars

MapLifetime(g) ==
  /\ at[g] = "mapLifetime"
  /\ IF lifetime = "done" THEN Mapped(g, "ErrTransportClosed") ELSE Go(g, "mapOperation")
  /\ UNCHANGED stateVars

MapOperation(g) ==
  /\ at[g] = "mapOperation"
  /\ Mapped(g, IF OpEnded(req[g]) THEN op[req[g]] ELSE err[g])
  /\ UNCHANGED stateVars

(* Slip: nothing closes the upload early. *)
WatchUploadNot(g) ==
  /\ at[g] = "upload"
  /\ Go(g, "uploading")
  /\ UNCHANGED stateVars

(* io.ReadAll(upload), while the end of the context closes it. *)
WatchUpload(g) ==
  /\ at[g] = "upload"
  /\ watch' = [watch EXCEPT ![req[g]] = "armed"]
  /\ Go(g, "uploading")
  /\ UNCHANGED <<ownVars, contextVars, upload, closer, closes, native, answer, bodyVars, finished>>

Uploaded(g) ==
  /\ at[g] = "uploading"
  /\ \E e \in {"nil", "upload"} : GoWith(g, "unwatch", e)
  /\ UNCHANGED stateVars

(* Closing an upload unblocks whoever reads it: RoundTrip's requirement.   *)
UploadInterrupted(g) == at[g] = "uploading" /\ upload[req[g]] = "closed" /\ Uploaded(g)

Unwatch(g) ==
  /\ at[g] = "unwatch"
  /\ watch' = Stopped(watch, req[g])
  /\ Go(g, "shut")
  /\ UNCHANGED <<ownVars, contextVars, upload, closer, closes, native, answer, bodyVars, finished>>

(* closeUpload runs Close once; whoever comes second waits for the first.  *)
BeginShut(r, who) ==
  /\ upload' = [upload EXCEPT ![r] = "closing"]
  /\ closer' = [closer EXCEPT ![r] = who]
  /\ closes' = [closes EXCEPT ![r] = @ + 1]

(* Slip: without OnceFunc. *)
ShutAnyway(g) ==
  LET r == req[g] IN
  /\ at[g] \in {"shut", "failShut"}
  /\ \/ upload[r] # "none" /\ closer[r] # g /\ BeginShut(r, g)
     \/ /\ upload[r] = "closing"
        /\ closer[r] = g
        /\ upload' = [upload EXCEPT ![r] = "closed"]
        /\ UNCHANGED <<closer, closes>>
  /\ UNCHANGED <<ownVars, contextVars, watch, native, answer, bodyVars, finished, goVars>>

Shut(g) ==
  LET r == req[g] IN
  /\ at[g] \in {"shut", "failShut"}
  /\ \/ upload[r] = "open" /\ BeginShut(r, g)
     \/ /\ upload[r] = "closing"
        /\ closer[r] = g
        /\ upload' = [upload EXCEPT ![r] = "closed"]
        /\ UNCHANGED <<closer, closes>>
  /\ UNCHANGED <<ownVars, contextVars, watch, native, answer, bodyVars, finished, goVars>>

IsShut(r) == upload[r] \in {"none", "closed"}

UploadShut(g) ==
  /\ at[g] = "shut"
  /\ IsShut(req[g])
  /\ Map(g, "uploaded", err[g])
  /\ UNCHANGED stateVars

(* The buffered body may disagree with ContentLength; otherwise Client.Do. *)
Do(g) ==
  LET r == req[g] IN
  /\ at[g] = "do"
  /\ \/ GoWith(g, "fail", "invalid") /\ UNCHANGED native
     \/ /\ OpEnded(r) \/ client # "open"
        /\ Map(g, "doing", Blamed(r, "error"))
        /\ UNCHANGED native
     \/ /\ ~OpEnded(r) /\ client = "open"
        /\ native' = [native EXCEPT ![r] = "open"]
        /\ Go(g, "doing")
  /\ UNCHANGED <<ownVars, contextVars, uploadVars, answer, bodyVars, finished>>

(* A response, in a protocol that net/http can represent or not. *)
DoResponse(g) ==
  LET r == req[g] IN
  /\ at[g] = "doing"
  /\ native[r] = "open"
  /\ \/ answer' = [answer EXCEPT ![r] = "response"] /\ Return(g) /\ UNCHANGED <<native, innerShut>>
     \/ /\ native' = [native EXCEPT ![r] = "freed"]
        /\ GoWith(g, "fail", "invalid")
        /\ UNCHANGED <<answer, innerShut>>
  /\ UNCHANGED <<ownVars, contextVars, uploadVars, shut, readMu, terminal, delivered, finished>>

DoFails(g) ==
  LET r == req[g] IN
  /\ at[g] = "doing"
  /\ native' = [native EXCEPT ![r] = "freed"]
  /\ Map(g, "doing", Blamed(r, "error"))
  /\ UNCHANGED <<ownVars, contextVars, uploadVars, answer, bodyVars, finished>>

DoInterrupted(g) == at[g] = "doing" /\ native[req[g]] = "freed" /\ DoFails(g)

(* Slip: a request that fails keeps its context. *)
FailOnly(g) ==
  /\ at[g] = "fail"
  /\ Go(g, "failShut")
  /\ UNCHANGED stateVars

(* The deferred calls of a RoundTrip that fails: finish, then closeUpload. *)
Fail(g) ==
  /\ at[g] = "fail"
  /\ Finish(req[g])
  /\ Go(g, "failShut")
  /\ UNCHANGED <<ownVars, ended, uploadVars, native, answer, bodyVars>>

Failed(g) ==
  /\ at[g] = "failShut"
  /\ IsShut(req[g])
  /\ answer' = [answer EXCEPT ![req[g]] = err[g]]
  /\ Return(g)
  /\ UNCHANGED <<ownVars, contextVars, uploadVars, native, bodyVars, finished>>

-----------------------------------------------------------------------------
(* transportBody.Read *)

Unlocked(r) == readMu' = [readMu EXCEPT ![r] = NoUser]

ReadLock(g, r) ==
  /\ Opened(r)
  /\ readMu[r] = NoUser
  /\ readMu' = [readMu EXCEPT ![r] = g]
  /\ Begin(g, r, "rdCheck")
  /\ UNCHANGED <<ownVars, contextVars, uploadVars, native, answer, shut, innerShut,
                 terminal, delivered, finished>>

ReadCheck(g) ==
  LET r == req[g] IN
  /\ at[g] = "rdCheck"
  /\ IF r \notin shut /\ terminal[r] = "none" THEN Go(g, "rdInner") /\ UNCHANGED readMu
                                              ELSE Unlocked(r) /\ Return(g)
  /\ UNCHANGED <<ownVars, contextVars, uploadVars, native, answer, shut, innerShut,
                 terminal, delivered, finished>>

(* The inner body answers with bytes... *)
ReadData(g) ==
  LET r == req[g] IN
  /\ at[g] = "rdInner"
  /\ native[r] = "open"
  /\ delivered[r] < BodyLen
  /\ delivered' = [delivered EXCEPT ![r] = @ + 1]
  /\ Unlocked(r)
  /\ Return(g)
  /\ UNCHANGED <<ownVars, contextVars, uploadVars, native, answer, shut, innerShut,
                 terminal, finished>>

(* ...or ends, which frees its request. *)
ReadFails(g) ==
  LET r == req[g] IN
  /\ at[g] = "rdInner"
  /\ native' = [native EXCEPT ![r] = "freed"]
  /\ \E e \in {"error"} \union IF native[r] = "open" /\ delivered[r] = BodyLen
                               THEN {"eof"} ELSE {} :
       GoWith(g, "rdFailed", Blamed(r, e))
  /\ UNCHANGED <<ownVars, contextVars, uploadVars, answer, bodyVars, finished>>

ReadInterrupted(g) == at[g] = "rdInner" /\ native[req[g]] = "freed" /\ ReadFails(g)

ReadFailed(g) ==
  /\ at[g] = "rdFailed"
  /\ IF req[g] \in shut THEN GoWith(g, "rdEnd", "ErrBodyClosed")
                        ELSE Map(g, "reading", err[g])
  /\ UNCHANGED stateVars

ReadEnd(g) ==
  LET r == req[g] IN
  /\ at[g] = "rdEnd"
  /\ terminal' = [terminal EXCEPT ![r] = err[g]]
  /\ Finish(r)
  /\ Unlocked(r)
  /\ Return(g)
  /\ UNCHANGED <<ownVars, ended, uploadVars, native, answer, shut, innerShut, delivered>>

-----------------------------------------------------------------------------
(* transportBody.Close, which does its three steps every time.             *)

CloseBody(g, r) ==
  /\ Opened(r)
  /\ shut' = shut \union {r}
  /\ Begin(g, r, "bcInner")
  /\ UNCHANGED <<ownVars, contextVars, uploadVars, native, answer, innerShut, readMu,
                 terminal, delivered, finished>>

CloseInner(g) ==
  LET r == req[g] IN
  /\ at[g] = "bcInner"
  /\ innerShut' = innerShut \union {r}
  /\ native' = [native EXCEPT ![r] = "freed"]
  /\ Go(g, "bcFinish")
  /\ UNCHANGED <<ownVars, contextVars, uploadVars, answer, shut, readMu, terminal,
                 delivered, finished>>

CloseFinish(g) ==
  /\ at[g] = "bcFinish"
  /\ Finish(req[g])
  /\ Return(g)
  /\ UNCHANGED <<ownVars, ended, uploadVars, native, answer, bodyVars>>

-----------------------------------------------------------------------------
(* Transport.Close marks, cancels the lifetime, then closes the client.    *)

Close(g) ==
  /\ held
  /\ at[g] = "idle"
  /\ ~closed   \* otherwise it returns at once
  /\ closed' = TRUE
  /\ Begin(g, NoRequest, "tcCancel")
  /\ UNCHANGED <<client, lifetime, held, contextVars, uploadVars, native, answer, bodyVars, finished>>

Ended(l) == IF l = "live" THEN "done" ELSE l
ClientGone ==
  /\ client' = IF client = "open" THEN "closed" ELSE client
  /\ native' = [r \in Requests |-> IF native[r] = "open" THEN "freed" ELSE native[r]]

(* Slip: the client first. *)
CloseCancelLast(g) ==
  /\ \/ at[g] = "tcCancel" /\ ClientGone /\ Go(g, "tcClient") /\ UNCHANGED lifetime
     \/ at[g] = "tcClient" /\ lifetime' = Ended(lifetime) /\ Return(g) /\ UNCHANGED <<client, native>>
  /\ UNCHANGED <<closed, held, contextVars, uploadVars, answer, bodyVars, finished>>

CloseSteps(g) ==
  /\ \/ at[g] = "tcCancel" /\ lifetime' = Ended(lifetime) /\ Go(g, "tcClient") /\ UNCHANGED <<client, native>>
     \/ at[g] = "tcClient" /\ ClientGone /\ Return(g) /\ UNCHANGED lifetime
  /\ UNCHANGED <<closed, held, contextVars, uploadVars, answer, bodyVars, finished>>

-----------------------------------------------------------------------------
(* What happens without a goroutine of the program. *)

EndRequest(r) ==
  /\ r \notin ended
  /\ ended' = ended \union {r}
  /\ UNCHANGED <<ownVars, op, reg, uploadVars, native, answer, bodyVars, finished, goVars>>

(* The end of the request's context reaches the operation's. *)
Propagate(r) ==
  /\ r \in ended /\ op[r] = "live"
  /\ EndOp(r, "request")
  /\ UNCHANGED <<ownVars, ended, reg, uploadVars, native, answer, bodyVars, finished, goVars>>

(* So do the timeout and Request.Cancel, if the request has them. *)
TimeOut(r) ==
  /\ op[r] = "live"
  /\ \E c \in {"deadline", "legacy"} : EndOp(r, c)
  /\ UNCHANGED <<ownVars, ended, reg, uploadVars, native, answer, bodyVars, finished, goVars>>

EndLifetime(r) ==
  /\ reg[r] = "armed" /\ lifetime = "done"
  /\ reg' = [reg EXCEPT ![r] = "fired"]
  /\ EndOp(r, "ErrTransportClosed")
  /\ UNCHANGED <<ownVars, ended, uploadVars, native, answer, bodyVars, finished, goVars>>

(* The Client's own AfterFunc on the operation context. *)
FreeNative(r) ==
  /\ native[r] = "open" /\ OpEnded(r)
  /\ native' = [native EXCEPT ![r] = "freed"]
  /\ UNCHANGED <<ownVars, contextVars, uploadVars, answer, bodyVars, finished, goVars>>

(* It comes first: RoundTrip unregisters it before it closes the upload.   *)
FireUpload(r) ==
  /\ watch[r] = "armed" /\ OpEnded(r)
  /\ watch' = [watch EXCEPT ![r] = "fired"]
  /\ BeginShut(r, NoUser)
  /\ UNCHANGED <<ownVars, contextVars, native, answer, bodyVars, finished, goVars>>

FiredShut(r) ==
  /\ upload[r] = "closing" /\ closer[r] = NoUser
  /\ upload' = [upload EXCEPT ![r] = "closed"]
  /\ UNCHANGED <<ownVars, contextVars, closer, closes, watch, native, answer, bodyVars, finished, goVars>>

Drop ==
  /\ held
  /\ held' = FALSE
  /\ UNCHANGED <<closed, client, lifetime, contextVars, uploadVars, native, answer, bodyVars,
                 finished, goVars>>

(* A RoundTrip, a Close and an unfinished response refer to the Transport. *)
(* Slip: responses do not.                                                 *)
InUseByCalls == \E g \in Users : at[g] \in RoundTripping \union Closing \union Mapping

InUse ==
  \/ \E g \in Users : at[g] \in RoundTripping \union Closing \union Mapping
  \/ \E r \in Requests : Opened(r) /\ r \notin finished

(* The collector runs cleanupTransport, which Close had it forget. *)
Collect ==
  /\ ~held /\ ~InUse /\ ~closed
  /\ client = "open"
  /\ ClientGone
  /\ UNCHANGED <<closed, lifetime, held, contextVars, uploadVars, answer, bodyVars, finished, goVars>>

-----------------------------------------------------------------------------
(* What callers decide, what goes on by itself, and what the network, the  *)
(* upload and the contexts owe nobody.                                     *)
Call(g) ==
  \/ \E r \in Requests : RoundTrip(g, r) \/ ReadLock(g, r) \/ CloseBody(g, r)
  \/ Close(g)

Continue(g) ==
  \/ State(g) \/ MakeContext(g) \/ MapRequest(g) \/ MapLifetime(g) \/ MapOperation(g)
  \/ WatchUpload(g) \/ UploadInterrupted(g) \/ Unwatch(g) \/ Shut(g) \/ UploadShut(g)
  \/ Do(g) \/ DoInterrupted(g) \/ Fail(g) \/ Failed(g)
  \/ ReadCheck(g) \/ ReadInterrupted(g) \/ ReadFailed(g) \/ ReadEnd(g)
  \/ CloseInner(g) \/ CloseFinish(g) \/ CloseSteps(g)

Callbacks(r) == Propagate(r) \/ EndLifetime(r) \/ FreeNative(r) \/ FireUpload(r) \/ FiredShut(r)

Environment ==
  \/ \E g \in Users : Uploaded(g) \/ DoResponse(g) \/ DoFails(g) \/ ReadData(g) \/ ReadFails(g)
  \/ \E r \in Requests : EndRequest(r) \/ TimeOut(r)
  \/ Drop \/ Collect

Next ==
  \/ \E g \in Users : Call(g) \/ Continue(g)
  \/ \E r \in Requests : Callbacks(r)
  \/ Environment

Spec == Init /\ [][Next]_vars

(* Goroutines that can run do, and so does what a context's end starts.    *)
FairSpec ==
  /\ Spec
  /\ \A g \in Users : WF_vars(Continue(g))
  /\ \A r \in Requests : WF_vars(Callbacks(r))

-----------------------------------------------------------------------------
(* In whatever order three contexts, the client and the network fail, the  *)
(* caller is told a cause that is real, never the Client's symptom of it.  *)
(* Only a Read that its own Close overtook sees the operation end for no   *)
(* other reason than that it was finished.                                 *)
Honest(e, r) ==
  /\ e \notin Symptoms
  /\ e = "request" => r \in ended
  /\ e = "ErrTransportClosed" => closed
  /\ e \in {"deadline", "legacy"} => op[r] = e
  /\ e \in {"finished", "ErrBodyClosed"} => r \in shut

CausesFirst == \A r \in Requests : Honest(answer[r], r) /\ Honest(terminal[r], r)

(* However cancellation and RoundTrip race, the upload's Close is called   *)
(* once, and has returned when RoundTrip fails or hands out a response.    *)
UploadClosedOnce ==
  \A r \in Requests :
    /\ closes[r] <= 1
    /\ answer[r] \notin {"none", "awaited"} => IsShut(r)

(* A request that is over, with nobody at work on it, has left the client, *)
(* the lifetime and its upload, and its context has ended, which ends the  *)
(* goroutine that waits for Request.Cancel.                                *)
Over(r) == answer[r] \notin {"none", "awaited", "response"} \/ terminal[r] # "none" \/ r \in shut

NothingLeaks ==
  \A r \in Requests :
    Over(r) /\ (\A g \in Users : req[g] # r) =>
      native[r] # "open" /\ reg[r] # "armed" /\ watch[r] # "armed" /\ op[r] # "live"

(* Once Close is through nothing of the Transport is left, and nothing is  *)
(* made any more, by a zero Transport's first RoundTrip either.  (Another  *)
(* Close that comes in between returns before that.)                       *)
ClosedForGood ==
  closed /\ (\A g \in Users : at[g] \notin Closing) =>
    client # "open" /\ lifetime # "live" /\ \A r \in Requests : native[r] # "open"

(* A body keeps BodyContract, on a Transport that the program has dropped  *)
(* as well: collecting it takes no response away.                          *)
Contract(r) == INSTANCE BodyContract WITH
                 Length <- BodyLen,
                 Reasons <- Causes \union {"error"},
                 delivered <- delivered[r], terminal <- terminal[r], closed <- (r \in shut)

BodiesKeepContract ==
  /\ \A r \in Requests : Contract(r)!Init
  /\ [][\A r \in Requests : [Contract(r)!Next]_(Contract(r)!vars)]_vars

(* Close, and the end of a request's context, interrupt whatever the       *)
(* request is doing, a blocked upload included, and take it out of the     *)
(* client also when nobody reads its body.                                 *)
CloseInterrupts ==
  /\ \A g \in Users :
       (at[g] # "idle" /\ (closed \/ req[g] \in ended \union shut)) ~> at[g] = "idle"
  /\ \A r \in Requests : (closed \/ r \in ended) ~> native[r] # "open"
=============================================================================
