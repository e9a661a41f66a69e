----------------------------- MODULE HttpBridge -----------------------------
(***************************************************************************)
(* The HTTP half of the Rust bridge (rust/src/http_client.rs): the         *)
(* registry of clients and calls behind one mutex, the cancellation        *)
(* tokens, and the life of a call: Ready, then sent and Streaming, then    *)
(* Done.                                                                   *)
(*                                                                         *)
(* A thread is a caller blocked in an exported function, together with the *)
(* Tokio task that runs its future.  Every step of a thread is one access  *)
(* to the shared state: a critical section of the registry mutex, a token  *)
(* cancelled, the biased cancellation check of select!, one stretch of the *)
(* future between two suspensions.  The check and the stretch it allows    *)
(* are two steps, because another thread can cancel in between.            *)
(*                                                                         *)
(* Arguments have passed validation: a rejected one touches nothing.  The  *)
(* bytes of a body are named by their position, 1 .. BodyLen.              *)
(***************************************************************************)
EXTENDS Naturals, Sequences

CONSTANTS Threads,
          NoThread,
          MaxId,      \* the largest handle: stands for u64::MAX
          BodyLen,    \* bytes in every response body
          MaxRead     \* bytes a read may ask for: stands for 64 KiB

ASSUME BridgeAssumption ==
  /\ NoThread \notin Threads
  /\ MaxId \in Nat
  /\ BodyLen \in Nat
  /\ MaxRead \in Nat \ {0}

VARIABLES
  nextId,     \* Registry.next_id
  clients,    \* keys of Registry.clients
  calls,      \* keys of Registry.calls
  owner,      \* Call.client_id of every call ever made, 0 for the rest
  cancelled,  \* clients and calls whose own token was cancelled
  phase,      \* Call.phase
  lock,       \* the thread that holds the mutex around Call.phase
  pending,    \* Phase::Streaming.pending
  fetched,    \* how much of the body the stream has produced
  pc,         \* where each thread is
  op,         \* its current or last operation
  arg,        \* the handle that operation works on, or made
  res,        \* the result of the last operation
  \* History, read by the properties only:
  sends,      \* times each request was put on the network
  out,        \* bytes returned to callers of read, in order
  failed      \* calls whose send or stream failed

registryVars == <<nextId, clients, calls, owner>>
callVars == <<phase, lock, pending, fetched>>
history == <<sends, out, failed>>
threadVars == <<pc, op, arg, res>>
vars == <<registryVars, cancelled, callVars, history, threadVars>>

Ids == 1 .. MaxId
Results == {"none", "handle", "data", "eof", "closed", "cancelled",
            "invalid_input", "internal", "error"}
Ops == {"none", "create", "close", "create_request", "close_request",
        "send", "read"}
Places == {"idle", "build", "cancel", "poll", "body"}

RegistryOK ==
  /\ nextId \in 0 .. MaxId
  /\ clients \subseteq Ids
  /\ calls \subseteq Ids
  /\ owner \in [Ids -> 0 .. MaxId]
  /\ cancelled \subseteq Ids

CallsOK ==
  /\ phase \in [Ids -> {"Ready", "Streaming", "Done"}]
  /\ lock \in [Ids -> Threads \union {NoThread}]
  /\ pending \in [Ids -> Seq(1 .. BodyLen)]
  /\ fetched \in [Ids -> 0 .. BodyLen]
  /\ sends \in [Ids -> Nat]
  /\ out \in [Ids -> Seq(1 .. BodyLen)]
  /\ failed \subseteq Ids

ThreadsOK ==
  /\ pc \in [Threads -> Places]
  /\ op \in [Threads -> Ops]
  /\ arg \in [Threads -> 0 .. MaxId]
  /\ res \in [Threads -> Results]
  /\ \A t \in Threads : pc[t] # "idle" => arg[t] \in Ids

TypeOK == RegistryOK /\ CallsOK /\ ThreadsOK

NoCalls ==
  /\ calls = {}
  /\ owner = [h \in Ids |-> 0]
  /\ cancelled = {}
  /\ phase = [h \in Ids |-> "Ready"]
  /\ lock = [h \in Ids |-> NoThread]
  /\ pending = [h \in Ids |-> <<>>]
  /\ fetched = [h \in Ids |-> 0]
  /\ pc = [t \in Threads |-> "idle"]
  /\ op = [t \in Threads |-> "none"]
  /\ arg = [t \in Threads |-> 0]
  /\ res = [t \in Threads |-> "none"]
  /\ sends = [h \in Ids |-> 0]
  /\ out = [h \in Ids |-> <<>>]
  /\ failed = {}

Init ==
  /\ nextId = 0
  /\ clients = {}
  /\ NoCalls

(* Slip: a call gets a token of its own instead of a child token. *)
IsCancelledAlone(h) == h \in cancelled

(* A call's token is a child of its client's. *)
IsCancelled(h) == h \in cancelled \/ (h \in Ids /\ owner[h] \in cancelled)

-----------------------------------------------------------------------------
(* How a thread enters, moves in and leaves an exported function. *)

Start(t, o, h, p) ==
  /\ pc[t] = "idle"
  /\ pc' = [pc EXCEPT ![t] = p]
  /\ op' = [op EXCEPT ![t] = o]
  /\ arg' = [arg EXCEPT ![t] = h]
  /\ res' = [res EXCEPT ![t] = "none"]

(* The whole function is one step. *)
StartAndReturn(t, o, h, r) ==
  /\ pc[t] = "idle"
  /\ op' = [op EXCEPT ![t] = o]
  /\ arg' = [arg EXCEPT ![t] = h]
  /\ res' = [res EXCEPT ![t] = r]
  /\ UNCHANGED pc

Goto(t, p) ==
  /\ pc' = [pc EXCEPT ![t] = p]
  /\ UNCHANGED <<op, arg, res>>

Return(t, r) ==
  /\ pc' = [pc EXCEPT ![t] = "idle"]
  /\ res' = [res EXCEPT ![t] = r]
  /\ UNCHANGED <<op, arg>>

-----------------------------------------------------------------------------
(* Registry operations. *)

(* Slip: a counter that wraps. *)
IssueWrapping(h) ==
  /\ h = (nextId % MaxId) + 1
  /\ nextId' = h

(* Registry::next: clients and calls draw from one counter, which reports   *)
(* exhaustion instead of wrapping.                                          *)
Issue(h) ==
  /\ nextId < MaxId
  /\ h = nextId + 1
  /\ nextId' = h

Exhausted == nextId = MaxId

Create(t) ==
  /\ \/ \E h \in Ids :
          /\ Issue(h)
          /\ clients' = clients \union {h}
          /\ StartAndReturn(t, "create", h, "handle")
     \/ /\ Exhausted
        /\ StartAndReturn(t, "create", 0, "internal")
        /\ UNCHANGED <<nextId, clients>>
  /\ UNCHANGED <<calls, owner, cancelled, callVars, history>>

CallsOf(c) == {k \in calls : owner[k] = c}

(* The critical section of close: the client and its calls leave together. *)
(* The token is cancelled afterwards, outside the lock, and only by the    *)
(* closer that found the client.                                           *)
Close(t, c) ==
  /\ clients' = clients \ {c}
  /\ calls' = calls \ CallsOf(c)
  /\ \/ c \in clients /\ Start(t, "close", c, "cancel")
     \/ c \notin clients /\ StartAndReturn(t, "close", c, "handle")
  /\ UNCHANGED <<nextId, owner, cancelled, callVars, history>>

CloseRequest(t, k) ==
  /\ calls' = calls \ {k}
  /\ \/ k \in calls /\ Start(t, "close_request", k, "cancel")
     \/ k \notin calls /\ StartAndReturn(t, "close_request", k, "handle")
  /\ UNCHANGED <<nextId, clients, owner, cancelled, callVars, history>>

(* client.cancel.cancel() and call.cancel.cancel(). *)
Cancel(t) ==
  /\ pc[t] = "cancel"
  /\ cancelled' = cancelled \union {arg[t]}
  /\ Return(t, "handle")
  /\ UNCHANGED <<registryVars, callVars, history>>

(* create_request clones the client out of the registry ... *)
CreateRequest(t, c) ==
  /\ \/ c \in clients /\ Start(t, "create_request", c, "build")
     \/ c \notin clients /\ StartAndReturn(t, "create_request", c, "closed")
  /\ UNCHANGED <<registryVars, cancelled, callVars, history>>

(* Slip: no second look. *)
StillOpenUnchecked(c) == TRUE

(* ... builds the request with no lock held, and looks again before it     *)
(* registers the call: Client.Close may have raced.                        *)
StillOpen(c) == c \in clients

Register(t) ==
  /\ pc[t] = "build"
  /\ \/ /\ StillOpen(arg[t])
        /\ \E h \in Ids :
             /\ Issue(h)
             /\ calls' = calls \union {h}
             /\ owner' = [owner EXCEPT ![h] = arg[t]]
             /\ arg' = [arg EXCEPT ![t] = h]
        /\ pc' = [pc EXCEPT ![t] = "idle"]
        /\ res' = [res EXCEPT ![t] = "handle"]
        /\ UNCHANGED op
     \/ /\ StillOpen(arg[t])
        /\ Exhausted
        /\ Return(t, "internal")
        /\ UNCHANGED <<nextId, calls, owner>>
     \/ /\ ~StillOpen(arg[t])
        /\ Return(t, "closed")
        /\ UNCHANGED <<nextId, calls, owner>>
  /\ UNCHANGED <<clients, cancelled, callVars, history>>

-----------------------------------------------------------------------------
(* send and read.  Both clone the call out of the registry, so a call that *)
(* is closed from now on is met again only through its token.              *)

Lookup(t, o, k) ==
  /\ \/ k \in calls /\ Start(t, o, k, "poll")
     \/ k \notin calls /\ StartAndReturn(t, o, k, "closed")
  /\ UNCHANGED <<registryVars, cancelled, callVars, history>>

Send(t, k) == Lookup(t, "send", k)
Read(t, k) == Lookup(t, "read", k)

(* The other branch of the select is dropped, and a phase guard it holds   *)
(* with it.  What the guarded phase is at that moment stays.               *)
Dropped(t) == [k \in Ids |-> IF lock[k] = t THEN NoThread ELSE lock[k]]

(* select! is biased: each time the task is polled the token comes first. *)
Abort(t) ==
  /\ pc[t] = "poll"
  /\ IsCancelled(arg[t])
  /\ lock' = Dropped(t)
  /\ Return(t, "cancelled")
  /\ UNCHANGED <<registryVars, cancelled, phase, pending, fetched, history>>

(* A poll that is not cancelled goes on to the body.  Polls of a task that *)
(* waits for a phase mutex still taken change nothing and are left out.    *)
Poll(t) ==
  /\ pc[t] = "poll"
  /\ ~IsCancelled(arg[t])
  /\ lock[arg[t]] \in {NoThread, t}
  /\ Goto(t, "body")
  /\ UNCHANGED <<registryVars, cancelled, callVars, history>>

(* The future is pending: on the mutex, or on the network. *)
Suspend(t) ==
  /\ pc[t] = "body"
  /\ lock[arg[t]] # NoThread
  /\ Goto(t, "poll")
  /\ UNCHANGED <<registryVars, cancelled, callVars, history>>

InBody(t, o) == pc[t] = "body" /\ op[t] = o

(* Slip: the request stays Ready until it is answered. *)
TransmitKeeping(t, k) ==
  /\ phase[k] = "Ready"
  /\ lock' = [lock EXCEPT ![k] = t]
  /\ sends' = [sends EXCEPT ![k] = @ + 1]
  /\ UNCHANGED <<phase, threadVars>>

(* The request leaves Ready before it goes out, whatever comes of it. *)
Transmit(t, k) ==
  /\ phase[k] = "Ready"
  /\ phase' = [phase EXCEPT ![k] = "Done"]
  /\ lock' = [lock EXCEPT ![k] = t]
  /\ sends' = [sends EXCEPT ![k] = @ + 1]
  /\ UNCHANGED threadVars

SendStart(t) ==
  LET k == arg[t] IN
  /\ InBody(t, "send")
  /\ lock[k] = NoThread
  /\ \/ Transmit(t, k)
     \/ /\ phase[k] # "Ready"
        /\ Return(t, "invalid_input")
        /\ UNCHANGED <<phase, lock, sends>>
  /\ UNCHANGED <<registryVars, cancelled, pending, fetched, out, failed>>

OpenStream(k) == phase' = [phase EXCEPT ![k] = "Streaming"]

(* The answer's head arrived, or the exchange failed. *)
SendAnswer(t) ==
  LET k == arg[t] IN
  /\ InBody(t, "send")
  /\ lock[k] = t
  /\ lock' = [lock EXCEPT ![k] = NoThread]
  /\ \/ /\ OpenStream(k)
        /\ Return(t, "data")
        /\ UNCHANGED failed
     \/ /\ failed' = failed \union {k}
        /\ Return(t, "error")
        /\ UNCHANGED phase
  /\ UNCHANGED <<registryVars, cancelled, pending, fetched, sends, out>>

(* split_to: the first n bytes go to the caller, the rest stays pending. *)
Deliver(k, bytes, n) ==
  /\ pending' = [pending EXCEPT ![k] = SubSeq(bytes, n + 1, Len(bytes))]
  /\ out' = [out EXCEPT ![k] = @ \o SubSeq(bytes, 1, n)]

(* How many bytes a caller can get out of these. *)
Takes(bytes) == {n \in 1 .. MaxRead : n <= Len(bytes)}

ReadStart(t) ==
  LET k == arg[t] IN
  /\ InBody(t, "read")
  /\ lock[k] = NoThread
  /\ \/ /\ phase[k] = "Ready"
        /\ Return(t, "invalid_input")
        /\ UNCHANGED <<lock, pending, out>>
     \/ /\ phase[k] = "Done"
        /\ Return(t, "eof")
        /\ UNCHANGED <<lock, pending, out>>
     \/ /\ phase[k] = "Streaming"
        /\ \E n \in Takes(pending[k]) : Deliver(k, pending[k], n)
        /\ Return(t, "data")
        /\ UNCHANGED lock
     \/ /\ phase[k] = "Streaming"
        /\ pending[k] = <<>>
        /\ lock' = [lock EXCEPT ![k] = t]
        /\ UNCHANGED <<threadVars, pending, out>>
  /\ UNCHANGED <<registryVars, cancelled, phase, fetched, sends, failed>>

(* The next bytes of the body, up to m. *)
Chunk(k, m) == [i \in 1 .. m - fetched[k] |-> fetched[k] + i]

ReadAnswer(t) ==
  LET k == arg[t] IN
  /\ InBody(t, "read")
  /\ lock[k] = t
  /\ lock' = [lock EXCEPT ![k] = NoThread]
  /\ \/ \E m \in fetched[k] + 1 .. BodyLen :
          /\ fetched' = [fetched EXCEPT ![k] = m]
          /\ \E n \in Takes(Chunk(k, m)) : Deliver(k, Chunk(k, m), n)
          /\ Return(t, "data")
          /\ UNCHANGED <<phase, failed>>
     \/ /\ phase' = [phase EXCEPT ![k] = "Done"]
        /\ failed' = failed \union {k}
        /\ Return(t, "error")
        /\ UNCHANGED <<pending, fetched, out>>
     \/ /\ fetched[k] = BodyLen
        /\ phase' = [phase EXCEPT ![k] = "Done"]
        /\ Return(t, "eof")
        /\ UNCHANGED <<pending, fetched, out, failed>>
  /\ UNCHANGED <<registryVars, cancelled, sends>>

-----------------------------------------------------------------------------
(* What a thread does once inside the bridge. *)
Step(t) ==
  \/ Cancel(t) \/ Register(t)
  \/ Abort(t) \/ Poll(t) \/ Suspend(t)
  \/ SendStart(t) \/ SendAnswer(t) \/ ReadStart(t) \/ ReadAnswer(t)

(* Callers hold integers: a handle they use was issued, but may be stale. *)
Issued == 1 .. nextId
IssuedCalls == {k \in Issued : owner[k] # 0}
IssuedClients == Issued \ IssuedCalls

Enter(t) ==
  \/ Create(t)
  \/ \E c \in IssuedClients : Close(t, c) \/ CreateRequest(t, c)
  \/ \E k \in IssuedCalls : CloseRequest(t, k) \/ Send(t, k) \/ Read(t, k)

Next == \E t \in Threads : Enter(t) \/ Step(t)

Spec == Init /\ [][Next]_vars

(* Tokio polls a woken task again, and a thread holding the registry mutex *)
(* or past it goes on.  The network owes nothing: only the steps that need *)
(* no answer from it are fair.                                             *)
Prompt(t) == Cancel(t) \/ Register(t) \/ Abort(t) \/ Poll(t) \/ Suspend(t)
             \/ SendStart(t) \/ ReadStart(t)

FairSpec == Spec /\ \A t \in Threads : WF_vars(Prompt(t))

-----------------------------------------------------------------------------
(* A call in the registry belongs to a client in the registry: a request   *)
(* built while Client.Close ran (create_request's second look) is not left *)
(* behind as a call nothing will ever cancel.                              *)
CallsHaveClient == \A k \in calls : owner[k] \in clients

(* What lookup finds has not been cancelled: handles are unregistered      *)
(* before their tokens fire, and no child is made of a cancelled client.   *)
RegisteredIsLive == \A h \in clients \union calls : ~IsCancelled(h)

(* A handle out of the registry is cancelled, or the thread that took it   *)
(* out is about to: close returns early for everyone but the closer that   *)
(* found the entry, so nobody else would.                                  *)
IsBeingCancelled(h) ==
  \E t \in Threads : pc[t] = "cancel" /\ arg[t] \in {h, owner[h]}

ClosedIsCancelled ==
  \A h \in Issued \ (clients \union calls) : IsCancelled(h) \/ IsBeingCancelled(h)

(* Clients and calls share one number space; no handle names both. *)
KindsDisjoint == clients \subseteq IssuedClients /\ calls \subseteq IssuedCalls

(* Whatever threads race on a call, it goes out at most once. *)
SentAtMostOnce == \A k \in Ids : sends[k] <= 1

(* Readers get the bytes of the body in order, none lost and none twice,   *)
(* however reads are split, cancelled in the middle or run concurrently.   *)
BytesInOrder ==
  \A k \in Ids : out[k] \o pending[k] = [i \in 1 .. fetched[k] |-> i]

(* Why a call can be over: its last byte was handed out, or the bridge     *)
(* reported a failure to some caller of it, or it was cancelled.           *)
EndExplained(k) == Len(out[k]) = BodyLen \/ k \in failed \/ IsCancelled(k)

(* A read that says end of body has a reason to.                           *)
EofIsExplained ==
  \A t \in Threads :
    op[t] = "read" /\ res[t] = "eof" /\ pc[t] = "idle" => EndExplained(arg[t])

(* What a reader names, or named last, is a handle. *)
ReadersNameHandles == \A t \in Threads : op[t] = "read" => arg[t] \in Ids

(* The phase mutex is held only by a thread at work on that very call.     *)
LockHeldByWorker ==
  \A k \in Ids : lock[k] # NoThread =>
    /\ pc[lock[k]] \in {"poll", "body"}
    /\ arg[lock[k]] = k

(* A phase of Done is either owned by the send in progress or has a reason *)
(* that some caller was told; a read waits for the stream only with nothing*)
(* pending.                                                                *)
PhaseExplained ==
  \A k \in Ids :
    /\ phase[k] = "Ready" => sends[k] = 0
    /\ phase[k] = "Done" /\ lock[k] = NoThread => EndExplained(k)
    /\ lock[k] # NoThread =>
         \/ op[lock[k]] = "send" /\ phase[k] = "Done"
         \/ op[lock[k]] = "read" /\ phase[k] = "Streaming" /\ pending[k] = <<>>

(* What threads inside the bridge work on was issued, and a handle waiting *)
(* to be cancelled has left the registry.                                  *)
WorkersKnowHandles ==
  \A t \in Threads :
    /\ pc[t] = "cancel" => arg[t] \in Issued \ (clients \union calls)
    /\ pc[t] = "build" => arg[t] \in IssuedClients
    /\ pc[t] \in {"poll", "body"} => arg[t] \in IssuedCalls /\ op[t] \in {"send", "read"}

OwnersAreClients ==
  \A h \in Ids : owner[h] # 0 => h \in Issued /\ owner[h] \in IssuedClients

CancelledIsClosed == cancelled \subseteq Issued \ (clients \union calls)

(* The inductive invariants: of the registry, and of the calls.            *)
RegistryInv ==
  /\ TypeOK /\ KindsDisjoint /\ OwnersAreClients /\ CallsHaveClient
  /\ CancelledIsClosed /\ WorkersKnowHandles /\ ClosedIsCancelled

CallInv ==
  /\ SentAtMostOnce /\ LockHeldByWorker /\ BytesInOrder /\ PhaseExplained
  /\ EofIsExplained /\ ReadersNameHandles

(* A stale integer handle is never reused: what has left the registry      *)
(* never comes back, whatever the counter does at its limit.               *)
HandlesNeverReused ==
  [][\A h \in Issued : h \notin clients \union calls
                         => h \notin clients' \union calls']_vars

(* Closing a handle unblocks every thread inside send or read on it, even  *)
(* when the network never answers and when another thread has the mutex.   *)
ClosedCallsReturn ==
  \A t \in Threads : \A k \in Ids :
    (k \in IssuedCalls /\ k \notin calls /\ pc[t] \in {"poll", "body"} /\ arg[t] = k)
      ~> (pc[t] = "idle" \/ arg[t] # k)

-----------------------------------------------------------------------------
(* The bridge implements the handle table. *)
Table == INSTANCE HandleTable WITH
           Handles <- Ids, NoParent <- 0,
           issued <- Issued, live <- clients \union calls,
           parent <- owner, released <- {h \in Ids : IsCancelled(h)}

TableSpec == Table!Spec
TableReleases == Table!EventuallyReleased
=============================================================================
