------------------------------ MODULE WsBridge ------------------------------
(***************************************************************************)
(* The WebSocket half of the Rust bridge (rust/src/websocket_client.rs):   *)
(* the registry of clients and connections, and the locks under which any  *)
(* number of threads dial, read, write messages in fragments and write     *)
(* control frames on a connection, while others close it.                  *)
(*                                                                         *)
(* A thread is a caller blocked in an exported function, together with the *)
(* Tokio task that runs its future.  A task is awake while a worker polls  *)
(* it: select! looked at the token when the poll began and does not look   *)
(* again before the next one.  Tokio's mutexes and its RwLock serve their  *)
(* waiters first come, first served, so each is the queue of its holders   *)
(* and waiters.                                                            *)
(*                                                                         *)
(* Arguments have passed validation.  The socket is tungstenite's, modelled*)
(* from the errors and states the code tells apart; of the frames sent,    *)
(* what matters is kept as the peer's view: the message it is assembling.  *)
(***************************************************************************)
EXTENDS Naturals, Sequences

CONSTANTS Threads,
          NoThread,
          MaxId,      \* the largest handle: stands for u64::MAX
          Fragments,  \* fragments in every data message
          PeerSays,   \* what the peer sends: "data", "ping" or "close"
          MaxInbox    \* messages the peer can have under way

ASSUME WsAssumption ==
  /\ NoThread \notin Threads
  /\ MaxId \in Nat
  /\ Fragments \in Nat \ {0}
  /\ PeerSays \subseteq {"data", "ping", "close"}
  /\ MaxInbox \in Nat

VARIABLES
  nextId,      \* Registry.next_id
  clients,     \* keys of Registry.clients
  conns,       \* keys of Registry.connections
  owner,       \* Connection.client_id of every connection ever made
  cancelled,   \* clients and connections whose own token was cancelled
  pending,     \* connections whose Connection.pending is Some
  writers,     \* connections whose Connection.writer is Some
  readers,     \* connections whose Connection.reader is Some
  peerClosed,  \* connections with peer_close_received set
  readerQ,     \* the queue at Connection.reader
  messageQ,    \* the queue at Connection.data_write
  gate,        \* the queue at Connection.control_gate
  sock,        \* the protocol state of the socket
  reply,       \* the automatic reply tungstenite has queued
  inbox,       \* messages on their way from the peer
  link,        \* the TCP connection
  pc,          \* where each thread is
  awake,       \* tasks a worker is polling
  op,          \* the operation a thread is in
  arg,         \* the handle that operation works on, or returned
  res,         \* the result of the last operation
  held,        \* the message a read has taken, or a control write sends
  sent,        \* fragments of the current message already sent
  \* History, read by the properties only:
  dialled,     \* connections that were dialled, and those dialled again
  assembling,  \* whose message the peer has the beginning of
  torn,        \* connections where the peer met a fragment out of place
  passed       \* data fragments sent while a control frame waits

registryVars == <<nextId, clients, conns, owner>>
connVars == <<pending, writers, readers, peerClosed>>
lockVars == <<readerQ, messageQ, gate>>
socketVars == <<sock, reply, inbox, link>>
callVars == <<pc, awake, op, arg, res, held, sent>>
history == <<dialled, assembling, torn, passed>>
vars == <<registryVars, cancelled, connVars, lockVars, socketVars, callVars, history>>

Ids == 1 .. MaxId
Operations == {"none", "close", "create_connection", "close_connection",
               "connect", "read", "write", "control"}
TaskPlaces == {"start", "dial", "split", "reader", "next", "flag", "message",
               "gate", "flush", "yield"}
Results == {"none", "handle", "data", "ping", "close", "eof", "closed", "closing",
            "invalid_input", "internal", "handshake", "websocket"}
Messages == {"data", "ping", "close"}

RegistryOK ==
  /\ nextId \in 0 .. MaxId
  /\ clients \subseteq Ids
  /\ conns \subseteq Ids
  /\ owner \in [Ids -> 0 .. MaxId]
  /\ cancelled \subseteq Ids

ConnsOK ==
  /\ pending \subseteq Ids
  /\ writers \subseteq Ids
  /\ readers \subseteq Ids
  /\ peerClosed \subseteq Ids
  /\ dialled \in [Ids -> 0 .. 2]

QueuesOK ==
  /\ readerQ \in [Ids -> Seq(Threads)]
  /\ messageQ \in [Ids -> Seq(Threads)]
  /\ gate \in [Ids -> Seq(Threads)]

SocketsOK ==
  /\ sock \in [Ids -> {"open", "closing", "over"}]
  /\ reply \in [Ids -> {"none", "pong", "close"}]
  /\ inbox \in [Ids -> Seq(Messages)]
  /\ link \in [Ids -> {"up", "half", "down", "dead"}]

ThreadsOK ==
  /\ pc \in [Threads -> TaskPlaces \union {"idle", "build", "cancel"}]
  /\ awake \subseteq Threads
  /\ op \in [Threads -> Operations]
  /\ arg \in [Threads -> 0 .. MaxId]
  /\ res \in [Threads -> Results]
  /\ held \in [Threads -> Messages \union {"none"}]
  /\ sent \in [Threads -> 0 .. Fragments]
  /\ \A t \in Threads : pc[t] # "idle" => arg[t] \in Ids

PeerViewOK ==
  /\ assembling \in [Ids -> Threads \union {NoThread}]
  /\ torn \subseteq Ids
  /\ passed \in [Threads -> 0 .. 2]

TypeOK == RegistryOK /\ ConnsOK /\ QueuesOK /\ SocketsOK /\ ThreadsOK /\ PeerViewOK

NothingYet ==
  /\ conns = {}
  /\ owner = [h \in Ids |-> 0]
  /\ cancelled = {}
  /\ pending = {}
  /\ writers = {}
  /\ readers = {}
  /\ peerClosed = {}
  /\ readerQ = [h \in Ids |-> <<>>]
  /\ messageQ = [h \in Ids |-> <<>>]
  /\ gate = [h \in Ids |-> <<>>]
  /\ sock = [h \in Ids |-> "open"]
  /\ reply = [h \in Ids |-> "none"]
  /\ inbox = [h \in Ids |-> <<>>]
  /\ link = [h \in Ids |-> "up"]
  /\ pc = [t \in Threads |-> "idle"]
  /\ awake = {}
  /\ op = [t \in Threads |-> "none"]
  /\ arg = [t \in Threads |-> 0]
  /\ res = [t \in Threads |-> "none"]
  /\ held = [t \in Threads |-> "none"]
  /\ sent = [t \in Threads |-> 0]
  /\ dialled = [h \in Ids |-> 0]
  /\ assembling = [h \in Ids |-> NoThread]
  /\ torn = {}
  /\ passed = [t \in Threads |-> 0]

Init ==
  /\ nextId = 0
  /\ clients = {}
  /\ NothingYet

(* Slip: a connection gets a token of its own instead of a child token. *)
IsCancelledAlone(h) == h \in cancelled

(* A connection's token is a child of its client's. *)
IsCancelled(h) == h \in cancelled \/ (h \in Ids /\ owner[h] \in cancelled)

-----------------------------------------------------------------------------
(* How a thread enters, moves in and leaves an exported function. *)

(* A function that is past its entry: at p, holding message m. *)
Start(t, o, h, p, m) ==
  /\ pc[t] = "idle"
  /\ pc' = [pc EXCEPT ![t] = p]
  /\ op' = [op EXCEPT ![t] = o]
  /\ arg' = [arg EXCEPT ![t] = h]
  /\ res' = [res EXCEPT ![t] = "none"]
  /\ held' = [held EXCEPT ![t] = m]
  /\ UNCHANGED <<awake, sent>>

(* The whole function is one step; h is the handle it returns, or 0. *)
StartAndReturn(t, h, r) ==
  /\ pc[t] = "idle"
  /\ arg' = [arg EXCEPT ![t] = h]
  /\ res' = [res EXCEPT ![t] = r]
  /\ UNCHANGED <<pc, awake, op, held, sent>>

(* The same poll runs on to the next place. *)
Goto(t, p) ==
  /\ pc' = [pc EXCEPT ![t] = p]
  /\ UNCHANGED <<awake, op, arg, res, held, sent>>

(* Whoever is in a queue is in it once. *)
In(s, t) == \E i \in 1 .. Len(s) : s[i] = t

Leave(s, t) ==
  IF In(s, t)
    THEN LET i == CHOOSE i \in 1 .. Len(s) : s[i] = t
         IN  [j \in 1 .. Len(s) - 1 |-> IF j < i THEN s[j] ELSE s[j + 1]]
    ELSE s

Without(q, t) == [h \in Ids |-> Leave(q[h], t)]

(* The guards of a future are dropped with it, whether it finished or not. *)
Unlock(t) ==
  /\ readerQ' = Without(readerQ, t)
  /\ messageQ' = Without(messageQ, t)
  /\ gate' = Without(gate, t)
  /\ passed' = [passed EXCEPT ![t] = 0]

(* The function returns r, with the handle h. *)
Answer(t, h, r) ==
  /\ pc' = [pc EXCEPT ![t] = "idle"]
  /\ awake' = awake \ {t}
  /\ op' = [op EXCEPT ![t] = "none"]
  /\ arg' = [arg EXCEPT ![t] = h]
  /\ res' = [res EXCEPT ![t] = r]
  /\ held' = [held EXCEPT ![t] = "none"]
  /\ sent' = [sent EXCEPT ![t] = 0]

(* A task that returns drops its guards. *)
Return(t, r) == Answer(t, 0, r) /\ Unlock(t)

-----------------------------------------------------------------------------
(* Registry operations. *)

(* Registry::next, which reports exhaustion instead of wrapping. *)
Issue(h) ==
  /\ nextId < MaxId
  /\ h = nextId + 1
  /\ nextId' = h

Exhausted == nextId = MaxId

Create(t) ==
  /\ \/ \E h \in Ids :
          /\ Issue(h)
          /\ clients' = clients \union {h}
          /\ StartAndReturn(t, h, "handle")
     \/ /\ Exhausted
        /\ StartAndReturn(t, 0, "internal")
        /\ UNCHANGED <<nextId, clients>>
  /\ UNCHANGED <<conns, owner, cancelled, connVars, lockVars, socketVars, history>>

(* Slip: close forgets the client's connections. *)
ConnsOfNone(c) == {}

ConnsOf(c) == {k \in conns : owner[k] = c}

(* The critical section of close.  Only the client's token is cancelled    *)
(* afterwards; the connections' tokens are its children.                   *)
Close(t, c) ==
  /\ clients' = clients \ {c}
  /\ conns' = conns \ ConnsOf(c)
  /\ \/ c \in clients /\ Start(t, "close", c, "cancel", "none")
     \/ c \notin clients /\ StartAndReturn(t, 0, "handle")
  /\ UNCHANGED <<nextId, owner, cancelled, connVars, lockVars, socketVars, history>>

CloseConnection(t, k) ==
  /\ conns' = conns \ {k}
  /\ \/ k \in conns /\ Start(t, "close_connection", k, "cancel", "none")
     \/ k \notin conns /\ StartAndReturn(t, 0, "handle")
  /\ UNCHANGED <<nextId, clients, owner, cancelled, connVars, lockVars, socketVars, history>>

(* client.cancel.cancel() and conn.cancel.cancel(). *)
Cancel(t) ==
  /\ pc[t] = "cancel"
  /\ cancelled' = cancelled \union {arg[t]}
  /\ Answer(t, 0, "handle")
  /\ UNCHANGED <<registryVars, connVars, lockVars, socketVars, history>>

(* create_connection clones the client out of the registry ... *)
CreateConnection(t, c) ==
  /\ \/ c \in clients /\ Start(t, "create_connection", c, "build", "none")
     \/ c \notin clients /\ StartAndReturn(t, 0, "closed")
  /\ UNCHANGED <<registryVars, cancelled, connVars, lockVars, socketVars, history>>

(* Slip: the client is not looked up again. *)
StillOpenUnchecked(c) == TRUE

StillOpen(c) == c \in clients

(* ... builds the request with no lock held, and looks again before it     *)
(* registers the connection with its request pending.                      *)
Register(t) ==
  /\ pc[t] = "build"
  /\ \/ /\ StillOpen(arg[t])
        /\ \E h \in Ids :
             /\ Issue(h)
             /\ conns' = conns \union {h}
             /\ owner' = [owner EXCEPT ![h] = arg[t]]
             /\ pending' = pending \union {h}
             /\ Answer(t, h, "handle")
     \/ /\ StillOpen(arg[t])
        /\ Exhausted
        /\ Answer(t, 0, "internal")
        /\ UNCHANGED <<nextId, conns, owner, pending>>
     \/ /\ ~StillOpen(arg[t])
        /\ Answer(t, 0, "closed")
        /\ UNCHANGED <<nextId, conns, owner, pending>>
  /\ UNCHANGED <<clients, cancelled, writers, readers, peerClosed, lockVars,
                 socketVars, history>>

-----------------------------------------------------------------------------
(* Tasks.  Every function below looks the connection up first, so one that *)
(* is closed from now on is met again only through its token.              *)

Lookup(t, o, k, m) ==
  /\ \/ k \in conns /\ Start(t, o, k, "start", m)
     \/ k \notin conns /\ StartAndReturn(t, 0, "closed")
  /\ UNCHANGED <<registryVars, cancelled, connVars, lockVars, socketVars, history>>

Connect(t, k) == Lookup(t, "connect", k, "none")
Read(t, k) == Lookup(t, "read", k, "none")
Write(t, k) == Lookup(t, "write", k, "data")
Control(t, k, m) == Lookup(t, "control", k, m)

First(q, t) == q # <<>> /\ Head(q) = t

(* control_gate: data writers share it, everyone else takes it alone, and  *)
(* nobody overtakes.                                                       *)
Before(s, u, t) == \E i, j \in 1 .. Len(s) : i < j /\ s[i] = u /\ s[j] = t

HasGate(t) ==
  LET q == gate[arg[t]] IN
  /\ In(q, t)
  /\ \A u \in Threads : Before(q, u, t) => op[t] = "write" /\ op[u] = "write"

(* The task waits for a lock. *)
Waits(t) ==
  \/ pc[t] = "reader" /\ ~First(readerQ[arg[t]], t)
  \/ pc[t] = "message" /\ ~First(messageQ[arg[t]], t)
  \/ pc[t] = "gate" /\ ~HasGate(t)

(* Slip: the token is looked at before the task starts, not while it waits.*)
AbortBeforeStart(t) ==
  /\ pc[t] = "start"
  /\ t \notin awake
  /\ IsCancelled(arg[t])
  /\ Return(t, "closed")
  /\ UNCHANGED <<registryVars, cancelled, connVars, socketVars, dialled, assembling, torn>>

(* select! is biased: each time the task is polled the token comes first,  *)
(* and a cancelled task drops what it was doing.                           *)
Abort(t) ==
  /\ pc[t] \in TaskPlaces
  /\ t \notin awake
  /\ IsCancelled(arg[t])
  /\ Return(t, "closed")
  /\ UNCHANGED <<registryVars, cancelled, connVars, socketVars, dialled, assembling, torn>>

(* Polls of a task that still waits for a lock change nothing and are left *)
(* out.                                                                    *)
Poll(t) ==
  /\ pc[t] \in TaskPlaces
  /\ t \notin awake
  /\ ~IsCancelled(arg[t])
  /\ ~Waits(t)
  /\ awake' = awake \union {t}
  /\ UNCHANGED <<registryVars, cancelled, connVars, lockVars, socketVars,
                 pc, op, arg, res, held, sent, history>>

(* The future is pending, on a lock or on the network. *)
Suspend(t) ==
  /\ t \in awake
  /\ \/ Waits(t)
     \/ pc[t] \in {"dial", "next", "flush"}
     \/ pc[t] = "gate" /\ op[t] = "read"
  /\ awake' = awake \ {t}
  /\ UNCHANGED <<registryVars, cancelled, connVars, lockVars, socketVars,
                 pc, op, arg, res, held, sent, history>>

Runs(t, o, p) == t \in awake /\ op[t] = o /\ pc[t] = p

Join(q, t) == [q EXCEPT ![arg[t]] = Append(@, t)]

-----------------------------------------------------------------------------
(* connect *)

(* Slip: the request is read, not taken. *)
TakeRequestKept(k) == UNCHANGED pending

TakeRequest(k) == pending' = pending \ {k}

ConnectStart(t) ==
  LET k == arg[t] IN
  /\ Runs(t, "connect", "start")
  /\ \/ /\ k \in pending
        /\ TakeRequest(k)
        /\ dialled' = [dialled EXCEPT ![k] = IF @ < 2 THEN @ + 1 ELSE @]
        /\ Goto(t, "dial")
        /\ UNCHANGED <<lockVars, passed>>
     \/ /\ k \notin pending
        /\ Return(t, "invalid_input")
        /\ UNCHANGED <<pending, dialled>>
  /\ UNCHANGED <<registryVars, cancelled, writers, readers, peerClosed, socketVars,
                 assembling, torn>>

(* The upgrade succeeds and the write half is published; or it is rejected,*)
(* or the exchange fails or times out.                                     *)
Dialled(t) ==
  /\ Runs(t, "connect", "dial")
  /\ \/ /\ writers' = writers \union {arg[t]}
        /\ Goto(t, "split")
        /\ UNCHANGED <<lockVars, passed>>
     \/ /\ \E e \in {"handshake", "websocket"} : Return(t, e)
        /\ UNCHANGED writers
  /\ UNCHANGED <<registryVars, cancelled, pending, readers, peerClosed, socketVars,
                 dialled, assembling, torn>>

(* The read half follows. *)
Connected(t) ==
  /\ Runs(t, "connect", "split")
  /\ readers' = readers \union {arg[t]}
  /\ Return(t, "data")
  /\ UNCHANGED <<registryVars, cancelled, pending, writers, peerClosed, socketVars,
                 dialled, assembling, torn>>

-----------------------------------------------------------------------------
(* read *)

ReadStart(t) ==
  /\ Runs(t, "read", "start")
  /\ readerQ' = Join(readerQ, t)
  /\ Goto(t, "reader")
  /\ UNCHANGED <<registryVars, cancelled, connVars, messageQ, gate, socketVars, history>>

AfterPeerClose(k) == k \in peerClosed

(* Slip: the peer is awaited with the data writers' lock as well. *)
AwaitMessageLocked(t) ==
  /\ messageQ[arg[t]] = <<>>
  /\ messageQ' = Join(messageQ, t)
  /\ UNCHANGED <<readerQ, gate, passed>>

(* A read waits for the peer with nothing but the reader's lock. *)
AwaitMessage(t) == UNCHANGED <<lockVars, passed>>

ReadLocked(t) ==
  LET k == arg[t] IN
  /\ Runs(t, "read", "reader")
  /\ First(readerQ[k], t)
  /\ \/ k \notin readers /\ Return(t, "invalid_input")
     \/ k \in readers /\ AfterPeerClose(k) /\ Return(t, "eof")
     \/ /\ k \in readers /\ ~AfterPeerClose(k)
        /\ Goto(t, "next")
        /\ AwaitMessage(t)
  /\ UNCHANGED <<registryVars, cancelled, connVars, socketVars, dialled, assembling, torn>>

(* A message leaves the socket, which answers pings while it is open and a *)
(* Close once.                                                             *)
Take(k) ==
  LET m == Head(inbox[k]) IN
  /\ inbox' = [inbox EXCEPT ![k] = Tail(@)]
  /\ sock' = [sock EXCEPT ![k] = IF m = "close" THEN "closing" ELSE @]
  /\ reply' = [reply EXCEPT ![k] =
                 IF sock[k] = "open" /\ m = "ping" /\ @ = "none" THEN "pong"
                 ELSE IF sock[k] = "open" /\ m = "close" THEN "close"
                 ELSE @]
  /\ UNCHANGED link

(* reader.next() has a message. *)
ReadMessage(t) ==
  LET k == arg[t]
      m == Head(inbox[k]) IN
  /\ Runs(t, "read", "next")
  /\ sock[k] # "over"
  /\ inbox[k] # <<>>
  /\ Take(k)
  /\ \/ /\ m = "data"
        /\ Return(t, "data")
     \/ /\ m # "data"
        /\ held' = [held EXCEPT ![t] = m]
        /\ pc' = [pc EXCEPT ![t] = IF m = "close" THEN "flag" ELSE "gate"]
        /\ gate' = IF m = "close" THEN gate ELSE Join(gate, t)
        /\ UNCHANGED <<awake, op, arg, res, sent, readerQ, messageQ, passed>>
  /\ UNCHANGED <<registryVars, cancelled, connVars, dialled, assembling, torn>>

(* reader.next() has no more: it fails once, then the stream has ended. *)
ReadNothing(t) ==
  LET k == arg[t] IN
  /\ Runs(t, "read", "next")
  /\ \/ sock[k] = "over" /\ Return(t, "eof") /\ UNCHANGED sock
     \/ /\ sock[k] # "over" /\ inbox[k] = <<>> /\ link[k] \in {"down", "dead"}
        /\ sock' = [sock EXCEPT ![k] = "over"]
        /\ Return(t, "websocket")
  /\ UNCHANGED <<registryVars, cancelled, connVars, reply, inbox, link, dialled,
                 assembling, torn>>

(* peer_close_received is stored before the acknowledgement is attempted. *)
ReadFlag(t) ==
  /\ Runs(t, "read", "flag")
  /\ peerClosed' = peerClosed \union {arg[t]}
  /\ gate' = Join(gate, t)
  /\ Goto(t, "gate")
  /\ UNCHANGED <<registryVars, cancelled, pending, writers, readers, readerQ, messageQ,
                 socketVars, history>>

(* Slip: a failed acknowledgement is a failed read. *)
ToleratedNever(t) == FALSE

(* A Close that was received outlives a failed acknowledgement. *)
Tolerated(t) == held[t] = "close"

(* writer.flush(), under the gate, sends the queued reply. *)
ReadAcknowledge(t) ==
  LET k == arg[t] IN
  /\ Runs(t, "read", "gate")
  /\ HasGate(t)
  /\ \/ /\ link[k] # "dead"
        /\ reply' = [reply EXCEPT ![k] = "none"]
        /\ Return(t, held[t])
        /\ UNCHANGED link
     \/ /\ link[k] \in {"down", "dead"}
        /\ link' = [link EXCEPT ![k] = "dead"]
        /\ Return(t, IF Tolerated(t) THEN held[t] ELSE "websocket")
        /\ UNCHANGED reply
  /\ UNCHANGED <<registryVars, cancelled, connVars, sock, inbox, dialled, assembling, torn>>

-----------------------------------------------------------------------------
(* write: data messages and control frames *)

(* Slip: messages do not wait for each other. *)
WriteStartUnlocked(t) ==
  /\ Runs(t, "write", "start")
  /\ messageQ' = [messageQ EXCEPT ![arg[t]] = <<t>> \o @]
  /\ Goto(t, "message")
  /\ UNCHANGED <<registryVars, cancelled, connVars, readerQ, gate, socketVars, history>>

WriteStart(t) ==
  /\ Runs(t, "write", "start")
  /\ messageQ' = Join(messageQ, t)
  /\ Goto(t, "message")
  /\ UNCHANGED <<registryVars, cancelled, connVars, readerQ, gate, socketVars, history>>

(* The first fragment queues at the gate. *)
WriteLocked(t) ==
  /\ Runs(t, "write", "message")
  /\ First(messageQ[arg[t]], t)
  /\ gate' = Join(gate, t)
  /\ Goto(t, "gate")
  /\ UNCHANGED <<registryVars, cancelled, connVars, readerQ, messageQ, socketVars, history>>

ControlStart(t) ==
  /\ Runs(t, "control", "start")
  /\ gate' = Join(gate, t)
  /\ Goto(t, "gate")
  /\ UNCHANGED <<registryVars, cancelled, connVars, readerQ, messageQ, socketVars, history>>

(* Slip: every failed write is reported as such. *)
WriteErrorsUnclassified(k) == {"websocket"}

(* write_error, for an I/O failure: a vanished peer is "closing", and so   *)
(* is anything once the peer's Close is in hand.                           *)
WriteErrors(k) == IF k \in peerClosed THEN {"closing"} ELSE {"closing", "websocket"}

(* What the peer makes of a fragment.  It has nothing to say of controls.  *)
Observe(t, k) ==
  /\ assembling' = [assembling EXCEPT ![k] = IF sent[t] + 1 = Fragments THEN NoThread ELSE t]
  /\ torn' = IF assembling[k] = (IF sent[t] = 0 THEN NoThread ELSE t)
               THEN torn ELSE torn \union {k}
  /\ passed' = [u \in Threads |->
                  IF op[u] = "control" /\ pc[u] = "gate" /\ arg[u] = k /\ passed[u] < 2
                    THEN passed[u] + 1 ELSE passed[u]]

(* The socket takes the frame, and the reply it had queued goes with it.   *)
SendFrame(t) ==
  LET k == arg[t] IN
  /\ t \in awake
  /\ op[t] \in {"write", "control"}
  /\ pc[t] = "gate"
  /\ HasGate(t)
  /\ k \in writers
  /\ sock[k] = "open"
  /\ link[k] # "dead"
  /\ sock' = [sock EXCEPT ![k] = IF held[t] = "close" THEN "closing" ELSE @]
  /\ reply' = [reply EXCEPT ![k] = "none"]
  /\ IF op[t] = "write" THEN Observe(t, k) ELSE UNCHANGED <<assembling, torn, passed>>
  /\ Goto(t, "flush")
  /\ UNCHANGED <<registryVars, cancelled, connVars, lockVars, inbox, link, dialled>>

(* There is no socket yet, its closing handshake has begun, it has ended,  *)
(* or the peer has gone.                                                   *)
SendRefused(t) ==
  LET k == arg[t] IN
  /\ t \in awake
  /\ op[t] \in {"write", "control"}
  /\ pc[t] = "gate"
  /\ HasGate(t)
  /\ \/ k \notin writers /\ Return(t, "invalid_input") /\ UNCHANGED link
     \/ /\ k \in writers /\ sock[k] = "closing"
        /\ Return(t, "closing")
        /\ UNCHANGED link
     \/ /\ k \in writers /\ sock[k] = "over"
        /\ Return(t, IF k \in peerClosed THEN "closing" ELSE "websocket")
        /\ UNCHANGED link
     \/ /\ k \in writers /\ sock[k] = "open" /\ link[k] \in {"down", "dead"}
        /\ link' = [link EXCEPT ![k] = "dead"]
        /\ \E e \in WriteErrors(k) : Return(t, e)
  /\ UNCHANGED <<registryVars, cancelled, connVars, sock, reply, inbox, dialled,
                 assembling, torn>>

(* The gate is released between two fragments. *)
BetweenFragments(t) == gate' = Without(gate, t)

(* The frame is out.  The last one ends the call; after another the task   *)
(* yields, with the message's lock still held.                             *)
Flushed(t) ==
  /\ t \in awake
  /\ pc[t] = "flush"
  /\ link[arg[t]] # "dead"
  /\ \/ op[t] = "control" /\ Return(t, "handle")
     \/ op[t] = "write" /\ sent[t] + 1 = Fragments /\ Return(t, "handle")
     \/ /\ op[t] = "write" /\ sent[t] + 1 < Fragments
        /\ sent' = [sent EXCEPT ![t] = @ + 1]
        /\ pc' = [pc EXCEPT ![t] = "yield"]
        /\ awake' = awake \ {t}
        /\ BetweenFragments(t)
        /\ UNCHANGED <<op, arg, res, held, readerQ, messageQ, passed>>
  /\ UNCHANGED <<registryVars, cancelled, connVars, socketVars, dialled, assembling, torn>>

FlushFailed(t) ==
  LET k == arg[t] IN
  /\ t \in awake
  /\ pc[t] = "flush"
  /\ link[k] \in {"down", "dead"}
  /\ link' = [link EXCEPT ![k] = "dead"]
  /\ \E e \in WriteErrors(k) : Return(t, e)
  /\ UNCHANGED <<registryVars, cancelled, connVars, sock, reply, inbox, dialled,
                 assembling, torn>>

(* Slip: the gate lets a writer back in ahead of whoever queued. *)
NextFragmentAhead(t) ==
  /\ Runs(t, "write", "yield")
  /\ gate' = [gate EXCEPT ![arg[t]] = <<t>> \o @]
  /\ Goto(t, "gate")
  /\ UNCHANGED <<registryVars, cancelled, connVars, readerQ, messageQ, socketVars, history>>

(* The next fragment queues at the gate again, behind whoever came. *)
NextFragment(t) ==
  /\ Runs(t, "write", "yield")
  /\ gate' = Join(gate, t)
  /\ Goto(t, "gate")
  /\ UNCHANGED <<registryVars, cancelled, connVars, readerQ, messageQ, socketVars, history>>

-----------------------------------------------------------------------------
(* The peer: it sends until its Close, and its host can vanish. *)

PeerSends(k, m) ==
  /\ k \in writers
  /\ link[k] = "up"
  /\ Len(inbox[k]) < MaxInbox
  /\ inbox' = [inbox EXCEPT ![k] = Append(@, m)]
  /\ link' = [link EXCEPT ![k] = IF m = "close" THEN "half" ELSE @]
  /\ UNCHANGED <<registryVars, cancelled, connVars, lockVars, sock, reply, callVars, history>>

PeerVanishes(k) ==
  /\ k \in writers
  /\ link[k] \in {"up", "half"}
  /\ link' = [link EXCEPT ![k] = "down"]
  /\ UNCHANGED <<registryVars, cancelled, connVars, lockVars, sock, reply, inbox,
                 callVars, history>>

-----------------------------------------------------------------------------
Issued == 1 .. nextId
IssuedConns == {k \in Issued : owner[k] # 0}
IssuedClients == Issued \ IssuedConns

(* Callers hold integers: a handle they use was issued, but may be stale. *)
Enter(t) ==
  \/ Create(t)
  \/ \E c \in IssuedClients : Close(t, c) \/ CreateConnection(t, c)
  \/ \E k \in IssuedConns :
       \/ CloseConnection(t, k) \/ Connect(t, k) \/ Read(t, k) \/ Write(t, k)
       \/ \E m \in {"ping", "close"} : Control(t, k, m)

(* What needs no answer from the peer. *)
Prompt(t) ==
  \/ Cancel(t) \/ Register(t)
  \/ Abort(t) \/ Poll(t) \/ Suspend(t)
  \/ ConnectStart(t) \/ Connected(t)
  \/ ReadStart(t) \/ ReadLocked(t) \/ ReadFlag(t)
  \/ WriteStart(t) \/ WriteLocked(t) \/ ControlStart(t) \/ NextFragment(t)
  \/ SendFrame(t) \/ SendRefused(t)

(* What does. *)
Network(t) ==
  \/ Dialled(t) \/ ReadMessage(t) \/ ReadNothing(t) \/ ReadAcknowledge(t)
  \/ Flushed(t) \/ FlushFailed(t)

Peer(k) == PeerVanishes(k) \/ \E m \in PeerSays : PeerSends(k, m)

Next ==
  \/ \E t \in Threads : Enter(t) \/ Prompt(t) \/ Network(t)
  \/ \E k \in Ids : Peer(k)

Spec == Init /\ [][Next]_vars

(* A woken task is polled again and runs to its next suspension; a thread  *)
(* in a registry operation goes on.  The network owes nothing.             *)
FairSpec == Spec /\ \A t \in Threads : WF_vars(Prompt(t))

(* Besides, a peer that reads: what is flushed often enough gets out, or   *)
(* fails.  It need not send anything.                                      *)
DrainedSpec ==
  FairSpec /\ \A t \in Threads : SF_vars(Flushed(t) \/ FlushFailed(t) \/ ReadAcknowledge(t))

-----------------------------------------------------------------------------
(* A connection in the registry belongs to a client in the registry: one   *)
(* made while Client.Close ran is not left behind with nothing to cancel it*)
(* (create_connection's second look).                                      *)
ConnsHaveClient == \A k \in conns : owner[k] \in clients

(* Clients and connections share one number space; no handle names both.   *)
KindsDisjoint == clients \subseteq IssuedClients /\ conns \subseteq IssuedConns

OwnersAreClients ==
  \A h \in Ids : owner[h] # 0 => h \in Issued /\ owner[h] \in IssuedClients

CancelledIsClosed == cancelled \subseteq Issued \ (clients \union conns)

(* What threads inside the bridge work on was issued, and a handle waiting *)
(* to be cancelled has left the registry.                                  *)
WorkersKnowHandles ==
  \A t \in Threads :
    /\ pc[t] = "cancel" => arg[t] \in Issued \ (clients \union conns)
    /\ pc[t] = "build" => arg[t] \in IssuedClients
    /\ pc[t] \in TaskPlaces => arg[t] \in IssuedConns

(* A connection out of the registry is cancelled, by its own token or its  *)
(* client's, or the thread that took it or its client out is about to.     *)
IsBeingCancelled(h) ==
  \E t \in Threads : pc[t] = "cancel" /\ arg[t] \in {h, owner[h]}

ClosedIsCancelled ==
  \A h \in Issued \ (clients \union conns) : IsCancelled(h) \/ IsBeingCancelled(h)

(* The inductive invariant of the registry. *)
RegistryInv ==
  /\ TypeOK /\ KindsDisjoint /\ OwnersAreClients /\ ConnsHaveClient
  /\ CancelledIsClosed /\ WorkersKnowHandles /\ ClosedIsCancelled

(* However many threads write, the peer never meets a fragment of one      *)
(* message inside another, as long as nobody closes the connection.        *)
MessagesWhole == \A k \in torn : IsCancelled(k)

(* The same without the reserve, as websocket_client.rs:77-78 and the      *)
(* package's README put it.  A writer whose poll began before the          *)
(* cancellation takes the lock the cancelled one drops in mid-message.     *)
FragmentsContiguous == torn = {}

(* A control frame that has queued at the gate waits for one fragment at   *)
(* most, whoever writes and however long the messages are.                 *)
ControlsComeNext == \A t \in Threads : passed[t] <= 1

(* A connection is dialled once, whatever calls race to connect it. *)
DialledOnce == \A k \in Ids : dialled[k] <= 1

(* Nobody waits for a message behind the peer's Close: later reads, and    *)
(* those that queued up while it was being read, report end of stream.     *)
NoReadPastClose == \A t \in Threads : pc[t] = "next" => arg[t] \notin peerClosed

(* Each operation passes through places of its own. *)
OnItsWay(t) ==
  \/ op[t] = "none" /\ pc[t] = "idle"
  \/ op[t] = "create_connection" /\ pc[t] = "build"
  \/ op[t] \in {"close", "close_connection"} /\ pc[t] = "cancel"
  \/ op[t] = "connect" /\ pc[t] \in {"start", "dial", "split"}
  \/ op[t] = "read" /\ pc[t] \in {"start", "reader", "next", "flag", "gate"}
  \/ op[t] = "write" /\ pc[t] \in {"start", "message", "gate", "flush", "yield"}
  \/ op[t] = "control" /\ pc[t] \in {"start", "gate", "flush"}

(* What a thread holds, and which fragment it is at, fit its place. *)
HoldsWhatFits(t) ==
  /\ t \in awake => pc[t] \in TaskPlaces
  /\ op[t] = "read" => /\ pc[t] \in {"start", "reader", "next"} => held[t] = "none"
                       /\ pc[t] = "flag" => held[t] = "close"
                       /\ pc[t] = "gate" => held[t] \in {"ping", "close"}
  /\ op[t] = "write" => held[t] = "data"
  /\ sent[t] < Fragments
  /\ sent[t] # 0 => op[t] = "write" /\ pc[t] \in {"gate", "flush", "yield"}

Journeys == \A t \in Threads : OnItsWay(t) /\ HoldsWhatFits(t)

(* Every lock is queued for by the calls at work on that connection, once, *)
(* and held by those that rely on it: one reader, one message, one frame   *)
(* on its way out.                                                         *)
Distinct(s) == \A i, j \in 1 .. Len(s) : s[i] = s[j] => i = j

QueuedRight(k, t) ==
  /\ In(readerQ[k], t) <=> arg[t] = k /\ op[t] = "read" /\ pc[t] # "start"
  /\ In(messageQ[k], t) <=> arg[t] = k /\ op[t] = "write" /\ pc[t] # "start"
  /\ In(gate[k], t) <=> arg[t] = k /\ pc[t] \in {"gate", "flush"}

HoldsItsLocks(t) ==
  /\ op[t] = "read" /\ pc[t] \in {"next", "flag", "gate"} => First(readerQ[arg[t]], t)
  /\ op[t] = "write" /\ pc[t] \in {"gate", "flush", "yield"} => First(messageQ[arg[t]], t)
  /\ pc[t] = "flush" => HasGate(t)

Guarded ==
  /\ \A k \in Ids : /\ Distinct(readerQ[k]) /\ Distinct(messageQ[k]) /\ Distinct(gate[k])
                   /\ \A t \in Threads : QueuedRight(k, t)
  /\ \A t \in Threads : HoldsItsLocks(t)

(* A request is there to be taken until the connection is dialled. *)
Undialled == \A k \in Ids : k \in pending \/ k \notin Issued => dialled[k] = 0

(* Nothing more goes out on the connection. *)
Finished(k) == link[k] = "dead" \/ sock[k] # "open"

(* The peer has the beginning of a message of which t has more. *)
MidMessage(t) ==
  /\ op[t] = "write"
  /\ \/ pc[t] \in {"gate", "yield"} /\ sent[t] > 0
     \/ pc[t] = "flush" /\ sent[t] + 1 < Fragments

(* A message stays unfinished only on a connection that is over. *)
Unfinished ==
  /\ \A t \in Threads : MidMessage(t) => assembling[arg[t]] = t
  /\ \A k \in Ids : assembling[k] # NoThread =>
       /\ k \in writers
       /\ \/ MidMessage(assembling[k]) /\ arg[assembling[k]] = k
          \/ IsCancelled(k)
          \/ Finished(k)

(* A control frame that was passed has no writer waiting ahead of it. *)
PassedOnce ==
  \A t \in Threads : passed[t] > 0 =>
    /\ op[t] = "control" /\ pc[t] \in {"gate", "flush"}
    /\ \A u \in Threads :
         pc[t] = "gate" /\ Before(gate[arg[t]], u, t) => ~(op[u] = "write" /\ pc[u] = "gate")

(* The inductive invariant of a connection, whatever calls race on it.     *)
ConnInv ==
  /\ TypeOK /\ Journeys /\ Guarded
  /\ DialledOnce /\ Undialled /\ NoReadPastClose
  /\ Unfinished /\ MessagesWhole /\ PassedOnce /\ ControlsComeNext

(* The call of t ends in this step. *)
Returning(t) == pc[t] \in TaskPlaces /\ pc'[t] = "idle"

(* A read that took the peer's Close returns it, even if it cannot be      *)
(* acknowledged; only closing the connection can take it away.             *)
PeerCloseDelivered ==
  [][\A t \in Threads :
       Returning(t) /\ op[t] = "read" /\ held[t] = "close"
         => res'[t] = "close" \/ IsCancelled(arg[t])]_vars

(* Once the peer's Close is in hand no write ends in a socket failure, for *)
(* the Go side would close the connection on one.                          *)
WritesSpareClose ==
  [][\A t \in Threads :
       Returning(t) /\ op[t] \in {"write", "control"} /\ arg[t] \in peerClosed
         => res'[t] # "websocket"]_vars

(* Closing a connection or its client unblocks every thread at work on it, *)
(* whatever it waits for.                                                  *)
ClosedCallsReturn ==
  \A t \in Threads : \A k \in Ids :
    (k \in IssuedConns /\ k \notin conns /\ pc[t] \in TaskPlaces /\ arg[t] = k)
      ~> (pc[t] = "idle" \/ arg[t] # k)

(* With a peer that reads, every write ends: a silent peer or a read that  *)
(* waits for it cannot hold writers up, nor can writers starve a control.  *)
WritesReturn ==
  \A t \in Threads :
    (pc[t] \in TaskPlaces /\ op[t] \in {"write", "control"}) ~> pc[t] = "idle"

-----------------------------------------------------------------------------
(* The bridge implements the handle table. *)
Table == INSTANCE HandleTable WITH
           Handles <- Ids, NoParent <- 0,
           issued <- Issued, live <- clients \union conns,
           parent <- owner, released <- {h \in Ids : IsCancelled(h)}

TableSpec == Table!Spec
=============================================================================
