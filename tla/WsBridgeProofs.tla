--------------------------- MODULE WsBridgeProofs ---------------------------
(***************************************************************************)
(* Theorems about WsBridge, for any number of threads, any handle space    *)
(* and any number of fragments: type correctness, the registry invariant,  *)
(* and that the bridge implements HandleTable.                             *)
(***************************************************************************)
EXTENDS WsBridge, SequenceTheorems, TLAPS

-----------------------------------------------------------------------------
(* Queues. *)

(* A queue that a thread leaves is a queue of the same threads but it.     *)
LEMMA LeaveType ==
  ASSUME NEW S, NEW s \in Seq(S), NEW t
  PROVE  Leave(s, t) \in Seq(S)
<1>1. CASE ~In(s, t)
  BY <1>1 DEF Leave
<1>2. CASE In(s, t)
  <2>1. PICK i \in 1 .. Len(s) :
          Leave(s, t) = [j \in 1 .. Len(s) - 1 |-> IF j < i THEN s[j] ELSE s[j + 1]]
    BY <1>2 DEF Leave, In
  <2>2. Len(s) \in Nat /\ Len(s) - 1 \in Nat /\ \A j \in 1 .. Len(s) : s[j] \in S
    BY <2>1, LenProperties
  <2>3. \A j \in 1 .. Len(s) - 1 : (IF j < i THEN s[j] ELSE s[j + 1]) \in S
    BY <2>1, <2>2
  <2> QED BY <2>1, <2>2, <2>3
<1> QED BY <1>1, <1>2

LEMMA WithoutType ==
  ASSUME QueuesOK, NEW t \in Threads
  PROVE  /\ Without(readerQ, t) \in [Ids -> Seq(Threads)]
         /\ Without(messageQ, t) \in [Ids -> Seq(Threads)]
         /\ Without(gate, t) \in [Ids -> Seq(Threads)]
BY LeaveType DEF QueuesOK, Without

LEMMA JoinType ==
  ASSUME QueuesOK, NEW t \in Threads, arg[t] \in Ids
  PROVE  /\ Join(readerQ, t) \in [Ids -> Seq(Threads)]
         /\ Join(messageQ, t) \in [Ids -> Seq(Threads)]
         /\ Join(gate, t) \in [Ids -> Seq(Threads)]
BY AppendProperties DEF QueuesOK, Join

-----------------------------------------------------------------------------
(* Type correctness. *)

(* The ways a thread moves keep the thread variables in their types.       *)
LEMMA ThreadMoves ==
  ASSUME ThreadsOK, NEW t \in Threads
  PROVE  /\ \A o \in Operations, h \in Ids, m \in Messages \union {"none"},
              p \in {"build", "cancel", "start"} :
              Start(t, o, h, p, m) => ThreadsOK'
         /\ \A h \in 0 .. MaxId, r \in Results :
              StartAndReturn(t, h, r) => ThreadsOK'
         /\ \A p \in TaskPlaces : pc[t] # "idle" /\ Goto(t, p) => ThreadsOK'
         /\ \A h \in 0 .. MaxId, r \in Results : Answer(t, h, r) => ThreadsOK'
<1>1. ASSUME NEW o \in Operations, NEW h \in Ids, NEW m \in Messages \union {"none"},
             NEW p \in {"build", "cancel", "start"}, Start(t, o, h, p, m)
      PROVE  ThreadsOK'
  <2>1. h \in 0 .. MaxId
    BY WsAssumption DEF Ids
  <2>2. "none" \in Results /\ "start" \in TaskPlaces
    BY DEF Results, TaskPlaces
  <2> QED BY <1>1, <2>1, <2>2 DEF ThreadsOK, Start
<1>2. ASSUME NEW h \in 0 .. MaxId, NEW r \in Results, StartAndReturn(t, h, r)
      PROVE  ThreadsOK'
  BY <1>2 DEF ThreadsOK, StartAndReturn
<1>3. ASSUME NEW p \in TaskPlaces, pc[t] # "idle", Goto(t, p) PROVE ThreadsOK'
  BY <1>3 DEF ThreadsOK, Goto
<1>4. ASSUME NEW h \in 0 .. MaxId, NEW r \in Results, Answer(t, h, r) PROVE ThreadsOK'
  <2>1. 0 \in 0 .. Fragments /\ "none" \in Operations
    BY WsAssumption DEF Operations
  <2> QED BY <1>4, <2>1 DEF ThreadsOK, Answer
<1> QED BY <1>1, <1>2, <1>3, <1>4

(* A task that returns leaves every queue. *)
LEMMA ReturnType ==
  ASSUME TypeOK, NEW t \in Threads, NEW r \in Results, Return(t, r)
  PROVE  /\ ThreadsOK' /\ QueuesOK'
         /\ passed' \in [Threads -> 0 .. 2]
<1>1. 0 \in 0 .. MaxId /\ Answer(t, 0, r) /\ Unlock(t)
  BY WsAssumption DEF Return
<1>2. ThreadsOK'
  BY <1>1, ThreadMoves DEF TypeOK
<1>3. QueuesOK'
  BY <1>1, WithoutType DEF TypeOK, QueuesOK, Unlock
<1>4. passed' \in [Threads -> 0 .. 2]
  BY <1>1 DEF TypeOK, PeerViewOK, Unlock
<1> QED BY <1>2, <1>3, <1>4

(* Issued handles are handles. *)
LEMMA IssuedType ==
  ASSUME RegistryOK
  PROVE  Issued \subseteq Ids /\ IssuedConns \subseteq Ids /\ IssuedClients \subseteq Ids
BY WsAssumption DEF RegistryOK, Issued, IssuedConns, IssuedClients, Ids

(* A new handle is within the handle space: next() never wraps. *)
LEMMA IssueType ==
  ASSUME RegistryOK, NEW h \in Ids, Issue(h)
  PROVE  /\ nextId' \in 0 .. MaxId
         /\ nextId' = nextId + 1
         /\ h = nextId + 1
BY WsAssumption DEF RegistryOK, Issue, Ids

(* The exported functions as they are entered. *)
LEMMA TypeEnter ==
  ASSUME TypeOK, NEW t \in Threads, Enter(t)
  PROVE  TypeOK'
<1> USE DEF TypeOK
<1>0. IssuedConns \subseteq Ids /\ IssuedClients \subseteq Ids
  BY IssuedType
<1>1. CASE Create(t)
  <2>1. RegistryOK'
    <3>1. ASSUME NEW h \in Ids, Issue(h), clients' = clients \union {h}
          PROVE  RegistryOK'
      BY <1>1, <3>1, IssueType DEF Create, RegistryOK
    <3>2. ASSUME UNCHANGED <<nextId, clients>> PROVE RegistryOK'
      BY <1>1, <3>2 DEF Create, RegistryOK
    <3> QED BY <1>1, <3>1, <3>2 DEF Create
  <2>2. PICK h \in 0 .. MaxId, r \in Results : StartAndReturn(t, h, r)
    BY <1>1, WsAssumption DEF Create, Ids, Results
  <2>3. ThreadsOK'
    BY <2>2, ThreadMoves
  <2> QED
    BY <1>1, <2>1, <2>3 DEF Create, ConnsOK, QueuesOK, SocketsOK, PeerViewOK, connVars,
                            lockVars, socketVars, history
<1>2. ASSUME NEW h \in Ids, Close(t, h) \/ CloseConnection(t, h) \/ CreateConnection(t, h)
      PROVE  TypeOK'
  <2>1. RegistryOK'
    BY <1>2 DEF Close, CloseConnection, CreateConnection, RegistryOK, registryVars
  <2>2. ThreadsOK'
    <3>1. \/ \E o \in Operations, p \in {"build", "cancel"} : Start(t, o, h, p, "none")
          \/ \E r \in Results : StartAndReturn(t, 0, r)
      BY <1>2 DEF Close, CloseConnection, CreateConnection, Operations, Results
    <3> QED BY <3>1, ThreadMoves, WsAssumption
  <2> QED
    BY <1>2, <2>1, <2>2 DEF Close, CloseConnection, CreateConnection, ConnsOK, QueuesOK,
                            SocketsOK, PeerViewOK, connVars, lockVars, socketVars, history
<1>3. ASSUME NEW k \in Ids, NEW o \in Operations, NEW m \in Messages \union {"none"},
             Lookup(t, o, k, m)
      PROVE  TypeOK'
  <2>1. Start(t, o, k, "start", m) \/ StartAndReturn(t, 0, "closed")
    BY <1>3 DEF Lookup
  <2>2. ThreadsOK'
    BY <2>1, ThreadMoves, WsAssumption DEF Results
  <2> QED
    BY <1>3, <2>2 DEF Lookup, RegistryOK, ConnsOK, QueuesOK, SocketsOK, PeerViewOK,
                      registryVars, connVars, lockVars, socketVars, history
<1>4. ASSUME NEW k \in IssuedConns,
             \/ Connect(t, k) \/ Read(t, k) \/ Write(t, k)
             \/ \E m \in {"ping", "close"} : Control(t, k, m)
      PROVE  \E o \in Operations, m \in Messages \union {"none"} : Lookup(t, o, k, m)
  BY <1>4 DEF Connect, Read, Write, Control, Operations, Messages
<1> QED BY <1>0, <1>1, <1>2, <1>3, <1>4 DEF Enter

(* The registry's other two steps. *)
LEMMA TypeRegistry ==
  ASSUME TypeOK, NEW t \in Threads, Cancel(t) \/ Register(t)
  PROVE  TypeOK'
<1> USE DEF TypeOK
<1>1. pc[t] \in {"cancel", "build"} /\ arg[t] \in Ids /\ arg[t] \in 0 .. MaxId
  BY DEF Cancel, Register, ThreadsOK
<1>2. ThreadsOK'
  <2>1. \E h \in 0 .. MaxId, r \in Results : Answer(t, h, r)
    BY WsAssumption DEF Cancel, Register, Results, Ids
  <2> QED BY <2>1, ThreadMoves
<1>3. RegistryOK' /\ ConnsOK'
  <2>1. CASE Cancel(t)
    BY <1>1, <2>1 DEF Cancel, RegistryOK, ConnsOK, registryVars, connVars, history
  <2>2. ASSUME NEW h \in Ids, Issue(h), conns' = conns \union {h},
               owner' = [owner EXCEPT ![h] = arg[t]], pending' = pending \union {h},
               Register(t)
        PROVE  RegistryOK' /\ ConnsOK'
    BY <1>1, <2>2, IssueType DEF Register, RegistryOK, ConnsOK, history
  <2>3. ASSUME UNCHANGED <<nextId, conns, owner, pending>>, Register(t)
        PROVE  RegistryOK' /\ ConnsOK'
    BY <2>3 DEF Register, RegistryOK, ConnsOK, history
  <2> QED BY <2>1, <2>2, <2>3 DEF Register
<1> QED
  BY <1>2, <1>3 DEF Cancel, Register, QueuesOK, SocketsOK, PeerViewOK, lockVars,
                    socketVars, history

(* What the steps of a task do to the threads and the queues. *)
Tasked(t) ==
  \/ Abort(t) \/ Poll(t) \/ Suspend(t)
  \/ ConnectStart(t) \/ Dialled(t) \/ Connected(t)
  \/ ReadStart(t) \/ ReadLocked(t) \/ ReadMessage(t) \/ ReadNothing(t)
  \/ ReadFlag(t) \/ ReadAcknowledge(t)
  \/ WriteStart(t) \/ WriteLocked(t) \/ ControlStart(t) \/ NextFragment(t)
  \/ SendFrame(t) \/ SendRefused(t) \/ Flushed(t) \/ FlushFailed(t)

LEMMA TaskedWorks ==
  ASSUME TypeOK, NEW t \in Threads, Tasked(t)
  PROVE  /\ pc[t] \in TaskPlaces /\ arg[t] \in Ids
         /\ UNCHANGED <<registryVars, cancelled>>
<1>1. pc[t] \in TaskPlaces
  BY DEF Tasked, Abort, Poll, Suspend, ConnectStart, Dialled, Connected, ReadStart,
         ReadLocked, ReadMessage, ReadNothing, ReadFlag, ReadAcknowledge, WriteStart,
         WriteLocked, ControlStart, NextFragment, SendFrame, SendRefused, Flushed,
         FlushFailed, Runs, Waits, TaskPlaces
<1>2. arg[t] \in Ids
  BY <1>1 DEF TypeOK, ThreadsOK, TaskPlaces
<1>3. UNCHANGED <<registryVars, cancelled>>
  BY DEF Tasked, Abort, Poll, Suspend, ConnectStart, Dialled, Connected, ReadStart,
         ReadLocked, ReadMessage, ReadNothing, ReadFlag, ReadAcknowledge, WriteStart,
         WriteLocked, ControlStart, NextFragment, SendFrame, SendRefused, Flushed,
         FlushFailed
<1> QED BY <1>1, <1>2, <1>3

(* How a step of a task moves it: it returns, goes on to another place, or *)
(* wakes or sleeps where it is.                                            *)
LEMMA TypeTaskThreads ==
  ASSUME TypeOK, NEW t \in Threads, Tasked(t)
  PROVE  ThreadsOK' /\ QueuesOK' /\ passed' \in [Threads -> 0 .. 2]
<1> USE DEF TypeOK
<1>0. pc[t] \in TaskPlaces /\ pc[t] # "idle" /\ arg[t] \in Ids
  BY TaskedWorks DEF TaskPlaces
<1>1. ASSUME \E r \in Results : Return(t, r)
      PROVE  ThreadsOK' /\ QueuesOK' /\ passed' \in [Threads -> 0 .. 2]
  BY <1>1, ReturnType
<1>2. ASSUME NEW p \in TaskPlaces, Goto(t, p), QueuesOK', passed' \in [Threads -> 0 .. 2]
      PROVE  ThreadsOK' /\ QueuesOK' /\ passed' \in [Threads -> 0 .. 2]
  BY <1>0, <1>2, ThreadMoves
<1>3. CASE Abort(t)
  BY <1>1, <1>3 DEF Abort, Results
<1>4. CASE Poll(t) \/ Suspend(t)
  <2>1. /\ awake' \subseteq Threads
        /\ UNCHANGED <<pc, op, arg, res, held, sent, lockVars, passed>>
    BY <1>4 DEF Poll, Suspend, ThreadsOK, history
  <2> QED BY <2>1 DEF ThreadsOK, QueuesOK, PeerViewOK, lockVars
<1>5. CASE ConnectStart(t) \/ Dialled(t) \/ Connected(t)
  <2>1. \/ \E r \in Results : Return(t, r)
        \/ /\ \E p \in TaskPlaces : Goto(t, p)
           /\ UNCHANGED <<lockVars, passed>>
    BY <1>5 DEF ConnectStart, Dialled, Connected, Results, TaskPlaces
  <2> QED BY <1>1, <1>2, <2>1 DEF QueuesOK, PeerViewOK, lockVars
<1>6. CASE ReadStart(t) \/ ReadFlag(t) \/ WriteStart(t) \/ WriteLocked(t)
             \/ ControlStart(t) \/ NextFragment(t)
  <2>1. /\ \E p \in TaskPlaces : Goto(t, p)
        /\ readerQ' = Join(readerQ, t) \/ UNCHANGED readerQ
        /\ messageQ' = Join(messageQ, t) \/ UNCHANGED messageQ
        /\ gate' = Join(gate, t) \/ UNCHANGED gate
        /\ UNCHANGED passed
    BY <1>6 DEF ReadStart, ReadFlag, WriteStart, WriteLocked, ControlStart, NextFragment,
                TaskPlaces, history
  <2>2. QueuesOK'
    BY <1>0, <2>1, JoinType DEF QueuesOK
  <2> QED BY <1>2, <2>1, <2>2 DEF PeerViewOK
<1>7. CASE ReadLocked(t)
  <2>1. \/ \E r \in Results : Return(t, r)
        \/ Goto(t, "next") /\ UNCHANGED <<lockVars, passed>>
    BY <1>7 DEF ReadLocked, AwaitMessage, Results
  <2> QED BY <1>1, <1>2, <2>1 DEF QueuesOK, PeerViewOK, lockVars, TaskPlaces
<1>8. CASE ReadMessage(t)
  <2>1. CASE Return(t, "data")
    BY <1>1, <2>1 DEF Results
  <2>2. CASE ~Return(t, "data")
    <3>1. inbox[arg[t]] \in Seq(Messages) /\ inbox[arg[t]] # <<>>
      BY <1>0, <1>8 DEF ReadMessage, SocketsOK
    <3>2. Head(inbox[arg[t]]) \in Messages
      BY <3>1, HeadTailProperties
    <3>3. /\ held' = [held EXCEPT ![t] = Head(inbox[arg[t]])]
          /\ \E p \in {"flag", "gate"} : pc' = [pc EXCEPT ![t] = p]
          /\ UNCHANGED gate \/ gate' = Join(gate, t)
          /\ UNCHANGED <<awake, op, arg, res, sent, readerQ, messageQ, passed>>
      BY <1>8, <2>2 DEF ReadMessage
    <3>4. QueuesOK'
      BY <1>0, <3>3, JoinType DEF QueuesOK
    <3>5. ThreadsOK'
      BY <1>0, <3>2, <3>3 DEF ThreadsOK, TaskPlaces
    <3> QED BY <3>3, <3>4, <3>5 DEF PeerViewOK
  <2> QED BY <2>1, <2>2
<1>9. CASE ReadNothing(t)
  BY <1>1, <1>9 DEF ReadNothing, Results
<1>10. CASE ReadAcknowledge(t)
  <2>1. Return(t, held[t]) \/ Return(t, "websocket")
    BY <1>10 DEF ReadAcknowledge
  <2>2. held[t] \in Results
    BY DEF ThreadsOK, Messages, Results
  <2> QED BY <1>1, <2>1, <2>2 DEF Results
<1>11. CASE SendFrame(t)
  <2>1. passed' \in [Threads -> 0 .. 2]
    BY <1>11 DEF SendFrame, Observe, PeerViewOK
  <2>2. Goto(t, "flush") /\ QueuesOK'
    BY <1>11 DEF SendFrame, QueuesOK, lockVars
  <2> QED BY <1>2, <2>1, <2>2 DEF TaskPlaces
<1>12. CASE SendRefused(t) \/ FlushFailed(t)
  BY <1>1, <1>12 DEF SendRefused, FlushFailed, WriteErrors, Results
<1>13. CASE Flushed(t)
  <2>1. CASE Return(t, "handle")
    BY <1>1, <2>1 DEF Results
  <2>2. CASE ~Return(t, "handle")
    <3>1. /\ sent[t] + 1 < Fragments
          /\ sent' = [sent EXCEPT ![t] = sent[t] + 1]
          /\ pc' = [pc EXCEPT ![t] = "yield"]
          /\ awake' = awake \ {t}
          /\ gate' = Without(gate, t)
          /\ UNCHANGED <<op, arg, res, held, readerQ, messageQ, passed>>
      BY <1>13, <2>2 DEF Flushed, BetweenFragments
    <3>2. sent[t] + 1 \in 0 .. Fragments
      BY <3>1, WsAssumption DEF ThreadsOK
    <3>3. ThreadsOK'
      BY <1>0, <3>1, <3>2 DEF ThreadsOK, TaskPlaces
    <3>4. QueuesOK'
      BY <3>1, WithoutType DEF QueuesOK
    <3> QED BY <3>1, <3>3, <3>4 DEF PeerViewOK
  <2> QED BY <2>1, <2>2
<1> QED
  BY <1>3, <1>4, <1>5, <1>6, <1>7, <1>8, <1>9, <1>10, <1>11, <1>12, <1>13 DEF Tasked

(* What a step of a task does to the connection and its socket. *)
LEMMA TypeTaskConns ==
  ASSUME TypeOK, NEW t \in Threads, Tasked(t)
  PROVE  ConnsOK' /\ SocketsOK' /\ assembling' \in [Ids -> Threads \union {NoThread}]
                  /\ torn' \subseteq Ids
<1> USE DEF TypeOK
<1>0. arg[t] \in Ids
  BY TaskedWorks
<1>1. ConnsOK'
  <2>1. /\ pending' \subseteq pending /\ writers' \subseteq writers \union {arg[t]}
        /\ readers' \subseteq readers \union {arg[t]}
        /\ peerClosed' \subseteq peerClosed \union {arg[t]}
    BY DEF Tasked, Abort, Poll, Suspend, ConnectStart, TakeRequest, Dialled, Connected,
           ReadStart, ReadLocked, ReadMessage, ReadNothing, ReadFlag, ReadAcknowledge,
           WriteStart, WriteLocked, ControlStart, NextFragment, SendFrame, SendRefused,
           Flushed, FlushFailed, connVars
  <2>2. \/ UNCHANGED dialled
        \/ dialled' = [dialled EXCEPT ![arg[t]] =
                         IF dialled[arg[t]] < 2 THEN dialled[arg[t]] + 1 ELSE dialled[arg[t]]]
    BY DEF Tasked, Abort, Poll, Suspend, ConnectStart, Dialled, Connected,
           ReadStart, ReadLocked, ReadMessage, ReadNothing, ReadFlag, ReadAcknowledge,
           WriteStart, WriteLocked, ControlStart, NextFragment, SendFrame, SendRefused,
           Flushed, FlushFailed, history
  <2>3. dialled' \in [Ids -> 0 .. 2]
    BY <1>0, <2>2 DEF ConnsOK
  <2> QED BY <1>0, <2>1, <2>3 DEF ConnsOK
<1>2. SocketsOK'
  <2>1. CASE UNCHANGED inbox
    <3>1. /\ sock' \in [Ids -> {"open", "closing", "over"}]
          /\ reply' \in [Ids -> {"none", "pong", "close"}]
          /\ link' \in [Ids -> {"up", "half", "down", "dead"}]
      <4>1. /\ \/ UNCHANGED sock
               \/ \E x \in {"open", "closing", "over"} : sock' = [sock EXCEPT ![arg[t]] = x]
            /\ \/ UNCHANGED reply
               \/ \E x \in {"none", "pong", "close"} : reply' = [reply EXCEPT ![arg[t]] = x]
            /\ UNCHANGED link \/ link' = [link EXCEPT ![arg[t]] = "dead"]
        <5>1. sock[arg[t]] \in {"open", "closing", "over"}
          BY <1>0 DEF SocketsOK
        <5>2. reply[arg[t]] \in {"none", "pong", "close"}
          BY <1>0 DEF SocketsOK
        <5> QED
          BY <5>1, <5>2
          DEF Tasked, Abort, Poll, Suspend, ConnectStart, Dialled, Connected, ReadStart,
              ReadLocked, ReadMessage, Take, ReadNothing, ReadFlag, ReadAcknowledge,
              WriteStart, WriteLocked, ControlStart, NextFragment, SendFrame, SendRefused,
              Flushed, FlushFailed, socketVars
      <4>2. sock' \in [Ids -> {"open", "closing", "over"}]
        BY <4>1 DEF SocketsOK
      <4>3. reply' \in [Ids -> {"none", "pong", "close"}]
        BY <4>1 DEF SocketsOK
      <4>4. link' \in [Ids -> {"up", "half", "down", "dead"}]
        BY <4>1 DEF SocketsOK
      <4> QED BY <4>2, <4>3, <4>4
    <3> QED BY <2>1, <3>1 DEF SocketsOK
  <2>2. CASE ReadMessage(t)
    <3>1. inbox[arg[t]] \in Seq(Messages) /\ inbox[arg[t]] # <<>>
      BY <1>0, <2>2 DEF ReadMessage, SocketsOK
    <3>2. Tail(inbox[arg[t]]) \in Seq(Messages)
      BY <3>1, HeadTailProperties
    <3> QED BY <1>0, <2>2, <3>2 DEF ReadMessage, Take, SocketsOK
  <2>3. UNCHANGED inbox \/ ReadMessage(t)
    BY DEF Tasked, Abort, Poll, Suspend, ConnectStart, Dialled, Connected, ReadStart,
           ReadLocked, ReadNothing, ReadFlag, ReadAcknowledge, WriteStart,
           WriteLocked, ControlStart, NextFragment, SendFrame, SendRefused, Flushed,
           FlushFailed, socketVars
  <2> QED BY <2>1, <2>2, <2>3
<1>3. assembling' \in [Ids -> Threads \union {NoThread}] /\ torn' \subseteq Ids
  <2>1. CASE SendFrame(t)
    BY <1>0, <2>1 DEF SendFrame, Observe, PeerViewOK
  <2>2. SendFrame(t) \/ UNCHANGED <<assembling, torn>>
    BY DEF Tasked, Abort, Poll, Suspend, ConnectStart, Dialled, Connected, ReadStart,
           ReadLocked, ReadMessage, ReadNothing, ReadFlag, ReadAcknowledge, WriteStart,
           WriteLocked, ControlStart, NextFragment, SendRefused, Flushed, FlushFailed,
           history
  <2> QED BY <2>1, <2>2 DEF PeerViewOK
<1> QED BY <1>1, <1>2, <1>3

LEMMA TypeTask ==
  ASSUME TypeOK, NEW t \in Threads, Tasked(t)
  PROVE  TypeOK'
<1>1. RegistryOK'
  BY TaskedWorks DEF TypeOK, RegistryOK, registryVars
<1> QED BY <1>1, TypeTaskThreads, TypeTaskConns DEF TypeOK, PeerViewOK

LEMMA TypePeer ==
  ASSUME TypeOK, NEW k \in Ids, Peer(k)
  PROVE  TypeOK'
<1>1. SocketsOK'
  <2>1. ASSUME NEW m \in PeerSays, PeerSends(k, m) PROVE SocketsOK'
    <3>1. m \in Messages
      BY WsAssumption DEF Messages
    <3>2. Append(inbox[k], m) \in Seq(Messages)
      BY <3>1, AppendProperties DEF TypeOK, SocketsOK
    <3> QED BY <2>1, <3>2 DEF PeerSends, TypeOK, SocketsOK
  <2>2. CASE PeerVanishes(k)
    BY <2>2 DEF PeerVanishes, TypeOK, SocketsOK
  <2> QED BY <2>1, <2>2 DEF Peer
<1> QED
  BY <1>1 DEF Peer, PeerSends, PeerVanishes, TypeOK, RegistryOK, ConnsOK, QueuesOK,
              ThreadsOK, PeerViewOK, registryVars, connVars, lockVars, callVars, history

LEMMA TypeInit == Init => TypeOK
BY WsAssumption, EmptySeq
DEF Init, NothingYet, TypeOK, RegistryOK, ConnsOK, QueuesOK, SocketsOK, ThreadsOK,
    PeerViewOK, Ids, Operations, Results, Messages

(* A step is an entry, a step of the registry, of a task, or of the peer.  *)
LEMMA NextSteps ==
  ASSUME Next
  PROVE  \/ \E t \in Threads : Enter(t) \/ Cancel(t) \/ Register(t) \/ Tasked(t)
         \/ \E k \in Ids : Peer(k)
BY DEF Next, Prompt, Network, Tasked

LEMMA TypeNext == TypeOK /\ [Next]_vars => TypeOK'
<1>1. ASSUME TypeOK, UNCHANGED vars PROVE TypeOK'
  BY <1>1 DEF TypeOK, RegistryOK, ConnsOK, QueuesOK, SocketsOK, ThreadsOK, PeerViewOK,
              vars, registryVars, connVars, lockVars, socketVars, callVars, history
<1> QED BY <1>1, NextSteps, TypeEnter, TypeRegistry, TypeTask, TypePeer

(* The state stays in its types, whatever the order in which threads enter *)
(* the bridge and whatever the peer sends.                                 *)
THEOREM TypeCorrect == Spec => []TypeOK
BY TypeInit, TypeNext, PTL DEF Spec

-----------------------------------------------------------------------------
(* The registry invariant. *)

(* A step that leaves the registry and the tokens alone, and no handle     *)
(* without the thread that is about to cancel it.                          *)
LEMMA RegistryQuiet ==
  ASSUME RegistryInv, TypeOK', UNCHANGED <<registryVars, cancelled>>,
         WorkersKnowHandles',
         \A u \in Threads : pc[u] = "cancel" => pc'[u] = "cancel" /\ arg'[u] = arg[u]
  PROVE  RegistryInv'
<1> USE DEF RegistryInv, registryVars, Issued, IssuedConns, IssuedClients
<1>1. KindsDisjoint' /\ OwnersAreClients' /\ ConnsHaveClient' /\ CancelledIsClosed'
  BY DEF KindsDisjoint, OwnersAreClients, ConnsHaveClient, CancelledIsClosed
<1>2. ClosedIsCancelled'
  BY DEF ClosedIsCancelled, IsCancelled, IsBeingCancelled
<1> QED BY <1>1, <1>2

(* A thread that moves neither into nor out of "cancel", to a place whose  *)
(* handle is known.                                                        *)
LEMMA WorkerMoves ==
  ASSUME RegistryInv, TypeOK', UNCHANGED <<registryVars, cancelled>>, NEW t \in Threads,
         \A u \in Threads \ {t} : UNCHANGED <<pc[u], arg[u]>>,
         pc[t] # "cancel", pc'[t] # "cancel",
         pc'[t] = "build" => arg'[t] \in IssuedClients,
         pc'[t] \in TaskPlaces => arg'[t] \in IssuedConns
  PROVE  RegistryInv'
<1>1. WorkersKnowHandles'
  BY DEF RegistryInv, WorkersKnowHandles, registryVars, Issued, IssuedConns, IssuedClients
<1>2. \A u \in Threads : pc[u] = "cancel" => pc'[u] = "cancel" /\ arg'[u] = arg[u]
  OBVIOUS
<1> QED BY <1>1, <1>2, RegistryQuiet

(* Who else moves when t does: nobody. *)
LEMMA OthersStay ==
  ASSUME ThreadsOK, NEW t \in Threads, Enter(t) \/ Cancel(t) \/ Register(t) \/ Tasked(t)
  PROVE  \A u \in Threads \ {t} :
           UNCHANGED <<pc[u], op[u], arg[u], res[u], held[u], sent[u]>>
<1>1. \/ \E o, h, p, m : Start(t, o, h, p, m)
      \/ \E h, r : StartAndReturn(t, h, r)
      \/ \E h, r : Answer(t, h, r)
      \/ \E p : Goto(t, p)
      \/ UNCHANGED <<pc, op, arg, res, held, sent>>
      \/ /\ \E p : pc' = [pc EXCEPT ![t] = p]
         /\ held' = [held EXCEPT ![t] = held'[t]] /\ sent' = [sent EXCEPT ![t] = sent'[t]]
         /\ UNCHANGED <<op, arg, res>>
  <2>1. CASE Enter(t)
    BY <2>1 DEF Enter, Create, Close, CloseConnection, CreateConnection, Connect, Read,
                Write, Control, Lookup
  <2>2. CASE Cancel(t) \/ Register(t)
    BY <2>2 DEF Cancel, Register
  <2>3. CASE Tasked(t)
    <3>1. ASSUME ReadMessage(t)
          PROVE  (\E h, r : Answer(t, h, r)) \/
                 (/\ \E p : pc' = [pc EXCEPT ![t] = p]
                  /\ \E m : held' = [held EXCEPT ![t] = m]
                  /\ UNCHANGED <<op, arg, res, sent>>)
      BY <3>1 DEF ReadMessage, Return
    <3>2. ASSUME Flushed(t)
          PROVE  (\E h, r : Answer(t, h, r)) \/
                 (/\ \E p : pc' = [pc EXCEPT ![t] = p]
                  /\ \E m : sent' = [sent EXCEPT ![t] = m]
                  /\ UNCHANGED <<op, arg, res, held>>)
      BY <3>2 DEF Flushed, Return
    <3>3. ReadMessage(t) \/ Flushed(t) \/ (\E h, r : Answer(t, h, r))
          \/ (\E p : Goto(t, p)) \/ UNCHANGED <<pc, op, arg, res, held, sent>>
      BY <2>3 DEF Tasked, Abort, Poll, Suspend, ConnectStart, Dialled, Connected, ReadStart,
                  ReadLocked, ReadNothing, ReadFlag, ReadAcknowledge, WriteStart, WriteLocked,
                  ControlStart, NextFragment, SendFrame, SendRefused, FlushFailed, Return
    <3> QED BY <3>1, <3>2, <3>3 DEF ThreadsOK
  <2> QED BY <2>1, <2>2, <2>3
<1> QED BY <1>1 DEF Start, StartAndReturn, Answer, Goto, ThreadsOK

(* A task keeps its handle until it returns. *)
LEMMA TaskStays ==
  ASSUME TypeOK, NEW t \in Threads, Tasked(t)
  PROVE  \/ pc'[t] = "idle"
         \/ pc'[t] \in TaskPlaces /\ UNCHANGED <<op[t], arg[t]>>
<1>1. pc[t] \in TaskPlaces
  BY TaskedWorks
<1>2. \/ \E r : Return(t, r)
      \/ \E p \in TaskPlaces : pc' = [pc EXCEPT ![t] = p] /\ UNCHANGED <<op, arg>>
      \/ UNCHANGED <<pc, op, arg>>
  BY DEF Tasked, Abort, Poll, Suspend, ConnectStart, Dialled, Connected, ReadStart,
         ReadLocked, ReadMessage, ReadNothing, ReadFlag, ReadAcknowledge, WriteStart,
         WriteLocked, ControlStart, NextFragment, SendFrame, SendRefused, Flushed,
         FlushFailed, Goto, TaskPlaces
<1> QED BY <1>1, <1>2 DEF Return, Answer, TypeOK, ThreadsOK

(* A client or a connection gets the next number: unknown to every thread, *)
(* token and connection so far.                                            *)
LEMMA IssuedGrows ==
  ASSUME RegistryInv, NEW h \in Ids, Issue(h)
  PROVE  /\ Issued' = Issued \union {h}
         /\ h \notin Issued
         /\ owner[h] = 0
         /\ h \notin clients \union conns \union cancelled
<1>1. nextId' = nextId + 1 /\ h = nextId + 1 /\ nextId \in Nat
  BY IssueType, WsAssumption DEF RegistryInv, TypeOK, RegistryOK
<1>2. Issued' = Issued \union {h} /\ h \notin Issued
  BY <1>1 DEF Issued
<1> QED
  BY <1>2 DEF RegistryInv, OwnersAreClients, KindsDisjoint, CancelledIsClosed,
              IssuedClients, IssuedConns

LEMMA RegistryCreate ==
  ASSUME RegistryInv, TypeOK', NEW t \in Threads, Create(t)
  PROVE  RegistryInv'
<1> USE DEF RegistryInv
<1>1. /\ pc[t] = "idle" /\ UNCHANGED <<pc, conns, owner, cancelled>>
      /\ \A u \in Threads \ {t} : arg'[u] = arg[u]
  BY DEF Create, StartAndReturn, TypeOK, ThreadsOK
<1>2. "idle" \notin TaskPlaces
  BY DEF TaskPlaces
<1>3. ASSUME NEW h \in Ids, Issue(h), clients' = clients \union {h}
      PROVE  RegistryInv'
  <2>1. /\ Issued' = Issued \union {h} /\ h \notin Issued /\ owner[h] = 0
        /\ h \notin clients \union conns \union cancelled
    BY <1>3, IssuedGrows
  <2>2. IssuedClients' = IssuedClients \union {h} /\ IssuedConns' = IssuedConns
    BY <1>1, <2>1 DEF IssuedClients, IssuedConns
  <2>3. KindsDisjoint' /\ OwnersAreClients' /\ ConnsHaveClient' /\ CancelledIsClosed'
    BY <1>1, <1>3, <2>1, <2>2
    DEF KindsDisjoint, OwnersAreClients, ConnsHaveClient, CancelledIsClosed
  <2>4. WorkersKnowHandles'
    BY <1>1, <1>2, <1>3, <2>1, <2>2 DEF WorkersKnowHandles
  <2>5. ClosedIsCancelled'
    BY <1>1, <1>3, <2>1 DEF ClosedIsCancelled, IsCancelled, IsBeingCancelled
  <2> QED BY <2>3, <2>4, <2>5
<1>4. ASSUME UNCHANGED <<nextId, clients>> PROVE RegistryInv'
  BY <1>1, <1>2, <1>4, WorkerMoves DEF registryVars
<1> QED BY <1>3, <1>4 DEF Create

LEMMA RegistryRegister ==
  ASSUME RegistryInv, TypeOK', NEW t \in Threads, Register(t)
  PROVE  RegistryInv'
<1> USE DEF RegistryInv
<1>1. /\ pc[t] = "build" /\ UNCHANGED <<clients, cancelled>>
      /\ pc'[t] = "idle" /\ \A u \in Threads \ {t} : UNCHANGED <<pc[u], arg[u]>>
  BY DEF Register, Answer, TypeOK, ThreadsOK
<1>2. arg[t] \in Ids /\ arg[t] \in IssuedClients
  BY <1>1 DEF TypeOK, ThreadsOK, WorkersKnowHandles
<1>0. "idle" \notin TaskPlaces
  BY DEF TaskPlaces
<1>3. ASSUME NEW h \in Ids, Issue(h), StillOpen(arg[t]),
             conns' = conns \union {h}, owner' = [owner EXCEPT ![h] = arg[t]]
      PROVE  RegistryInv'
  <2>1. /\ Issued' = Issued \union {h} /\ h \notin Issued /\ owner[h] = 0
        /\ h \notin clients \union conns \union cancelled
    BY <1>3, IssuedGrows
  <2>2. /\ owner'[h] = arg[t] /\ arg[t] # 0
        /\ \A k \in Ids \ {h} : owner'[k] = owner[k]
        /\ Issued \subseteq Ids
    BY <1>2, <1>3, IssuedType DEF TypeOK, RegistryOK, Ids
  <2>3. IssuedClients' = IssuedClients /\ IssuedConns' = IssuedConns \union {h}
    BY <2>1, <2>2 DEF IssuedClients, IssuedConns
  <2>4. KindsDisjoint' /\ OwnersAreClients' /\ CancelledIsClosed'
    BY <1>1, <1>2, <1>3, <2>1, <2>2, <2>3
    DEF KindsDisjoint, OwnersAreClients, CancelledIsClosed
  <2>5. ConnsHaveClient'
    BY <1>1, <1>3, <2>1, <2>2 DEF ConnsHaveClient, StillOpen, TypeOK, RegistryOK
  <2>6. WorkersKnowHandles'
    BY <1>0, <1>1, <1>3, <2>1, <2>3 DEF WorkersKnowHandles
  <2>7. ClosedIsCancelled'
    BY <1>1, <1>3, <2>1, <2>2 DEF ClosedIsCancelled, IsCancelled, IsBeingCancelled
  <2> QED BY <2>4, <2>5, <2>6, <2>7
<1>4. ASSUME UNCHANGED <<nextId, conns, owner>> PROVE RegistryInv'
  BY <1>0, <1>1, <1>4, WorkerMoves DEF registryVars
<1> QED BY <1>3, <1>4 DEF Register

(* A closer takes the handles of D out of the registry.  The one it will   *)
(* cancel, x, covers them all: itself, or the client that owns them.       *)
LEMMA RegistryRemove ==
  ASSUME RegistryInv, TypeOK', NEW t \in Threads, NEW x \in clients \union conns,
         pc[t] = "idle", pc'[t] = "cancel", arg'[t] = x,
         \A u \in Threads \ {t} : UNCHANGED <<pc[u], arg[u]>>,
         NEW D, D = {x} \union ConnsOf(x),
         clients' = clients \ D, conns' = conns \ D,
         UNCHANGED <<nextId, owner, cancelled>>
  PROVE  RegistryInv'
<1> USE DEF RegistryInv
<1>2. Issued' = Issued /\ IssuedConns' = IssuedConns /\ IssuedClients' = IssuedClients
  BY DEF Issued, IssuedConns, IssuedClients
<1>3. /\ clients \subseteq IssuedClients /\ conns \subseteq IssuedConns
      /\ IssuedClients \subseteq Issued /\ IssuedConns \subseteq Issued
      /\ \A k \in IssuedConns : owner[k] # 0
      /\ \A c \in IssuedClients : owner[c] = 0
  BY DEF KindsDisjoint, IssuedConns, IssuedClients
<1>4. \A d \in D : d = x \/ owner[d] = x
  BY DEF ConnsOf
<1>5. KindsDisjoint' /\ OwnersAreClients' /\ CancelledIsClosed'
  BY <1>2 DEF KindsDisjoint, OwnersAreClients, CancelledIsClosed
<1>6. ConnsHaveClient'
  <2>1. SUFFICES ASSUME NEW k \in conns, k \notin D PROVE owner[k] \notin D
    BY DEF ConnsHaveClient
  <2>2. owner[k] \in clients /\ owner[k] # x
    BY <2>1 DEF ConnsHaveClient, ConnsOf
  <2>3. owner[k] \notin conns
    <3>1. owner[owner[k]] = 0
      BY <1>3, <2>2
    <3> QED BY <1>3, <3>1
  <2> QED BY <2>2, <2>3 DEF ConnsOf
<1>7. WorkersKnowHandles'
  <2>1. "cancel" \notin TaskPlaces /\ x \in Issued
    BY <1>3 DEF TaskPlaces
  <2> QED BY <1>2, <1>3, <2>1 DEF WorkersKnowHandles
<1>8. ClosedIsCancelled'
  <2>1. SUFFICES ASSUME NEW h \in Issued, h \notin (clients \union conns) \ D
                 PROVE  IsCancelled(h)' \/ IsBeingCancelled(h)'
    BY <1>2 DEF ClosedIsCancelled
  <2>2. CASE h \in D
    BY <1>4, <2>2 DEF IsBeingCancelled
  <2>3. CASE h \notin D
    BY <2>1, <2>3 DEF ClosedIsCancelled, IsCancelled, IsBeingCancelled
  <2> QED BY <2>2, <2>3
<1> QED BY <1>5, <1>6, <1>7, <1>8

LEMMA RegistryClose ==
  ASSUME RegistryInv, TypeOK', NEW t \in Threads, NEW h \in Ids,
         \/ h \in IssuedClients /\ Close(t, h)
         \/ h \in IssuedConns /\ CloseConnection(t, h)
  PROVE  RegistryInv'
<1> USE DEF RegistryInv
<1>1. /\ h \in IssuedClients => h \notin conns
      /\ h \in IssuedConns => h \notin clients /\ ConnsOf(h) = {}
  BY DEF KindsDisjoint, IssuedConns, IssuedClients, OwnersAreClients, ConnsOf, TypeOK, RegistryOK
<1>2. CASE h \in clients \union conns
  <2>1. PICK o \in {"close", "close_connection"} : Start(t, o, h, "cancel", "none")
    BY <1>1, <1>2 DEF Close, CloseConnection
  <2>2. clients \intersect ConnsOf(h) = {}
    BY DEF ConnsOf, KindsDisjoint, IssuedClients
  <2>3. /\ clients' = clients \ ({h} \union ConnsOf(h))
        /\ conns' = conns \ ({h} \union ConnsOf(h))
        /\ UNCHANGED <<nextId, owner, cancelled>>
    BY <1>1, <2>2 DEF Close, CloseConnection
  <2>4. /\ pc[t] = "idle" /\ pc'[t] = "cancel" /\ arg'[t] = h
        /\ \A u \in Threads \ {t} : UNCHANGED <<pc[u], arg[u]>>
    BY <2>1 DEF Start, TypeOK, ThreadsOK
  <2> QED BY <1>2, <2>3, <2>4, RegistryRemove
<1>3. CASE h \notin clients \union conns
  <2>1. ConnsOf(h) = {}
    BY <1>3 DEF ConnsOf, ConnsHaveClient
  <2>2. UNCHANGED <<registryVars, cancelled>>
    BY <1>3, <2>1 DEF Close, CloseConnection, registryVars
  <2>3. StartAndReturn(t, 0, "handle")
    BY <1>3 DEF Close, CloseConnection
  <2>4. /\ pc[t] = "idle" /\ pc'[t] = "idle" /\ "idle" \notin TaskPlaces
        /\ \A u \in Threads \ {t} : UNCHANGED <<pc[u], arg[u]>>
    BY <2>3 DEF StartAndReturn, TypeOK, ThreadsOK, TaskPlaces
  <2> QED BY <2>2, <2>4, WorkerMoves
<1> QED BY <1>2, <1>3

LEMMA RegistryCancel ==
  ASSUME RegistryInv, TypeOK', NEW t \in Threads, Cancel(t)
  PROVE  RegistryInv'
<1> USE DEF RegistryInv
<1>1. /\ pc[t] = "cancel" /\ pc'[t] = "idle" /\ cancelled' = cancelled \union {arg[t]}
      /\ UNCHANGED <<nextId, clients, conns, owner>>
      /\ \A u \in Threads \ {t} : UNCHANGED <<pc[u], arg[u]>>
      /\ "idle" \notin TaskPlaces
  BY DEF Cancel, Answer, TypeOK, ThreadsOK, registryVars, TaskPlaces
<1>3. Issued' = Issued /\ IssuedConns' = IssuedConns /\ IssuedClients' = IssuedClients
  BY <1>1 DEF Issued, IssuedConns, IssuedClients
<1>4. KindsDisjoint' /\ OwnersAreClients' /\ ConnsHaveClient'
  BY <1>1, <1>3 DEF KindsDisjoint, OwnersAreClients, ConnsHaveClient
<1>5. CancelledIsClosed' /\ WorkersKnowHandles'
  BY <1>1, <1>3 DEF CancelledIsClosed, WorkersKnowHandles
<1>6. ClosedIsCancelled'
  <2>1. SUFFICES ASSUME NEW h \in Issued \ (clients \union conns)
                 PROVE  IsCancelled(h)' \/ IsBeingCancelled(h)'
    BY <1>1, <1>3 DEF ClosedIsCancelled
  <2>2. CASE IsCancelled(h)
    BY <1>1, <2>2 DEF IsCancelled
  <2>3. CASE arg[t] \in {h, owner[h]}
    <3>1. h \in Ids
      BY IssuedType DEF TypeOK
    <3> QED BY <1>1, <2>3, <3>1 DEF IsCancelled
  <2>4. CASE \E u \in Threads \ {t} : pc[u] = "cancel" /\ arg[u] \in {h, owner[h]}
    BY <1>1, <2>4 DEF IsBeingCancelled
  <2> QED BY <2>2, <2>3, <2>4 DEF ClosedIsCancelled, IsBeingCancelled
<1> QED BY <1>4, <1>5, <1>6

(* Every other function is entered with a handle its caller was given.     *)
LEMMA RegistryEnter ==
  ASSUME RegistryInv, TypeOK', NEW t \in Threads,
         \/ \E c \in IssuedClients : CreateConnection(t, c)
         \/ \E k \in IssuedConns : \E o, m : Lookup(t, o, k, m)
  PROVE  RegistryInv'
<1>1. UNCHANGED <<registryVars, cancelled>>
  BY DEF CreateConnection, Lookup
<1>2. \/ \E r : StartAndReturn(t, 0, r)
      \/ \E c \in IssuedClients : \E o, m : Start(t, o, c, "build", m)
      \/ \E k \in IssuedConns : \E o, m : Start(t, o, k, "start", m)
  BY DEF CreateConnection, Lookup
<1>3. /\ pc[t] = "idle"
      /\ \A u \in Threads \ {t} : UNCHANGED <<pc[u], arg[u]>>
      /\ pc'[t] \in {"idle", "build", "start"}
      /\ pc'[t] = "build" => arg'[t] \in IssuedClients
      /\ pc'[t] = "start" => arg'[t] \in IssuedConns
  BY <1>2 DEF RegistryInv, TypeOK, ThreadsOK, Start, StartAndReturn
<1>4. "idle" \notin TaskPlaces /\ "build" \notin TaskPlaces
  BY DEF TaskPlaces
<1> QED BY <1>1, <1>3, <1>4, WorkerMoves

LEMMA RegistryTask ==
  ASSUME RegistryInv, TypeOK', NEW t \in Threads, Tasked(t)
  PROVE  RegistryInv'
<1>1. /\ pc[t] \in TaskPlaces /\ UNCHANGED <<registryVars, cancelled>>
      /\ \A u \in Threads \ {t} : UNCHANGED <<pc[u], arg[u]>>
  BY TaskedWorks, OthersStay DEF RegistryInv, TypeOK
<1>2. pc'[t] = "idle" \/ (pc'[t] \in TaskPlaces /\ arg'[t] = arg[t])
  BY TaskStays DEF RegistryInv
<1>3. arg[t] \in IssuedConns
  BY <1>1 DEF RegistryInv, WorkersKnowHandles
<1>4. pc[t] # "cancel" /\ pc'[t] \notin {"cancel", "build"} /\ "idle" \notin TaskPlaces
  BY <1>1, <1>2 DEF TaskPlaces
<1> QED BY <1>1, <1>2, <1>3, <1>4, WorkerMoves

LEMMA RegistryInit == Init => RegistryInv
BY TypeInit
DEF Init, NothingYet, RegistryInv, KindsDisjoint, OwnersAreClients, ConnsHaveClient,
    CancelledIsClosed, WorkersKnowHandles, ClosedIsCancelled, Issued, IssuedConns,
    IssuedClients, TaskPlaces

LEMMA RegistryNext ==
  ASSUME RegistryInv, [Next]_vars
  PROVE  RegistryInv'
<1>0. TypeOK'
  BY TypeNext DEF RegistryInv
<1>1. CASE UNCHANGED vars \/ \E k \in Ids : Peer(k)
  <2>1. UNCHANGED <<registryVars, cancelled, pc, arg>>
    BY <1>1 DEF Peer, PeerSends, PeerVanishes, vars, callVars
  <2>2. WorkersKnowHandles'
    BY <2>1 DEF RegistryInv, WorkersKnowHandles, registryVars, Issued, IssuedConns,
                IssuedClients
  <2> QED BY <1>0, <2>1, <2>2, RegistryQuiet
<1>2. ASSUME NEW t \in Threads, Enter(t) PROVE RegistryInv'
  <2>1. IssuedConns \subseteq Ids /\ IssuedClients \subseteq Ids
    BY IssuedType DEF RegistryInv, TypeOK
  <2>2. CASE Create(t)
    BY <1>0, <2>2, RegistryCreate
  <2>3. ASSUME NEW h \in Ids,
               \/ h \in IssuedClients /\ Close(t, h)
               \/ h \in IssuedConns /\ CloseConnection(t, h)
        PROVE  RegistryInv'
    BY <1>0, <2>3, RegistryClose
  <2>4. CASE \/ \E c \in IssuedClients : CreateConnection(t, c)
             \/ \E k \in IssuedConns : \E o, m : Lookup(t, o, k, m)
    BY <1>0, <2>4, RegistryEnter
  <2> QED BY <1>2, <2>1, <2>2, <2>3, <2>4 DEF Enter, Connect, Read, Write, Control
<1>3. ASSUME NEW t \in Threads, Cancel(t) \/ Register(t) \/ Tasked(t) PROVE RegistryInv'
  BY <1>0, <1>3, RegistryCancel, RegistryRegister, RegistryTask
<1> QED BY <1>1, <1>2, <1>3, NextSteps

(* A connection in the registry always has its client there, no handle     *)
(* names both a client and a connection, and none is lost between its      *)
(* removal and its cancellation.                                           *)
THEOREM RegistryCorrect == Spec => []RegistryInv
BY RegistryInit, RegistryNext, PTL DEF Spec

-----------------------------------------------------------------------------
(* The bridge implements HandleTable. *)

(* What lookup finds in the registry is not cancelled.                     *)
LEMMA LiveOfInv == RegistryInv => \A h \in clients \union conns : ~IsCancelled(h)
<1> SUFFICES ASSUME RegistryInv, NEW h \in clients \union conns PROVE ~IsCancelled(h)
  OBVIOUS
<1>1. h \notin cancelled
  BY DEF RegistryInv, CancelledIsClosed
<1>2. CASE h \in conns
  BY <1>1, <1>2 DEF RegistryInv, CancelledIsClosed, ConnsHaveClient, IsCancelled
<1>3. CASE h \in clients
  <2>1. owner[h] = 0 /\ 0 \notin cancelled
    BY <1>3 DEF RegistryInv, KindsDisjoint, IssuedClients, IssuedConns, TypeOK, RegistryOK, Ids
  <2> QED BY <1>1, <2>1 DEF IsCancelled
<1> QED BY <1>2, <1>3

LEMMA LivePrime == RegistryInv' => (\A h \in clients \union conns : ~IsCancelled(h))'
BY LiveOfInv, PTL

(* What the tables say is determined by the registry and the tokens.       *)
LEMMA TableStutter ==
  ASSUME UNCHANGED <<registryVars, cancelled>>
  PROVE  UNCHANGED Table!vars
<1>1. UNCHANGED <<nextId, clients, conns, owner, cancelled>>
  BY DEF registryVars
<1> QED BY <1>1 DEF Table!vars, Issued, IsCancelled

LEMMA TableInit == Init => Table!Init
<1> SUFFICES ASSUME Init PROVE Table!Init
  OBVIOUS
<1>1. Issued = {} /\ clients \union conns = {} /\ owner = [h \in Ids |-> 0]
  BY DEF Init, NothingYet, Issued
<1>2. {h \in Ids : IsCancelled(h)} = {}
  BY DEF Init, NothingYet, IsCancelled
<1> QED BY <1>1, <1>2 DEF Table!Init

LEMMA TableCreate ==
  ASSUME RegistryInv, NEW t \in Threads, Create(t)
  PROVE  [Table!Next]_(Table!vars)
<1>1. UNCHANGED <<conns, owner, cancelled>>
  BY DEF Create
<1>2. ASSUME NEW h \in Ids, Issue(h), clients' = clients \union {h}
      PROVE  Table!OpenRoot(h)
  <2>1. Issued' = Issued \union {h} /\ h \notin Issued
    BY <1>2, IssuedGrows
  <2> QED BY <1>1, <1>2, <2>1 DEF Table!OpenRoot, IsCancelled
<1>3. CASE UNCHANGED <<nextId, clients>>
  BY <1>1, <1>3, TableStutter DEF registryVars
<1> QED BY <1>2, <1>3 DEF Create, Table!Next

LEMMA TableRegister ==
  ASSUME RegistryInv, NEW t \in Threads, Register(t)
  PROVE  [Table!Next]_(Table!vars)
<1>1. UNCHANGED <<clients, cancelled>> /\ pc[t] = "build"
  BY DEF Register
<1>2. ASSUME NEW h \in Ids, Issue(h), StillOpen(arg[t]),
             conns' = conns \union {h}, owner' = [owner EXCEPT ![h] = arg[t]]
      PROVE  arg[t] \in Ids /\ Table!OpenChild(h, arg[t])
  <2>1. /\ Issued' = Issued \union {h} /\ h \notin Issued
        /\ owner[h] = 0 /\ h \notin cancelled
    BY <1>2, IssuedGrows
  <2>2. arg[t] \in clients /\ arg[t] \in Ids
    BY <1>1, <1>2 DEF StillOpen, RegistryInv, TypeOK, ThreadsOK
  <2>3. arg[t] \notin cancelled /\ 0 \notin cancelled
    BY <2>2, WsAssumption DEF RegistryInv, CancelledIsClosed, TypeOK, RegistryOK, Ids
  <2>4. \A k \in Ids : IsCancelled(k)' = IsCancelled(k)
    BY <1>1, <1>2, <2>1, <2>3 DEF IsCancelled, RegistryInv, TypeOK, RegistryOK
  <2> QED BY <1>1, <1>2, <2>1, <2>2, <2>4 DEF Table!OpenChild
<1>3. CASE UNCHANGED <<nextId, conns, owner>>
  BY <1>1, <1>3, TableStutter DEF registryVars
<1> QED BY <1>2, <1>3 DEF Register, Table!Next

LEMMA TableClose ==
  ASSUME RegistryInv, NEW t \in Threads, NEW h \in Ids,
         \/ h \in IssuedClients /\ Close(t, h)
         \/ h \in IssuedConns /\ CloseConnection(t, h)
  PROVE  [Table!Next]_(Table!vars)
<1> DEFINE live == clients \union conns
<1>1. UNCHANGED <<nextId, owner, cancelled>>
  BY DEF Close, CloseConnection
<1>2. /\ \A c \in clients : owner[c] = 0 /\ c \notin conns
      /\ \A k \in conns : owner[k] \in clients
      /\ h # 0
  BY DEF RegistryInv, KindsDisjoint, ConnsHaveClient, IssuedClients, IssuedConns, Ids
<1>3. CASE h \in live
  <2>1. {k \in live : owner[k] = h} = ConnsOf(h)
    BY <1>2 DEF ConnsOf
  <2>2. clients' \union conns' = live \ ({h} \union ConnsOf(h))
    <3>1. CASE Close(t, h) /\ h \in IssuedClients
      <4>1. h \notin conns
        BY <3>1 DEF RegistryInv, KindsDisjoint, IssuedClients
      <4> QED BY <1>2, <3>1, <4>1 DEF Close, ConnsOf
    <3>2. CASE CloseConnection(t, h) /\ h \in IssuedConns
      <4>1. h \notin clients /\ ConnsOf(h) = {}
        BY <1>2, <3>2 DEF RegistryInv, KindsDisjoint, IssuedClients, ConnsOf
      <4> QED BY <3>2, <4>1 DEF CloseConnection
    <3> QED BY <3>1, <3>2
  <2>3. Table!Close(h)
    BY <1>1, <1>3, <2>1, <2>2 DEF Table!Close, Table!Children, Issued, IsCancelled
  <2> QED BY <2>3 DEF Table!Next
<1>4. CASE h \notin live
  <2>1. ConnsOf(h) = {}
    BY <1>2, <1>4 DEF ConnsOf
  <2>2. UNCHANGED <<clients, conns>>
    BY <1>4, <2>1 DEF Close, CloseConnection, registryVars
  <2> QED BY <1>1, <2>2, TableStutter DEF registryVars
<1> QED BY <1>3, <1>4

LEMMA TableCancel ==
  ASSUME RegistryInv, RegistryInv', NEW t \in Threads, Cancel(t)
  PROVE  [Table!Next]_(Table!vars)
<1> DEFINE S == {h \in Ids : IsCancelled(h)}
<1>1. UNCHANGED <<nextId, clients, conns, owner>> /\ cancelled \subseteq cancelled'
  BY DEF Cancel, registryVars
<1>2. S \subseteq S'
  BY <1>1 DEF IsCancelled
<1>3. S' \subseteq Issued \ (clients \union conns)
  <2>1. SUFFICES ASSUME NEW h \in Ids, IsCancelled(h)'
                 PROVE  h \in Issued' /\ h \notin (clients \union conns)'
    BY <1>1 DEF Issued
  <2>2. h \notin (clients \union conns)'
    BY <2>1, LivePrime
  <2>3. h \in Issued'
    <3>1. 0 \notin cancelled'
      BY WsAssumption DEF RegistryInv, TypeOK, RegistryOK, Ids
    <3> QED
      BY <2>1, <3>1 DEF RegistryInv, CancelledIsClosed, OwnersAreClients, IsCancelled
  <2> QED BY <2>2, <2>3
<1>4. Table!Release(S')
  BY <1>1, <1>2, <1>3 DEF Table!Release, Issued
<1> QED BY <1>4 DEF Table!Next

(* Every behaviour of the bridge is one of the handle table: for callers a *)
(* handle is gone at once, although closing takes two critical sections.   *)
THEOREM ImplementsTable == Spec => TableSpec
<1>1. ASSUME RegistryInv, RegistryInv', [Next]_vars PROVE [Table!Next]_(Table!vars)
  <2>1. CASE UNCHANGED vars \/ \E k \in Ids : Peer(k)
    BY <2>1, TableStutter DEF Peer, PeerSends, PeerVanishes, vars
  <2>2. ASSUME NEW t \in Threads, Enter(t) PROVE [Table!Next]_(Table!vars)
    <3>1. IssuedConns \subseteq Ids /\ IssuedClients \subseteq Ids
      BY <1>1, IssuedType DEF RegistryInv, TypeOK
    <3>2. CASE Create(t)
      BY <1>1, <3>2, TableCreate
    <3>3. ASSUME NEW h \in Ids,
                 \/ h \in IssuedClients /\ Close(t, h)
                 \/ h \in IssuedConns /\ CloseConnection(t, h)
          PROVE  [Table!Next]_(Table!vars)
      BY <1>1, <3>3, TableClose
    <3>4. CASE \/ \E c \in IssuedClients : CreateConnection(t, c)
               \/ \E k \in IssuedConns : \E o, m : Lookup(t, o, k, m)
      BY <3>4, TableStutter DEF CreateConnection, Lookup
    <3> QED BY <2>2, <3>1, <3>2, <3>3, <3>4 DEF Enter, Connect, Read, Write, Control
  <2>3. ASSUME NEW t \in Threads, Tasked(t) PROVE [Table!Next]_(Table!vars)
    BY <1>1, <2>3, TaskedWorks, TableStutter DEF RegistryInv
  <2>4. ASSUME NEW t \in Threads, Cancel(t) \/ Register(t) PROVE [Table!Next]_(Table!vars)
    BY <1>1, <2>4, TableCancel, TableRegister
  <2> QED BY <1>1, <2>1, <2>2, <2>3, <2>4, NextSteps
<1> QED BY <1>1, TableInit, RegistryCorrect, PTL DEF Spec, TableSpec, Table!Spec
=============================================================================
