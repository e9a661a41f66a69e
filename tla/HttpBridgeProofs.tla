-------------------------- MODULE HttpBridgeProofs --------------------------
(***************************************************************************)
(* Theorems about HttpBridge, for any number of threads, any handle space, *)
(* any body and any read size: type correctness, the registry invariants,  *)
(* that the bridge implements HandleTable; that a call is sent once, hands *)
(* its bytes out in order and once each, and ends for a reason.            *)
(***************************************************************************)
EXTENDS HttpBridge, SequenceTheorems, TLAPS

-----------------------------------------------------------------------------
(* Type correctness. *)

(* A chunk of the stream is a sequence of body positions. *)
LEMMA ChunkType ==
  ASSUME CallsOK, NEW k \in Ids, NEW m \in fetched[k] + 1 .. BodyLen
  PROVE  /\ Chunk(k, m) \in Seq(1 .. BodyLen)
         /\ Len(Chunk(k, m)) = m - fetched[k]
         /\ \A i \in 1 .. m - fetched[k] : Chunk(k, m)[i] = fetched[k] + i
<1> DEFINE n == m - fetched[k]
<1>1. fetched[k] \in Nat /\ m \in Nat /\ fetched[k] < m /\ m <= BodyLen
  BY BridgeAssumption DEF CallsOK
<1>2. n \in Nat
  BY <1>1
<1>3. \A i \in 1 .. n : fetched[k] + i \in 1 .. BodyLen
  BY <1>1, BridgeAssumption
<1>4. Chunk(k, m) = [i \in 1 .. n |-> fetched[k] + i]
  BY DEF Chunk
<1> HIDE DEF n
<1>5. Chunk(k, m) \in [1 .. n -> 1 .. BodyLen]
  BY <1>3, <1>4
<1>6. Chunk(k, m) \in Seq(1 .. BodyLen)
  BY <1>2, <1>5, SeqDef
<1>7. Len(Chunk(k, m)) = n
  BY <1>2, <1>4
<1> QED
  BY <1>4, <1>6, <1>7 DEF n

(* Splitting a sequence of body positions for a caller keeps its halves    *)
(* sequences of body positions.                                            *)
LEMMA DeliverType ==
  ASSUME CallsOK, NEW k \in Ids, NEW bytes \in Seq(1 .. BodyLen),
         NEW n \in Takes(bytes), Deliver(k, bytes, n)
  PROVE  /\ pending' \in [Ids -> Seq(1 .. BodyLen)]
         /\ out' \in [Ids -> Seq(1 .. BodyLen)]
<1>1. n \in Nat /\ n <= Len(bytes) /\ Len(bytes) \in Nat
  BY LenProperties DEF Takes
<1>2. \A i \in 1 .. Len(bytes) : bytes[i] \in 1 .. BodyLen
  BY LenProperties
<1>3. SubSeq(bytes, n + 1, Len(bytes)) \in Seq(1 .. BodyLen)
  <2>1. n + 1 \in Int /\ Len(bytes) \in Int
    BY <1>1
  <2>2. \A i \in n + 1 .. Len(bytes) : bytes[i] \in 1 .. BodyLen
    BY <1>1, <1>2
  <2> QED BY <2>1, <2>2, SubSeqProperties
<1>4. SubSeq(bytes, 1, n) \in Seq(1 .. BodyLen)
  <2>1. \A i \in 1 .. n : bytes[i] \in 1 .. BodyLen
    BY <1>1, <1>2
  <2> QED BY <2>1, <1>1, SubSeqProperties
<1>5. out[k] \o SubSeq(bytes, 1, n) \in Seq(1 .. BodyLen)
  BY <1>4, ConcatProperties DEF CallsOK
<1> QED BY <1>3, <1>5 DEF Deliver, CallsOK

(* The four ways a thread moves keep the thread variables in their types. *)
LEMMA ThreadMoves ==
  ASSUME ThreadsOK, NEW t \in Threads, NEW o \in Ops, NEW h \in 0 .. MaxId,
         NEW p \in Places, NEW r \in Results
  PROVE  /\ h \in Ids /\ Start(t, o, h, p) => ThreadsOK'
         /\ StartAndReturn(t, o, h, r) => ThreadsOK'
         /\ pc[t] # "idle" /\ Goto(t, p) => ThreadsOK'
         /\ Return(t, r) => ThreadsOK'
<1>1. ASSUME h \in Ids, Start(t, o, h, p) PROVE ThreadsOK'
  BY <1>1 DEF ThreadsOK, Start, Results
<1>2. ASSUME StartAndReturn(t, o, h, r) PROVE ThreadsOK'
  BY <1>2 DEF ThreadsOK, StartAndReturn
<1>3. ASSUME pc[t] # "idle", Goto(t, p) PROVE ThreadsOK'
  BY <1>3 DEF ThreadsOK, Goto
<1>4. ASSUME Return(t, r) PROVE ThreadsOK'
  BY <1>4 DEF ThreadsOK, Return, Places
<1> QED BY <1>1, <1>2, <1>3, <1>4

(* Issued handles are handles. *)
LEMMA IssuedType ==
  ASSUME RegistryOK
  PROVE  Issued \subseteq Ids /\ IssuedCalls \subseteq Ids /\ IssuedClients \subseteq Ids
BY BridgeAssumption DEF RegistryOK, Issued, IssuedCalls, IssuedClients, Ids

(* A new handle is within the handle space: next() never wraps. *)
LEMMA IssueType ==
  ASSUME RegistryOK, NEW h \in Ids, Issue(h)
  PROVE  /\ nextId' \in 0 .. MaxId
         /\ nextId' = nextId + 1
         /\ h = nextId + 1
BY BridgeAssumption DEF RegistryOK, Issue, Ids

(* What a call's own state is made of stays typed in a step on that call.  *)
LEMMA CallSteps ==
  ASSUME TypeOK, NEW t \in Threads
  PROVE  /\ Abort(t) => CallsOK'
         /\ SendStart(t) => CallsOK'
         /\ SendAnswer(t) => CallsOK'
         /\ ReadStart(t) => CallsOK'
         /\ ReadAnswer(t) => CallsOK'
<1> DEFINE k == arg[t]
<1>1. ASSUME Abort(t) PROVE CallsOK'
  BY <1>1 DEF TypeOK, CallsOK, Abort, Dropped, history
<1>2. ASSUME pc[t] = "body" PROVE k \in Ids
  BY <1>2 DEF TypeOK, ThreadsOK
<1>3. ASSUME SendStart(t) PROVE CallsOK'
  <2>1. sends[k] + 1 \in Nat
    BY <1>2, <1>3 DEF TypeOK, CallsOK, SendStart, InBody
  <2>2. k \in Ids
    BY <1>2, <1>3 DEF SendStart, InBody
  <2>3. /\ phase' = [phase EXCEPT ![k] = "Done"] \/ UNCHANGED phase
        /\ lock' = [lock EXCEPT ![k] = t] \/ UNCHANGED lock
        /\ sends' = [sends EXCEPT ![k] = sends[k] + 1] \/ UNCHANGED sends
        /\ UNCHANGED <<pending, fetched, out, failed>>
    BY <1>3 DEF SendStart, Transmit
  <2> QED BY <2>1, <2>2, <2>3 DEF TypeOK, CallsOK
<1>4. ASSUME SendAnswer(t) PROVE CallsOK'
  <2>1. k \in Ids
    BY <1>2, <1>4 DEF SendAnswer, InBody
  <2>2. /\ lock' = [lock EXCEPT ![k] = NoThread]
        /\ phase' = [phase EXCEPT ![k] = "Streaming"] \/ UNCHANGED phase
        /\ failed' = failed \union {k} \/ UNCHANGED failed
        /\ UNCHANGED <<pending, fetched, sends, out>>
    BY <1>4 DEF SendAnswer, OpenStream
  <2> QED BY <2>1, <2>2 DEF TypeOK, CallsOK
<1>5. ASSUME ReadStart(t) PROVE CallsOK'
  <2>1. /\ pending' \in [Ids -> Seq(1 .. BodyLen)]
        /\ out' \in [Ids -> Seq(1 .. BodyLen)]
    <3>1. CASE UNCHANGED <<pending, out>>
      BY <3>1 DEF TypeOK, CallsOK
    <3>2. CASE \E n \in Takes(pending[k]) : Deliver(k, pending[k], n)
      <4>1. k \in Ids /\ pending[k] \in Seq(1 .. BodyLen)
        BY <1>2, <1>5 DEF TypeOK, CallsOK, ReadStart, InBody
      <4> QED BY <3>2, <4>1, DeliverType DEF TypeOK
    <3> QED BY <3>1, <3>2, <1>5 DEF ReadStart
  <2>2. UNCHANGED <<phase, fetched, sends, failed>>
    BY <1>5 DEF ReadStart
  <2>3. lock' \in [Ids -> Threads \union {NoThread}]
    <3>1. UNCHANGED lock \/ lock' = [lock EXCEPT ![k] = t]
      BY <1>5 DEF ReadStart
    <3> QED BY <3>1 DEF TypeOK, CallsOK
  <2> QED BY <2>1, <2>2, <2>3 DEF TypeOK, CallsOK
<1>6. ASSUME ReadAnswer(t) PROVE CallsOK'
  <2>1. k \in Ids
    BY <1>2, <1>6 DEF ReadAnswer, InBody
  <2>2. /\ pending' \in [Ids -> Seq(1 .. BodyLen)]
        /\ out' \in [Ids -> Seq(1 .. BodyLen)]
        /\ fetched' \in [Ids -> 0 .. BodyLen]
    <3>1. CASE UNCHANGED <<pending, fetched, out>>
      BY <3>1 DEF TypeOK, CallsOK
    <3>2. ASSUME NEW m \in fetched[k] + 1 .. BodyLen,
                 fetched' = [fetched EXCEPT ![k] = m],
                 NEW n \in Takes(Chunk(k, m)), Deliver(k, Chunk(k, m), n)
          PROVE  <2>2!1 /\ <2>2!2 /\ <2>2!3
      <4>1. m \in 0 .. BodyLen
        BY <2>1, BridgeAssumption DEF TypeOK, CallsOK
      <4>2. Chunk(k, m) \in Seq(1 .. BodyLen)
        BY <2>1, ChunkType DEF TypeOK
      <4>3. fetched' \in [Ids -> 0 .. BodyLen]
        BY <4>1, <3>2, <2>1 DEF TypeOK, CallsOK
      <4> QED BY <3>2, <4>2, <4>3, <2>1, DeliverType DEF TypeOK
    <3> QED BY <3>1, <3>2, <1>6 DEF ReadAnswer
  <2>3. /\ lock' \in [Ids -> Threads \union {NoThread}]
        /\ phase' \in [Ids -> {"Ready", "Streaming", "Done"}]
        /\ failed' \subseteq Ids
        /\ UNCHANGED sends
    BY <2>1, <1>6 DEF TypeOK, CallsOK, ReadAnswer, InBody
  <2> QED BY <2>2, <2>3 DEF TypeOK, CallsOK
<1> QED BY <1>1, <1>3, <1>4, <1>5, <1>6

(* The steps of entering the bridge, one per exported function.            *)
LEMMA TypeEnter ==
  ASSUME TypeOK, NEW t \in Threads, Enter(t)
  PROVE  TypeOK'
<1> USE DEF TypeOK
<1>1. CASE Create(t)
  <2>1. RegistryOK'
    <3>1. ASSUME NEW h \in Ids, Issue(h), clients' = clients \union {h}
          PROVE  RegistryOK'
      BY <1>1, <3>1, IssueType DEF Create, RegistryOK
    <3>2. ASSUME UNCHANGED <<nextId, clients>> PROVE RegistryOK'
      BY <1>1, <3>2 DEF Create, RegistryOK
    <3> QED BY <1>1, <3>1, <3>2 DEF Create
  <2>2. PICK h \in 0 .. MaxId, r \in Results : StartAndReturn(t, "create", h, r)
    BY <1>1, BridgeAssumption DEF Create, Ids, Results
  <2>3. ThreadsOK'
    <3>1. "create" \in Ops
      BY DEF Ops
    <3> QED BY <2>2, <3>1, ThreadMoves DEF Places
  <2>4. CallsOK'
    BY <1>1 DEF Create, CallsOK, callVars, history
  <2> QED BY <2>1, <2>3, <2>4
<1>2. ASSUME NEW c \in IssuedClients, Close(t, c) PROVE TypeOK'
  <2>1. RegistryOK'
    BY <1>2 DEF Close, RegistryOK
  <2>2. c \in Ids /\ c \in 0 .. MaxId
    BY IssuedType, BridgeAssumption DEF Ids
  <2>3. Start(t, "close", c, "cancel") \/ StartAndReturn(t, "close", c, "handle")
    BY <1>2 DEF Close
  <2>4. ThreadsOK'
    BY <2>2, <2>3, ThreadMoves DEF Ops, Places, Results
  <2>5. CallsOK'
    BY <1>2 DEF Close, CallsOK, callVars, history
  <2> QED BY <2>1, <2>4, <2>5
<1>3. ASSUME NEW c \in IssuedClients, CreateRequest(t, c) PROVE TypeOK'
  <2>1. RegistryOK' /\ CallsOK'
    BY <1>3 DEF CreateRequest, RegistryOK, CallsOK, registryVars, callVars, history
  <2>2. c \in Ids /\ c \in 0 .. MaxId
    BY IssuedType, BridgeAssumption DEF Ids
  <2>3. Start(t, "create_request", c, "build")
          \/ StartAndReturn(t, "create_request", c, "closed")
    BY <1>3 DEF CreateRequest
  <2>4. ThreadsOK'
    BY <2>2, <2>3, ThreadMoves DEF Ops, Places, Results
  <2> QED BY <2>1, <2>4
<1>4. ASSUME NEW k \in IssuedCalls, CloseRequest(t, k) PROVE TypeOK'
  <2>1. RegistryOK' /\ CallsOK'
    BY <1>4 DEF CloseRequest, RegistryOK, CallsOK, callVars, history
  <2>2. k \in Ids /\ k \in 0 .. MaxId
    BY IssuedType, BridgeAssumption DEF Ids
  <2>3. Start(t, "close_request", k, "cancel")
          \/ StartAndReturn(t, "close_request", k, "handle")
    BY <1>4 DEF CloseRequest
  <2>4. ThreadsOK'
    BY <2>2, <2>3, ThreadMoves DEF Ops, Places, Results
  <2> QED BY <2>1, <2>4
<1>5. ASSUME NEW k \in IssuedCalls, Send(t, k) \/ Read(t, k) PROVE TypeOK'
  <2>1. PICK o \in {"send", "read"} : Lookup(t, o, k)
    BY <1>5 DEF Send, Read
  <2>2. RegistryOK' /\ CallsOK'
    BY <2>1 DEF Lookup, RegistryOK, CallsOK, registryVars, callVars, history
  <2>3. k \in Ids /\ k \in 0 .. MaxId
    BY IssuedType, BridgeAssumption DEF Ids
  <2>4. Start(t, o, k, "poll") \/ StartAndReturn(t, o, k, "closed")
    BY <2>1 DEF Lookup
  <2>5. ThreadsOK'
    BY <2>3, <2>4, ThreadMoves DEF Ops, Places, Results
  <2> QED BY <2>2, <2>5
<1> QED
  BY <1>1, <1>2, <1>3, <1>4, <1>5 DEF Enter

(* The steps of a thread inside the bridge. *)
LEMMA TypeStep ==
  ASSUME TypeOK, NEW t \in Threads, Step(t)
  PROVE  TypeOK'
<1> USE DEF TypeOK
<1>1. CASE Cancel(t)
  <2>1. arg[t] \in Ids
    BY <1>1 DEF Cancel, ThreadsOK
  <2>2. RegistryOK' /\ CallsOK'
    BY <1>1, <2>1 DEF Cancel, RegistryOK, CallsOK, registryVars, callVars, history
  <2>3. Return(t, "handle") /\ "handle" \in Results
    BY <1>1 DEF Cancel, Results
  <2> QED BY <2>2, <2>3, ThreadMoves, BridgeAssumption DEF Ops, Places
<1>2. CASE Register(t)
  <2>1. arg[t] \in Ids /\ arg[t] \in 0 .. MaxId
    BY <1>2 DEF Register, ThreadsOK
  <2>2. RegistryOK'
    <3>1. ASSUME NEW h \in Ids, Issue(h), calls' = calls \union {h},
                 owner' = [owner EXCEPT ![h] = arg[t]]
          PROVE  RegistryOK'
      BY <1>2, <2>1, <3>1, IssueType DEF Register, RegistryOK
    <3>2. ASSUME UNCHANGED <<nextId, calls, owner>> PROVE RegistryOK'
      BY <1>2, <3>2 DEF Register, RegistryOK
    <3> QED BY <1>2, <3>1, <3>2 DEF Register
  <2>3. CallsOK'
    BY <1>2 DEF Register, CallsOK, callVars, history
  <2>4. ThreadsOK'
    BY <1>2, BridgeAssumption DEF Register, ThreadsOK, Return, Ids, Results, Places
  <2> QED BY <2>2, <2>3, <2>4
<1>3. CASE Poll(t) \/ Suspend(t)
  <2>1. RegistryOK' /\ CallsOK'
    BY <1>3 DEF Poll, Suspend, RegistryOK, CallsOK, registryVars, callVars, history
  <2>2. PICK p \in {"body", "poll"} : pc[t] # "idle" /\ Goto(t, p)
    BY <1>3 DEF Poll, Suspend
  <2>3. ThreadsOK'
    BY <2>2 DEF Goto, ThreadsOK, Places
  <2> QED BY <2>1, <2>3
<1>4. CASE Abort(t) \/ SendStart(t) \/ SendAnswer(t) \/ ReadStart(t) \/ ReadAnswer(t)
  <2>1. CallsOK'
    BY <1>4, CallSteps
  <2>2. RegistryOK'
    BY <1>4 DEF RegistryOK, Abort, SendStart, SendAnswer, ReadStart, ReadAnswer,
                registryVars
  <2>3. UNCHANGED threadVars \/ \E r \in Results : Return(t, r)
    BY <1>4 DEF Abort, SendStart, Transmit, SendAnswer, ReadStart, ReadAnswer, Results
  <2>4. CASE UNCHANGED threadVars
    BY <2>1, <2>2, <2>4 DEF ThreadsOK, threadVars
  <2>5. ASSUME NEW r \in Results, Return(t, r) PROVE TypeOK'
    BY <2>1, <2>2, <2>5 DEF ThreadsOK, Return, Places
  <2> QED BY <2>3, <2>4, <2>5
<1> QED BY <1>1, <1>2, <1>3, <1>4 DEF Step

LEMMA TypeInit == Init => TypeOK
BY BridgeAssumption, EmptySeq
DEF Init, NoCalls, TypeOK, RegistryOK, CallsOK, ThreadsOK, Ids, Ops, Results, Places

LEMMA TypeNext == TypeOK /\ [Next]_vars => TypeOK'
<1>1. ASSUME TypeOK, UNCHANGED vars PROVE TypeOK'
  BY <1>1 DEF TypeOK, RegistryOK, CallsOK, ThreadsOK, vars, registryVars,
              callVars, history, threadVars
<1> QED BY <1>1, TypeEnter, TypeStep DEF Next

(* The state stays in its types; every handle stays within the handle      *)
(* space, whatever the order in which threads enter the bridge.            *)
THEOREM TypeCorrect == Spec => []TypeOK
BY TypeInit, TypeNext, PTL DEF Spec

-----------------------------------------------------------------------------
(* The registry invariant. *)

(* A step that leaves the registry and the tokens alone, and no handle     *)
(* without the thread that is about to cancel it.                          *)
LEMMA RegistryQuiet ==
  ASSUME RegistryInv, TypeOK', UNCHANGED <<registryVars, cancelled>>,
         WorkersKnowHandles',
         \A u \in Threads : pc[u] = "cancel" => pc'[u] = "cancel" /\ arg'[u] = arg[u]
  PROVE  RegistryInv'
<1> USE DEF RegistryInv, registryVars, Issued, IssuedCalls, IssuedClients
<1>1. KindsDisjoint' /\ OwnersAreClients' /\ CallsHaveClient' /\ CancelledIsClosed'
  BY DEF KindsDisjoint, OwnersAreClients, CallsHaveClient, CancelledIsClosed
<1>2. ClosedIsCancelled'
  BY DEF ClosedIsCancelled, IsCancelled, IsBeingCancelled
<1> QED BY <1>1, <1>2

(* Threads that move without entering "cancel" or leaving it, to a place   *)
(* whose handle is known, keep WorkersKnowHandles.                         *)
LEMMA WorkerMoves ==
  ASSUME RegistryInv, UNCHANGED <<registryVars, cancelled>>, NEW t \in Threads,
         pc[t] # "cancel",
         \E p \in Places : pc' = [pc EXCEPT ![t] = p],
         \E o \in Ops : op' = [op EXCEPT ![t] = o],
         \E h \in 0 .. MaxId : arg' = [arg EXCEPT ![t] = h],
         pc'[t] # "cancel",
         pc'[t] = "build" => arg'[t] \in IssuedClients,
         pc'[t] \in {"poll", "body"} => arg'[t] \in IssuedCalls /\ op'[t] \in {"send", "read"}
  PROVE  /\ WorkersKnowHandles'
         /\ \A u \in Threads : pc[u] = "cancel" => pc'[u] = "cancel" /\ arg'[u] = arg[u]
<1>1. \A u \in Threads \ {t} : pc'[u] = pc[u] /\ op'[u] = op[u] /\ arg'[u] = arg[u]
  BY DEF RegistryInv, TypeOK, ThreadsOK
<1> QED
  BY <1>1 DEF RegistryInv, WorkersKnowHandles, registryVars, Issued, IssuedCalls,
              IssuedClients

(* Steps that only move a thread, for the purposes of the registry.        *)
LEMMA RegistryMoves ==
  ASSUME RegistryInv, TypeOK', NEW t \in Threads,
         \/ \E c \in IssuedClients : CreateRequest(t, c)
         \/ \E k \in IssuedCalls : Send(t, k) \/ Read(t, k)
         \/ Abort(t) \/ Poll(t) \/ Suspend(t)
         \/ SendStart(t) \/ SendAnswer(t) \/ ReadStart(t) \/ ReadAnswer(t)
  PROVE  RegistryInv'
<1>0. TypeOK /\ ThreadsOK /\ WorkersKnowHandles
  BY DEF RegistryInv, TypeOK
<1>1. ASSUME NEW c \in IssuedClients, CreateRequest(t, c) PROVE RegistryInv'
  <2>1. c \in Ids /\ c \in 0 .. MaxId
    BY <1>0, IssuedType, BridgeAssumption DEF TypeOK, Ids
  <2>2. UNCHANGED <<registryVars, cancelled>>
    BY <1>1 DEF CreateRequest
  <2>3. /\ pc[t] = "idle"
        /\ \E p \in {"build", "idle"} : pc' = [pc EXCEPT ![t] = p]
        /\ op' = [op EXCEPT ![t] = "create_request"]
        /\ arg' = [arg EXCEPT ![t] = c]
    BY <1>0, <1>1 DEF CreateRequest, Start, StartAndReturn, ThreadsOK
  <2>4. pc'[t] \in {"build", "idle"} /\ arg'[t] = c
    BY <1>0, <2>3 DEF ThreadsOK
  <2> QED BY <2>1, <2>2, <2>3, <2>4, WorkerMoves, RegistryQuiet DEF Places, Ops
<1>2. ASSUME NEW k \in IssuedCalls, Send(t, k) \/ Read(t, k) PROVE RegistryInv'
  <2>1. k \in Ids /\ k \in 0 .. MaxId
    BY <1>0, IssuedType, BridgeAssumption DEF TypeOK, Ids
  <2>2. PICK o \in {"send", "read"} : Lookup(t, o, k)
    BY <1>2 DEF Send, Read
  <2>3. UNCHANGED <<registryVars, cancelled>>
    BY <2>2 DEF Lookup
  <2>4. /\ pc[t] = "idle"
        /\ \E p \in {"poll", "idle"} : pc' = [pc EXCEPT ![t] = p]
        /\ op' = [op EXCEPT ![t] = o]
        /\ arg' = [arg EXCEPT ![t] = k]
    BY <1>0, <2>2 DEF Lookup, Start, StartAndReturn, ThreadsOK
  <2>5. pc'[t] \in {"poll", "idle"} /\ arg'[t] = k /\ op'[t] = o
    BY <1>0, <2>4 DEF ThreadsOK
  <2> QED BY <2>1, <2>3, <2>4, <2>5, WorkerMoves, RegistryQuiet DEF Places, Ops
<1>3. ASSUME \/ Abort(t) \/ Poll(t) \/ Suspend(t)
             \/ SendStart(t) \/ SendAnswer(t) \/ ReadStart(t) \/ ReadAnswer(t)
      PROVE  RegistryInv'
  <2>1. UNCHANGED <<registryVars, cancelled>>
    BY <1>3 DEF Abort, Poll, Suspend, SendStart, SendAnswer, ReadStart, ReadAnswer
  <2>2. /\ pc[t] \in {"poll", "body"}
        /\ \E p \in {"idle", "poll", "body"} : pc' = [pc EXCEPT ![t] = p]
        /\ UNCHANGED <<op, arg>>
    BY <1>0, <1>3 DEF Abort, Poll, Suspend, SendStart, Transmit, SendAnswer, ReadStart,
                      ReadAnswer, Return, Goto, InBody, threadVars, ThreadsOK
  <2>3. /\ pc'[t] \in {"idle", "poll", "body"}
        /\ op' = [op EXCEPT ![t] = op[t]] /\ op[t] \in Ops
        /\ arg' = [arg EXCEPT ![t] = arg[t]] /\ arg[t] \in 0 .. MaxId
    BY <1>0, <2>2 DEF ThreadsOK
  <2>4. arg'[t] \in IssuedCalls /\ op'[t] \in {"send", "read"}
    BY <1>0, <2>2 DEF WorkersKnowHandles
  <2> QED BY <2>1, <2>2, <2>3, <2>4, WorkerMoves, RegistryQuiet DEF Places
<1> QED BY <1>1, <1>2, <1>3

(* A client or a call gets the next number: unknown to every thread, token *)
(* and call so far.                                                        *)
LEMMA IssuedGrows ==
  ASSUME RegistryInv, NEW h \in Ids, Issue(h)
  PROVE  /\ Issued' = Issued \union {h}
         /\ h \notin Issued
         /\ owner[h] = 0
         /\ h \notin clients \union calls \union cancelled
<1>1. nextId' = nextId + 1 /\ h = nextId + 1 /\ nextId \in Nat
  BY IssueType, BridgeAssumption DEF RegistryInv, TypeOK, RegistryOK
<1>2. Issued' = Issued \union {h} /\ h \notin Issued
  BY <1>1 DEF Issued
<1> QED
  BY <1>2 DEF RegistryInv, OwnersAreClients, KindsDisjoint, CancelledIsClosed,
              IssuedClients, IssuedCalls

LEMMA RegistryCreate ==
  ASSUME RegistryInv, TypeOK', NEW t \in Threads, Create(t)
  PROVE  RegistryInv'
<1> USE DEF RegistryInv
<1>1. /\ pc[t] = "idle" /\ UNCHANGED <<pc, calls, owner, cancelled>>
      /\ \A u \in Threads \ {t} : op'[u] = op[u] /\ arg'[u] = arg[u]
      /\ pc \in [Threads -> Places]
  BY DEF Create, StartAndReturn, TypeOK, ThreadsOK
<1>2. ASSUME NEW h \in Ids, Issue(h), clients' = clients \union {h}
      PROVE  RegistryInv'
  <2>1. /\ Issued' = Issued \union {h} /\ h \notin Issued /\ owner[h] = 0
        /\ h \notin clients \union calls \union cancelled
    BY <1>2, IssuedGrows
  <2>2. IssuedClients' = IssuedClients \union {h} /\ IssuedCalls' = IssuedCalls
    BY <1>1, <2>1 DEF IssuedClients, IssuedCalls
  <2>3. KindsDisjoint' /\ OwnersAreClients' /\ CallsHaveClient' /\ CancelledIsClosed'
    BY <1>1, <1>2, <2>1, <2>2
    DEF KindsDisjoint, OwnersAreClients, CallsHaveClient, CancelledIsClosed
  <2>4. WorkersKnowHandles'
    BY <1>1, <1>2, <2>1, <2>2 DEF WorkersKnowHandles
  <2>5. ClosedIsCancelled'
    BY <1>1, <1>2, <2>1 DEF ClosedIsCancelled, IsCancelled, IsBeingCancelled
  <2> QED BY <2>3, <2>4, <2>5
<1>3. ASSUME UNCHANGED <<nextId, clients>> PROVE RegistryInv'
  <2>1. WorkersKnowHandles'
    BY <1>1, <1>3 DEF WorkersKnowHandles, Issued, IssuedCalls, IssuedClients
  <2> QED BY <1>1, <1>3, <2>1, RegistryQuiet DEF registryVars
<1> QED BY <1>2, <1>3 DEF Create

LEMMA RegistryRegister ==
  ASSUME RegistryInv, TypeOK', NEW t \in Threads, Register(t)
  PROVE  RegistryInv'
<1> USE DEF RegistryInv
<1>1. /\ pc[t] = "build" /\ UNCHANGED <<clients, cancelled, op>>
      /\ pc' = [pc EXCEPT ![t] = "idle"]
      /\ pc \in [Threads -> Places] /\ arg \in [Threads -> 0 .. MaxId]
      /\ op \in [Threads -> Ops]
  BY DEF Register, Return, TypeOK, ThreadsOK
<1>2. arg[t] \in Ids /\ arg[t] \in IssuedClients
  BY <1>1 DEF TypeOK, ThreadsOK, WorkersKnowHandles
<1>3. ASSUME NEW h \in Ids, Issue(h), StillOpen(arg[t]),
             calls' = calls \union {h}, owner' = [owner EXCEPT ![h] = arg[t]],
             arg' = [arg EXCEPT ![t] = h]
      PROVE  RegistryInv'
  <2>1. /\ Issued' = Issued \union {h} /\ h \notin Issued /\ owner[h] = 0
        /\ h \notin clients \union calls \union cancelled
    BY <1>3, IssuedGrows
  <2>2. /\ owner'[h] = arg[t] /\ arg[t] # 0
        /\ \A k \in Ids \ {h} : owner'[k] = owner[k]
        /\ Issued \subseteq Ids
    BY <1>2, <1>3, IssuedType DEF TypeOK, RegistryOK, Ids
  <2>3. IssuedClients' = IssuedClients /\ IssuedCalls' = IssuedCalls \union {h}
    BY <2>1, <2>2 DEF IssuedClients, IssuedCalls
  <2>4. KindsDisjoint' /\ OwnersAreClients' /\ CancelledIsClosed'
    BY <1>1, <1>2, <1>3, <2>1, <2>2, <2>3
    DEF KindsDisjoint, OwnersAreClients, CancelledIsClosed
  <2>5. CallsHaveClient'
    BY <1>1, <1>3, <2>1, <2>2 DEF CallsHaveClient, StillOpen, TypeOK, RegistryOK
  <2>6. WorkersKnowHandles'
    BY <1>1, <1>3, <2>1, <2>3 DEF WorkersKnowHandles
  <2>7. ClosedIsCancelled'
    BY <1>1, <1>3, <2>1, <2>2 DEF ClosedIsCancelled, IsCancelled, IsBeingCancelled
  <2> QED BY <2>4, <2>5, <2>6, <2>7
<1>4. ASSUME UNCHANGED <<nextId, calls, owner, arg>> PROVE RegistryInv'
  <2>1. WorkersKnowHandles'
    BY <1>1, <1>4 DEF WorkersKnowHandles, Issued, IssuedCalls, IssuedClients
  <2> QED BY <1>1, <1>4, <2>1, RegistryQuiet DEF registryVars
<1> QED BY <1>3, <1>4 DEF Register, Return

(* A closer takes the handles of D out of the registry.  The one it will   *)
(* cancel, x, covers them all: itself, or the client that owns them.       *)
LEMMA RegistryRemove ==
  ASSUME RegistryInv, TypeOK', NEW t \in Threads, NEW x \in clients \union calls,
         NEW o \in Ops, Start(t, o, x, "cancel"),
         NEW D, D = {x} \union CallsOf(x),
         clients' = clients \ D, calls' = calls \ D,
         UNCHANGED <<nextId, owner, cancelled>>
  PROVE  RegistryInv'
<1> USE DEF RegistryInv
<1>1. /\ pc[t] = "idle" /\ pc'[t] = "cancel" /\ arg'[t] = x
      /\ \A u \in Threads \ {t} : pc'[u] = pc[u] /\ op'[u] = op[u] /\ arg'[u] = arg[u]
  BY DEF Start, TypeOK, ThreadsOK
<1>2. Issued' = Issued /\ IssuedCalls' = IssuedCalls /\ IssuedClients' = IssuedClients
  BY DEF Issued, IssuedCalls, IssuedClients
<1>3. /\ clients \subseteq IssuedClients /\ calls \subseteq IssuedCalls
      /\ IssuedClients \subseteq Issued /\ IssuedCalls \subseteq Issued
      /\ \A k \in IssuedCalls : owner[k] # 0
      /\ \A c \in IssuedClients : owner[c] = 0
  BY DEF KindsDisjoint, IssuedCalls, IssuedClients
<1>4. \A d \in D : d = x \/ owner[d] = x
  BY DEF CallsOf
<1>5. KindsDisjoint' /\ OwnersAreClients' /\ CancelledIsClosed'
  BY <1>2 DEF KindsDisjoint, OwnersAreClients, CancelledIsClosed
<1>6. CallsHaveClient'
  <2>1. SUFFICES ASSUME NEW k \in calls, k \notin D PROVE owner[k] \notin D
    BY DEF CallsHaveClient
  <2>2. owner[k] \in clients /\ owner[k] # x
    BY <2>1 DEF CallsHaveClient, CallsOf
  <2>3. owner[k] \notin calls
    <3>1. owner[owner[k]] = 0
      BY <1>3, <2>2
    <3> QED BY <1>3, <3>1
  <2> QED BY <2>2, <2>3 DEF CallsOf
<1>7. WorkersKnowHandles'
  BY <1>1, <1>2, <1>3 DEF WorkersKnowHandles
<1>8. ClosedIsCancelled'
  <2>1. SUFFICES ASSUME NEW h \in Issued, h \notin (clients \union calls) \ D
                 PROVE  IsCancelled(h)' \/ IsBeingCancelled(h)'
    BY <1>2 DEF ClosedIsCancelled
  <2>2. CASE h \in D
    BY <1>1, <1>4, <2>2 DEF IsBeingCancelled
  <2>3. CASE h \notin D
    BY <1>1, <2>1, <2>3 DEF ClosedIsCancelled, IsCancelled, IsBeingCancelled
  <2> QED BY <2>2, <2>3
<1> QED BY <1>5, <1>6, <1>7, <1>8

LEMMA RegistryClose ==
  ASSUME RegistryInv, TypeOK', NEW t \in Threads,
         NEW h \in Ids,
         \/ h \in IssuedClients /\ Close(t, h)
         \/ h \in IssuedCalls /\ CloseRequest(t, h)
  PROVE  RegistryInv'
<1> USE DEF RegistryInv
<1>1. /\ h \in IssuedClients => h \notin calls
      /\ h \in IssuedCalls => h \notin clients /\ CallsOf(h) = {}
  BY DEF KindsDisjoint, IssuedCalls, IssuedClients, OwnersAreClients, CallsOf, TypeOK, RegistryOK
<1>2. CASE h \in clients \union calls
  <2>1. PICK o \in {"close", "close_request"} : Start(t, o, h, "cancel")
    BY <1>1, <1>2 DEF Close, CloseRequest
  <2>2. clients \intersect CallsOf(h) = {}
    BY DEF CallsOf, KindsDisjoint, IssuedClients
  <2>3. /\ clients' = clients \ ({h} \union CallsOf(h))
        /\ calls' = calls \ ({h} \union CallsOf(h))
        /\ UNCHANGED <<nextId, owner, cancelled>>
    BY <1>1, <2>2 DEF Close, CloseRequest
  <2> QED BY <1>2, <2>1, <2>3, RegistryRemove DEF Ops
<1>3. CASE h \notin clients \union calls
  <2>1. CallsOf(h) = {}
    BY <1>3 DEF CallsOf, CallsHaveClient
  <2>2. UNCHANGED <<registryVars, cancelled>>
    BY <1>3, <2>1 DEF Close, CloseRequest, registryVars
  <2>3. PICK o \in {"close", "close_request"} : StartAndReturn(t, o, h, "handle")
    BY <1>3 DEF Close, CloseRequest
  <2>4. /\ pc[t] = "idle" /\ pc' = [pc EXCEPT ![t] = "idle"] /\ pc'[t] = "idle"
        /\ op' = [op EXCEPT ![t] = o] /\ arg' = [arg EXCEPT ![t] = h]
    BY <2>3 DEF StartAndReturn, TypeOK, ThreadsOK
  <2>5. h \in 0 .. MaxId
    BY BridgeAssumption DEF Ids
  <2> QED BY <2>2, <2>4, <2>5, WorkerMoves, RegistryQuiet DEF Places, Ops
<1> QED BY <1>2, <1>3

LEMMA RegistryCancel ==
  ASSUME RegistryInv, TypeOK', NEW t \in Threads, Cancel(t)
  PROVE  RegistryInv'
<1> USE DEF RegistryInv
<1>1. /\ pc[t] = "cancel" /\ pc'[t] = "idle" /\ cancelled' = cancelled \union {arg[t]}
      /\ UNCHANGED <<registryVars, op, arg>>
      /\ \A u \in Threads \ {t} : pc'[u] = pc[u]
  BY DEF Cancel, Return, TypeOK, ThreadsOK
<1>2. UNCHANGED <<nextId, clients, calls, owner>>
  BY <1>1 DEF registryVars
<1>3. Issued' = Issued /\ IssuedCalls' = IssuedCalls /\ IssuedClients' = IssuedClients
  BY <1>2 DEF Issued, IssuedCalls, IssuedClients
<1>4. KindsDisjoint' /\ OwnersAreClients' /\ CallsHaveClient'
  BY <1>2, <1>3 DEF KindsDisjoint, OwnersAreClients, CallsHaveClient
<1>5. CancelledIsClosed' /\ WorkersKnowHandles'
  BY <1>1, <1>2, <1>3 DEF CancelledIsClosed, WorkersKnowHandles
<1>6. ClosedIsCancelled'
  <2>1. SUFFICES ASSUME NEW h \in Issued \ (clients \union calls)
                 PROVE  IsCancelled(h)' \/ IsBeingCancelled(h)'
    BY <1>2, <1>3 DEF ClosedIsCancelled
  <2>2. CASE IsCancelled(h)
    BY <1>1, <1>2, <2>2 DEF IsCancelled
  <2>3. CASE arg[t] \in {h, owner[h]}
    <3>1. h \in Ids
      BY IssuedType DEF TypeOK
    <3> QED BY <1>1, <1>2, <2>3, <3>1 DEF IsCancelled
  <2>4. CASE \E u \in Threads \ {t} : pc[u] = "cancel" /\ arg[u] \in {h, owner[h]}
    BY <1>1, <1>2, <2>4 DEF IsBeingCancelled
  <2> QED BY <2>2, <2>3, <2>4 DEF ClosedIsCancelled, IsBeingCancelled
<1> QED BY <1>4, <1>5, <1>6

LEMMA RegistryInit == Init => RegistryInv
BY TypeInit
DEF Init, NoCalls, RegistryInv, KindsDisjoint, OwnersAreClients, CallsHaveClient, CancelledIsClosed,
    WorkersKnowHandles, ClosedIsCancelled, Issued, IssuedCalls, IssuedClients

LEMMA RegistryNext ==
  ASSUME RegistryInv, [Next]_vars
  PROVE  RegistryInv'
<1>0. TypeOK'
  BY TypeNext DEF RegistryInv
<1>1. CASE UNCHANGED vars
  BY <1>0, <1>1, RegistryQuiet
  DEF RegistryInv, WorkersKnowHandles, vars, registryVars, threadVars, Issued,
      IssuedCalls, IssuedClients
<1>2. ASSUME NEW t \in Threads, Enter(t) PROVE RegistryInv'
  <2>1. IssuedCalls \subseteq Ids /\ IssuedClients \subseteq Ids
    BY IssuedType DEF RegistryInv, TypeOK
  <2> QED
    <3>1. CASE Create(t)
      BY <1>0, <3>1, RegistryCreate
    <3>2. ASSUME NEW c \in IssuedClients, Close(t, c) PROVE RegistryInv'
      <4>1. c \in Ids
        BY <2>1
      <4>2. c \in IssuedClients /\ Close(t, c)
        BY <3>2
      <4> QED BY <1>0, <4>1, <4>2, RegistryClose
    <3>3. ASSUME NEW k \in IssuedCalls, CloseRequest(t, k) PROVE RegistryInv'
      <4>1. k \in Ids
        BY <2>1
      <4> QED BY <1>0, <3>3, <4>1, RegistryClose
    <3>4. CASE \/ \E c \in IssuedClients : CreateRequest(t, c)
               \/ \E k \in IssuedCalls : Send(t, k) \/ Read(t, k)
      BY <1>0, <3>4, RegistryMoves
    <3> QED BY <1>2, <3>1, <3>2, <3>3, <3>4 DEF Enter
<1>3. ASSUME NEW t \in Threads, Step(t) PROVE RegistryInv'
  BY <1>0, <1>3, RegistryCancel, RegistryRegister, RegistryMoves DEF Step
<1> QED BY <1>1, <1>2, <1>3 DEF Next

THEOREM RegistryCorrect == Spec => []RegistryInv
BY RegistryInit, RegistryNext, PTL DEF Spec

(* A call in the registry always has its client there: create_request's    *)
(* second look leaves no call behind a closed client.                      *)
THEOREM CallsHaveClientAlways == Spec => []CallsHaveClient
<1>1. RegistryInv => CallsHaveClient
  BY DEF RegistryInv
<1> QED BY <1>1, RegistryCorrect, PTL

(* No handle is lost between its removal and its cancellation.             *)
THEOREM ClosedIsCancelledAlways == Spec => []ClosedIsCancelled
<1>1. RegistryInv => ClosedIsCancelled
  BY DEF RegistryInv
<1> QED BY <1>1, RegistryCorrect, PTL

(* What lookup finds in the registry is not cancelled.                     *)
LEMMA LiveOfInv == RegistryInv => RegisteredIsLive
<1> SUFFICES ASSUME RegistryInv, NEW h \in clients \union calls PROVE ~IsCancelled(h)
  BY DEF RegisteredIsLive
<1>1. h \notin cancelled
  BY DEF RegistryInv, CancelledIsClosed
<1>2. CASE h \in calls
  BY <1>2 DEF RegistryInv, CancelledIsClosed, CallsHaveClient, IsCancelled
<1>3. CASE h \in clients
  <2>1. owner[h] = 0 /\ 0 \notin cancelled
    BY <1>3 DEF RegistryInv, KindsDisjoint, IssuedClients, IssuedCalls, TypeOK, RegistryOK, Ids
  <2> QED BY <1>1, <2>1 DEF IsCancelled
<1> QED BY <1>1, <1>2, <1>3 DEF IsCancelled

LEMMA LivePrime == RegistryInv' => RegisteredIsLive'
BY LiveOfInv, PTL

THEOREM RegisteredIsLiveAlways == Spec => []RegisteredIsLive
BY LiveOfInv, RegistryCorrect, PTL

(* A handle that has left the registry never names anything again.         *)
THEOREM NeverReused == Spec => HandlesNeverReused
<1> DEFINE Fresh == \A h \in Issued : h \notin clients \union calls
                                      => h \notin clients' \union calls'
<1>1. ASSUME RegistryInv, [Next]_vars PROVE [Fresh]_vars
  <2>1. ASSUME NEW t \in Threads, Create(t) PROVE Fresh
    BY <1>1, <2>1, IssuedGrows DEF Create
  <2>2. ASSUME NEW t \in Threads, Register(t) PROVE Fresh
    BY <1>1, <2>2, IssuedGrows DEF Register
  <2>3. ASSUME NEW t \in Threads, NEW c \in IssuedClients, Close(t, c) \/ CreateRequest(t, c)
        PROVE  Fresh
    BY <2>3 DEF Close, CreateRequest, registryVars
  <2>4. ASSUME NEW t \in Threads, NEW k \in IssuedCalls,
               CloseRequest(t, k) \/ Send(t, k) \/ Read(t, k)
        PROVE  Fresh
    BY <2>4 DEF CloseRequest, Send, Read, Lookup, registryVars
  <2>5. ASSUME NEW t \in Threads,
               \/ Cancel(t) \/ Abort(t) \/ Poll(t) \/ Suspend(t)
               \/ SendStart(t) \/ SendAnswer(t) \/ ReadStart(t) \/ ReadAnswer(t)
        PROVE  Fresh
    BY <2>5 DEF Cancel, Abort, Poll, Suspend, SendStart, SendAnswer, ReadStart,
                ReadAnswer, registryVars
  <2> QED BY <1>1, <2>1, <2>2, <2>3, <2>4, <2>5 DEF Next, Enter, Step
<1> QED BY <1>1, RegistryCorrect, PTL DEF Spec, HandlesNeverReused

-----------------------------------------------------------------------------
(* The bridge implements HandleTable. *)

(* What the tables say is determined by the registry and the tokens.       *)
LEMMA TableStutter ==
  ASSUME UNCHANGED <<registryVars, cancelled>>
  PROVE  UNCHANGED Table!vars
<1>1. UNCHANGED <<nextId, clients, calls, owner, cancelled>>
  BY DEF registryVars
<1> QED BY <1>1 DEF Table!vars, Issued, IsCancelled

LEMMA TableInit == Init => Table!Init
<1> SUFFICES ASSUME Init PROVE Table!Init
  OBVIOUS
<1>1. Issued = {} /\ clients \union calls = {} /\ owner = [h \in Ids |-> 0]
  BY DEF Init, NoCalls, Issued
<1>2. {h \in Ids : IsCancelled(h)} = {}
  BY DEF Init, NoCalls, IsCancelled
<1> QED BY <1>1, <1>2 DEF Table!Init

LEMMA TableCreate ==
  ASSUME RegistryInv, NEW t \in Threads, Create(t)
  PROVE  [Table!Next]_(Table!vars)
<1>1. UNCHANGED <<calls, owner, cancelled>>
  BY DEF Create
<1>2. ASSUME NEW h \in Ids, Issue(h), clients' = clients \union {h}
      PROVE  Table!OpenRoot(h)
  <2>1. Issued' = Issued \union {h} /\ h \notin Issued
    BY <1>2, IssuedGrows
  <2> QED BY <1>1, <1>2, <2>1 DEF Table!OpenRoot, IsCancelled
<1>3. CASE UNCHANGED <<nextId, clients>>
  BY <1>1, <1>3, TableStutter DEF registryVars
<1> QED BY <1>2, <1>3 DEF Create, Table!Next

LEMMA TableRegister ==
  ASSUME RegistryInv, NEW t \in Threads, Register(t)
  PROVE  [Table!Next]_(Table!vars)
<1>1. UNCHANGED <<clients, cancelled>> /\ pc[t] = "build"
  BY DEF Register
<1>2. ASSUME NEW h \in Ids, Issue(h), StillOpen(arg[t]),
             calls' = calls \union {h}, owner' = [owner EXCEPT ![h] = arg[t]]
      PROVE  arg[t] \in Ids /\ Table!OpenChild(h, arg[t])
  <2>1. /\ Issued' = Issued \union {h} /\ h \notin Issued
        /\ owner[h] = 0 /\ h \notin cancelled
    BY <1>2, IssuedGrows
  <2>2. arg[t] \in clients /\ arg[t] \in Ids
    BY <1>1, <1>2 DEF StillOpen, RegistryInv, TypeOK, ThreadsOK
  <2>3. arg[t] \notin cancelled /\ 0 \notin cancelled
    BY <2>2, BridgeAssumption DEF RegistryInv, CancelledIsClosed, TypeOK, RegistryOK, Ids
  <2>4. \A k \in Ids : IsCancelled(k)' = IsCancelled(k)
    BY <1>1, <1>2, <2>1, <2>3 DEF IsCancelled, RegistryInv, TypeOK, RegistryOK
  <2> QED BY <1>1, <1>2, <2>1, <2>2, <2>4 DEF Table!OpenChild
<1>3. CASE UNCHANGED <<nextId, calls, owner>>
  BY <1>1, <1>3, TableStutter DEF registryVars
<1> QED BY <1>2, <1>3 DEF Register, Table!Next

LEMMA TableClose ==
  ASSUME RegistryInv, NEW t \in Threads, NEW h \in Ids,
         \/ h \in IssuedClients /\ Close(t, h)
         \/ h \in IssuedCalls /\ CloseRequest(t, h)
  PROVE  [Table!Next]_(Table!vars)
<1> DEFINE live == clients \union calls
<1>1. UNCHANGED <<nextId, owner, cancelled>>
  BY DEF Close, CloseRequest
<1>2. /\ \A c \in clients : owner[c] = 0 /\ c \notin calls
      /\ \A k \in calls : owner[k] \in clients
      /\ h # 0
  BY DEF RegistryInv, KindsDisjoint, CallsHaveClient, IssuedClients, IssuedCalls, Ids
<1>3. CASE h \in live
  <2>1. {k \in live : owner[k] = h} = CallsOf(h)
    BY <1>2 DEF CallsOf
  <2>2. clients' \union calls' = live \ ({h} \union CallsOf(h))
    <3>1. CASE Close(t, h) /\ h \in IssuedClients
      <4>1. h \notin calls
        BY <3>1 DEF RegistryInv, KindsDisjoint, IssuedClients
      <4> QED BY <1>2, <3>1, <4>1 DEF Close, CallsOf
    <3>2. CASE CloseRequest(t, h) /\ h \in IssuedCalls
      <4>1. h \notin clients /\ CallsOf(h) = {}
        BY <1>2, <3>2 DEF RegistryInv, KindsDisjoint, IssuedClients, CallsOf
      <4> QED BY <3>2, <4>1 DEF CloseRequest
    <3> QED BY <3>1, <3>2
  <2>3. Table!Close(h)
    BY <1>1, <1>3, <2>1, <2>2 DEF Table!Close, Table!Children, Issued, IsCancelled
  <2> QED BY <2>3 DEF Table!Next
<1>4. CASE h \notin live
  <2>1. CallsOf(h) = {}
    BY <1>2, <1>4 DEF CallsOf
  <2>2. UNCHANGED <<clients, calls>>
    BY <1>4, <2>1 DEF Close, CloseRequest, registryVars
  <2> QED BY <1>1, <2>2, TableStutter DEF registryVars
<1> QED BY <1>3, <1>4

LEMMA TableCancel ==
  ASSUME RegistryInv, RegistryInv', NEW t \in Threads, Cancel(t)
  PROVE  [Table!Next]_(Table!vars)
<1> DEFINE S == {h \in Ids : IsCancelled(h)}
<1>1. UNCHANGED <<nextId, clients, calls, owner>> /\ cancelled \subseteq cancelled'
  BY DEF Cancel, registryVars
<1>2. S \subseteq S'
  BY <1>1 DEF IsCancelled
<1>3. S' \subseteq Issued \ (clients \union calls)
  <2>1. SUFFICES ASSUME NEW h \in Ids, IsCancelled(h)'
                 PROVE  h \in Issued' /\ h \notin (clients \union calls)'
    BY <1>1 DEF Issued
  <2>2. h \notin (clients \union calls)'
    BY <2>1, LivePrime DEF RegisteredIsLive
  <2>3. h \in Issued'
    <3>1. 0 \notin cancelled'
      BY BridgeAssumption DEF RegistryInv, TypeOK, RegistryOK, Ids
    <3> QED
      BY <2>1, <3>1 DEF RegistryInv, CancelledIsClosed, OwnersAreClients, IsCancelled
  <2> QED BY <2>2, <2>3
<1>4. Table!Release(S')
  BY <1>1, <1>2, <1>3 DEF Table!Release, Issued
<1> QED BY <1>4 DEF Table!Next

(* Every behaviour of the bridge is one of the handle table: a close is    *)
(* one instant for the callers although it takes two critical sections.    *)
THEOREM ImplementsTable == Spec => TableSpec
<1>1. ASSUME RegistryInv, RegistryInv', [Next]_vars PROVE [Table!Next]_(Table!vars)
  <2>1. CASE UNCHANGED vars
    BY <2>1, TableStutter DEF vars, registryVars
  <2>2. ASSUME NEW t \in Threads, Enter(t) PROVE [Table!Next]_(Table!vars)
    <3>1. IssuedCalls \subseteq Ids /\ IssuedClients \subseteq Ids
      BY <1>1, IssuedType DEF RegistryInv, TypeOK
    <3>2. CASE Create(t)
      BY <1>1, <3>2, TableCreate
    <3>3. ASSUME NEW c \in IssuedClients, Close(t, c) PROVE [Table!Next]_(Table!vars)
      <4>1. c \in Ids /\ c \in IssuedClients /\ Close(t, c)
        BY <3>1, <3>3
      <4> QED BY <1>1, <4>1, TableClose
    <3>4. ASSUME NEW k \in IssuedCalls, CloseRequest(t, k) PROVE [Table!Next]_(Table!vars)
      <4>1. k \in Ids /\ k \in IssuedCalls /\ CloseRequest(t, k)
        BY <3>1, <3>4
      <4> QED BY <1>1, <4>1, TableClose
    <3>5. CASE \/ \E c \in IssuedClients : CreateRequest(t, c)
               \/ \E k \in IssuedCalls : Send(t, k) \/ Read(t, k)
      BY <3>5, TableStutter DEF CreateRequest, Send, Read, Lookup
    <3> QED BY <2>2, <3>2, <3>3, <3>4, <3>5 DEF Enter
  <2>3. ASSUME NEW t \in Threads, Step(t) PROVE [Table!Next]_(Table!vars)
    <3>1. CASE Cancel(t)
      BY <1>1, <3>1, TableCancel
    <3>2. CASE Register(t)
      BY <1>1, <3>2, TableRegister
    <3>3. CASE \/ Abort(t) \/ Poll(t) \/ Suspend(t) \/ SendStart(t)
               \/ SendAnswer(t) \/ ReadStart(t) \/ ReadAnswer(t)
      BY <3>3, TableStutter
      DEF Abort, Poll, Suspend, SendStart, SendAnswer, ReadStart, ReadAnswer
    <3> QED BY <2>3, <3>1, <3>2, <3>3 DEF Step
  <2> QED BY <1>1, <2>1, <2>2, <2>3 DEF Next
<1> QED BY <1>1, TableInit, RegistryCorrect, PTL DEF Spec, TableSpec, Table!Spec

-----------------------------------------------------------------------------
(* Sequences of body positions. *)

(* Where a chunk is split does not matter to what it adds up to.           *)
LEMMA SplitAddsUp ==
  ASSUME NEW S, NEW a \in Seq(S), NEW b \in Seq(S), NEW n \in 0 .. Len(b)
  PROVE  (a \o SubSeq(b, 1, n)) \o SubSeq(b, n + 1, Len(b)) = a \o b
<1>1. Len(b) \in Nat /\ \A i \in 1 .. Len(b) : b[i] \in S
  BY LenProperties
<1>2. SubSeq(b, 1, n) \in Seq(S)
  <2>1. \A i \in 1 .. n : b[i] \in S
    BY <1>1
  <2> QED BY <1>1, <2>1, SubSeqProperties
<1>3. SubSeq(b, n + 1, Len(b)) \in Seq(S)
  <2>1. \A i \in n + 1 .. Len(b) : b[i] \in S
    BY <1>1
  <2> QED BY <1>1, <2>1, SubSeqProperties
<1>4. SubSeq(b, 1, n) \o SubSeq(b, n + 1, Len(b)) = b
  <2>1. SubSeq(b, 1, n) \o SubSeq(b, n + 1, Len(b)) = SubSeq(b, 1, Len(b))
    <3>1. 1 \in 1 .. Len(b) + 1 /\ n \in 1 - 1 .. Len(b) /\ Len(b) \in n .. Len(b)
      BY <1>1
    <3> QED BY <3>1, ConcatAdjacentSubSeq
  <2> QED BY <2>1, SubSeqFull
<1>5. \A p, q \in Seq(S) : (a \o p) \o q = a \o (p \o q)
  BY ConcatAssociative
<1>6. (a \o SubSeq(b, 1, n)) \o SubSeq(b, n + 1, Len(b))
        = a \o (SubSeq(b, 1, n) \o SubSeq(b, n + 1, Len(b)))
  BY ONLY <1>2, <1>3, <1>5
<1> QED BY ONLY <1>4, <1>6

(* The bytes 1 .. m, once f of them are there and the others follow.       *)
LEMMA ChunkExtends ==
  ASSUME NEW f \in Nat, NEW m \in Nat, f <= m
  PROVE  [i \in 1 .. f |-> i] \o [i \in 1 .. m - f |-> f + i] = [i \in 1 .. m |-> i]
<1> DEFINE a == [i \in 1 .. f |-> i]
           b == [i \in 1 .. m - f |-> f + i]
           c == [i \in 1 .. m |-> i]
<1>1. a \in Seq(Nat) /\ Len(a) = f
  OBVIOUS
<1>2. b \in Seq(Nat) /\ Len(b) = m - f
  <2>1. m - f \in Nat /\ \A i \in 1 .. m - f : f + i \in Nat
    OBVIOUS
  <2> QED BY <2>1
<1>3. c \in Seq(Nat) /\ Len(c) = m
  OBVIOUS
<1>4. a \o b \in Seq(Nat) /\ Len(a \o b) = m
  BY <1>1, <1>2, ConcatProperties
<1>5. \A i \in 1 .. m : (a \o b)[i] = c[i]
  <2>1. \A i \in 1 .. Len(a) + Len(b) : (a \o b)[i] = IF i <= Len(a) THEN a[i] ELSE b[i - Len(a)]
    BY <1>1, <1>2, ConcatProperties
  <2> QED BY <2>1, <1>1, <1>2
<1> QED BY <1>3, <1>4, <1>5, SeqEqual

(* How much of a call's body is out: what is fetched and not pending.      *)
LEMMA OutLength ==
  ASSUME TypeOK, BytesInOrder, NEW k \in Ids
  PROVE  /\ Len(out[k]) \in Nat /\ Len(pending[k]) \in Nat /\ fetched[k] \in 0 .. BodyLen
         /\ Len(out[k]) + Len(pending[k]) = fetched[k]
<1>1. /\ out[k] \in Seq(1 .. BodyLen) /\ pending[k] \in Seq(1 .. BodyLen)
      /\ fetched[k] \in 0 .. BodyLen /\ fetched[k] \in Nat
  BY BridgeAssumption DEF TypeOK, CallsOK
<1>2. Len(out[k] \o pending[k]) = Len(out[k]) + Len(pending[k])
  BY <1>1, ConcatProperties
<1>3. Len([i \in 1 .. fetched[k] |-> i]) = fetched[k]
  BY <1>1
<1> QED BY <1>1, <1>2, <1>3, LenProperties DEF BytesInOrder

-----------------------------------------------------------------------------
(* The inductive invariant, a call and a thread at a time.                 *)

(* What CallInv says of one call. *)
CallOK(k) ==
  /\ sends[k] <= 1
  /\ lock[k] # NoThread => /\ pc[lock[k]] \in {"poll", "body"}
                           /\ arg[lock[k]] = k
  /\ out[k] \o pending[k] = [i \in 1 .. fetched[k] |-> i]
  /\ phase[k] = "Ready" => sends[k] = 0
  /\ phase[k] = "Done" /\ lock[k] = NoThread => EndExplained(k)
  /\ lock[k] # NoThread =>
       \/ op[lock[k]] = "send" /\ phase[k] = "Done"
       \/ op[lock[k]] = "read" /\ phase[k] = "Streaming" /\ pending[k] = <<>>

(* What CallInv says of one thread. *)
ReaderOK(t) ==
  /\ op[t] = "read" => arg[t] \in Ids
  /\ op[t] = "read" /\ res[t] = "eof" /\ pc[t] = "idle" => EndExplained(arg[t])

LEMMA CallInvParts ==
  CallInv <=> (\A k \in Ids : CallOK(k)) /\ (\A t \in Threads : ReaderOK(t))
BY DEF CallInv, SentAtMostOnce, LockHeldByWorker, BytesInOrder, PhaseExplained,
       EofIsExplained, ReadersNameHandles, CallOK, ReaderOK

LEMMA CallInvPartsPrime ==
  CallInv' <=> (\A k \in Ids : CallOK(k)') /\ (\A t \in Threads : ReaderOK(t)')
BY DEF CallInv, SentAtMostOnce, LockHeldByWorker, BytesInOrder, PhaseExplained,
       EofIsExplained, ReadersNameHandles, CallOK, ReaderOK

(* A token once cancelled stays so, and a call's owner is given once.      *)
LEMMA CancelLasts ==
  ASSUME RegistryInv, [Next]_vars, NEW k \in Ids, IsCancelled(k)
  PROVE  IsCancelled(k)'
<1>1. CASE UNCHANGED <<owner, cancelled>>
  BY <1>1 DEF IsCancelled
<1>2. ASSUME NEW t \in Threads, Cancel(t) PROVE IsCancelled(k)'
  BY <1>2 DEF Cancel, registryVars, IsCancelled
<1>3. ASSUME NEW t \in Threads, Register(t) PROVE IsCancelled(k)'
  <2>1. CASE UNCHANGED owner
    BY <1>3, <2>1, <1>1 DEF Register
  <2>2. ASSUME NEW h \in Ids, Issue(h), owner' = [owner EXCEPT ![h] = arg[t]]
        PROVE  IsCancelled(k)'
    <3>1. owner[h] = 0 /\ 0 \notin cancelled /\ cancelled' = cancelled
      BY <1>3, <2>2, IssuedGrows, BridgeAssumption
      DEF Register, RegistryInv, TypeOK, RegistryOK, Ids
    <3> QED BY <2>2, <3>1 DEF IsCancelled, RegistryInv, TypeOK, RegistryOK
  <2> QED BY <1>3, <2>1, <2>2 DEF Register
<1>4. CASE UNCHANGED vars
  BY <1>4, <1>1 DEF vars, registryVars
<1>5. ASSUME NEW t \in Threads, Enter(t) PROVE UNCHANGED <<owner, cancelled>>
  BY <1>5 DEF Enter, Create, Close, CreateRequest, CloseRequest, Send, Read, Lookup,
              registryVars
<1>6. ASSUME NEW t \in Threads, Step(t), ~Cancel(t), ~Register(t)
      PROVE  UNCHANGED <<owner, cancelled>>
  BY <1>6 DEF Step, Abort, Poll, Suspend, SendStart, SendAnswer, ReadStart, ReadAnswer,
              registryVars
<1> QED BY <1>1, <1>2, <1>3, <1>4, <1>5, <1>6 DEF Next

(* A reason for the end stays one.                                         *)
LEMMA ReasonLasts ==
  ASSUME RegistryInv, [Next]_vars, NEW k \in Ids, failed \subseteq failed',
         UNCHANGED (out[k]) \/ Len(out[k]) # BodyLen
  PROVE  EndExplained(k) => EndExplained(k)'
BY CancelLasts DEF EndExplained

(* A step on other calls, by a thread that does not hold this one.         *)
LEMMA CallElsewhere ==
  ASSUME TypeOK, NEW t \in Threads, NEW k \in Ids, CallOK(k), lock[k] # t,
         UNCHANGED <<phase[k], lock[k], pending[k], fetched[k], sends[k], out[k]>>,
         EndExplained(k) => EndExplained(k)',
         \A u \in Threads \ {t} : UNCHANGED <<pc[u], op[u], arg[u]>>
  PROVE  CallOK(k)'
<1>1. lock[k] \in (Threads \ {t}) \union {NoThread}
  BY DEF TypeOK, CallsOK
<1> QED BY <1>1 DEF CallOK

(* A step of another thread. *)
LEMMA ReaderElsewhere ==
  ASSUME NEW u \in Threads, ReaderOK(u), UNCHANGED <<pc[u], op[u], arg[u], res[u]>>,
         \A k \in Ids : EndExplained(k) => EndExplained(k)'
  PROVE  ReaderOK(u)'
<1>1. op'[u] = "read" => arg'[u] \in Ids
  BY DEF ReaderOK
<1>2. ASSUME op'[u] = "read", res'[u] = "eof", pc'[u] = "idle"
      PROVE  EndExplained(arg[u])' 
  BY <1>2 DEF ReaderOK, EndExplained, IsCancelled
<1> QED BY <1>1, <1>2 DEF ReaderOK

-----------------------------------------------------------------------------
(* The steps. *)

(* A step that touches no call: its thread goes on working on the call it  *)
(* works on, if any, and is not told of an end.                            *)
LEMMA CallsQuiet ==
  ASSUME RegistryInv, CallInv, [Next]_vars, UNCHANGED <<callVars, history>>,
         NEW t \in Threads,
         \A u \in Threads \ {t} : UNCHANGED <<pc[u], op[u], arg[u], res[u]>>,
         pc[t] \in {"poll", "body"} =>
           pc'[t] \in {"poll", "body"} /\ UNCHANGED <<op[t], arg[t]>>,
         op'[t] = "read" => arg'[t] \in Ids,
         pc'[t] # "idle" \/ res'[t] # "eof"
  PROVE  CallInv'
<1>1. UNCHANGED <<phase, lock, pending, fetched, sends, out, failed>>
  BY DEF callVars, history
<1>2. \A k \in Ids : EndExplained(k) => EndExplained(k)'
  BY <1>1, ReasonLasts
<1>3. ASSUME NEW k \in Ids PROVE CallOK(k)'
  <2>1. CallOK(k)
    BY CallInvParts
  <2>2. lock[k] \in Threads \union {NoThread}
    BY DEF RegistryInv, TypeOK, CallsOK
  <2> QED BY <1>1, <1>2, <2>1, <2>2 DEF CallOK
<1>4. ASSUME NEW u \in Threads PROVE ReaderOK(u)'
  <2>1. CASE u = t
    BY <2>1 DEF ReaderOK
  <2>2. CASE u # t
    <3>1. ReaderOK(u)
      BY CallInvParts
    <3> QED BY <1>2, <2>2, <3>1, ReaderElsewhere
  <2> QED BY <2>1, <2>2
<1> QED BY <1>3, <1>4, CallInvPartsPrime

(* A step of the thread t on its call k: the other calls and threads keep  *)
(* what holds of them, so that k and t remain to be looked at.             *)
LEMMA OneCall ==
  ASSUME RegistryInv, CallInv, [Next]_vars, failed \subseteq failed',
         NEW t \in Threads, NEW k \in Ids, k = arg[t],
         UNCHANGED <<op, arg>>,
         \A u \in Threads \ {t} : UNCHANGED <<pc[u], res[u]>>,
         \A j \in Ids \ {k} :
           UNCHANGED <<phase[j], lock[j], pending[j], fetched[j], sends[j], out[j]>>,
         UNCHANGED (out[k]) \/ Len(out[k]) # BodyLen,
         CallOK(k)',
         pc'[t] = "idle" /\ op[t] = "read" /\ res'[t] = "eof" => EndExplained(k)'
  PROVE  CallInv'
<1>1. \A j \in Ids : EndExplained(j) => EndExplained(j)'
  <2>1. ASSUME NEW j \in Ids PROVE UNCHANGED (out[j]) \/ Len(out[j]) # BodyLen
    OBVIOUS
  <2> QED BY <2>1, ReasonLasts
<1>2. ASSUME NEW j \in Ids, j # k PROVE CallOK(j)'
  <2>1. CallOK(j) /\ lock[j] # t
    <3>1. CallOK(j)
      BY CallInvParts
    <3> QED BY <1>2, <3>1, BridgeAssumption DEF CallOK
  <2> QED BY <1>1, <1>2, <2>1, CallElsewhere DEF RegistryInv
<1>3. ASSUME NEW u \in Threads PROVE ReaderOK(u)'
  <2>1. ReaderOK(u)
    BY CallInvParts
  <2>2. CASE u = t
    BY <2>1, <2>2 DEF ReaderOK, EndExplained, IsCancelled
  <2>3. CASE u # t
    BY <1>1, <2>1, <2>3, ReaderElsewhere
  <2> QED BY <2>2, <2>3
<1> QED BY <1>2, <1>3, CallInvPartsPrime

(* Entering the bridge, closing and registering touch no call's state, and *)
(* neither do polls that find the future pending.                          *)
LEMMA CallEnters ==
  ASSUME RegistryInv, CallInv, TypeOK', [Next]_vars, NEW t \in Threads,
         Enter(t) \/ Cancel(t) \/ Register(t) \/ Poll(t) \/ Suspend(t)
  PROVE  CallInv'
<1>0. ThreadsOK /\ ThreadsOK' /\ IssuedCalls \subseteq Ids /\ IssuedClients \subseteq Ids
  BY IssuedType DEF RegistryInv, TypeOK
<1>1. CASE Create(t)
  <2>1. PICK h \in 0 .. MaxId, r \in {"handle", "internal"} :
          StartAndReturn(t, "create", h, r)
    BY <1>1, BridgeAssumption DEF Create, Ids
  <2>2. UNCHANGED <<callVars, history>>
    BY <1>1 DEF Create
  <2> QED BY <1>0, <2>1, <2>2, CallsQuiet DEF StartAndReturn, ThreadsOK
<1>2. ASSUME NEW h \in Ids, NEW o \in Ops, NEW p \in {"cancel", "build", "poll"},
             NEW r \in {"handle", "closed"}, UNCHANGED <<callVars, history>>,
             Start(t, o, h, p) \/ StartAndReturn(t, o, h, r)
      PROVE  CallInv'
  <2>1. pc[t] = "idle" /\ arg'[t] = h /\ res'[t] # "eof"
    BY <1>0, <1>2 DEF Start, StartAndReturn, ThreadsOK
  <2>2. \A u \in Threads \ {t} : UNCHANGED <<pc[u], op[u], arg[u], res[u]>>
    BY <1>0, <1>2 DEF Start, StartAndReturn, ThreadsOK
  <2> QED BY <1>2, <2>1, <2>2, CallsQuiet
<1>3. ASSUME NEW c \in IssuedClients, Close(t, c) \/ CreateRequest(t, c) PROVE CallInv'
  <2>1. c \in Ids
    BY <1>0
  <2>2. UNCHANGED <<callVars, history>>
    BY <1>3 DEF Close, CreateRequest
  <2>3. \/ Start(t, "close", c, "cancel") \/ StartAndReturn(t, "close", c, "handle")
        \/ Start(t, "create_request", c, "build")
        \/ StartAndReturn(t, "create_request", c, "closed")
    BY <1>3 DEF Close, CreateRequest
  <2> QED BY <1>2, <2>1, <2>2, <2>3 DEF Ops
<1>4. ASSUME NEW k \in IssuedCalls, CloseRequest(t, k) \/ Send(t, k) \/ Read(t, k)
      PROVE  CallInv'
  <2>1. k \in Ids
    BY <1>0
  <2>2. UNCHANGED <<callVars, history>>
    BY <1>4 DEF CloseRequest, Send, Read, Lookup
  <2>3. PICK o \in {"close_request", "send", "read"} :
          \E p \in {"cancel", "poll"}, r \in {"handle", "closed"} :
            Start(t, o, k, p) \/ StartAndReturn(t, o, k, r)
    BY <1>4 DEF CloseRequest, Send, Read, Lookup
  <2> QED BY <1>2, <2>1, <2>2, <2>3 DEF Ops
<1>5. ASSUME Cancel(t) PROVE CallInv'
  <2>1. UNCHANGED <<callVars, history>> /\ pc[t] = "cancel" /\ Return(t, "handle")
    BY <1>5 DEF Cancel
  <2>2. /\ UNCHANGED <<op, arg>> /\ res'[t] = "handle"
        /\ \A u \in Threads \ {t} : UNCHANGED <<pc[u], op[u], arg[u], res[u]>>
    BY <1>0, <2>1 DEF Return, ThreadsOK
  <2>3. op'[t] = "read" => arg'[t] \in Ids
    BY <2>2, CallInvParts DEF ReaderOK
  <2> QED BY <2>1, <2>2, <2>3, CallsQuiet
<1>6. ASSUME Register(t) PROVE CallInv'
  <2>1. UNCHANGED <<callVars, history>> /\ pc[t] = "build" /\ UNCHANGED op
    BY <1>6 DEF Register, Return
  <2>2. res'[t] # "eof"
    BY <1>0, <1>6 DEF Register, Return, ThreadsOK
  <2>3. \A u \in Threads \ {t} : UNCHANGED <<pc[u], op[u], arg[u], res[u]>>
    BY <1>0, <1>6 DEF Register, Return, ThreadsOK
  <2>4. op'[t] = "read" => arg'[t] \in Ids
    <3>1. arg'[t] = arg[t] \/ arg'[t] \in Ids
      BY <1>0, <1>6 DEF Register, Return, ThreadsOK
    <3> QED BY <2>1, <3>1, CallInvParts DEF ReaderOK
  <2> QED BY <2>1, <2>2, <2>3, <2>4, CallsQuiet
<1>7. ASSUME Poll(t) \/ Suspend(t) PROVE CallInv'
  <2>1. UNCHANGED <<callVars, history>>
    BY <1>7 DEF Poll, Suspend
  <2>2. PICK p \in {"poll", "body"} : Goto(t, p)
    BY <1>7 DEF Poll, Suspend
  <2>3. /\ UNCHANGED <<op, arg, res>> /\ pc'[t] \in {"poll", "body"}
        /\ \A u \in Threads \ {t} : UNCHANGED <<pc[u], op[u], arg[u], res[u]>>
    BY <1>0, <2>2 DEF Goto, ThreadsOK
  <2>4. op'[t] = "read" => arg'[t] \in Ids
    BY <2>3, CallInvParts DEF ReaderOK
  <2> QED BY <2>1, <2>3, <2>4, CallsQuiet
<1> QED BY <1>1, <1>3, <1>4, <1>5, <1>6, <1>7 DEF Enter

(* What a thread at work on a call knows, and what a return leaves alone.  *)
LEMMA WorkerIn ==
  ASSUME RegistryInv, NEW t \in Threads, pc[t] \in {"poll", "body"}
  PROVE  /\ arg[t] \in Ids
         /\ \A r \in Results : Return(t, r) =>
              /\ UNCHANGED <<op, arg>>
              /\ pc'[t] = "idle" /\ res'[t] = r
              /\ \A u \in Threads \ {t} : UNCHANGED <<pc[u], res[u]>>
<1>1. arg[t] \in Ids
  BY IssuedType DEF RegistryInv, TypeOK, WorkersKnowHandles
<1>2. ASSUME NEW r \in Results, Return(t, r)
      PROVE  /\ UNCHANGED <<op, arg>>
             /\ pc'[t] = "idle" /\ res'[t] = r
             /\ \A u \in Threads \ {t} : UNCHANGED <<pc[u], res[u]>>
  BY <1>2 DEF Return, RegistryInv, TypeOK, ThreadsOK
<1> QED BY <1>1, <1>2

(* A cancelled thread lets go of the call as it is: the token is what      *)
(* explains a Done that nobody finished.                                   *)
LEMMA CallAbort ==
  ASSUME RegistryInv, CallInv, [Next]_vars, NEW t \in Threads, Abort(t)
  PROVE  CallInv'
<1>0. pc[t] = "poll"
  BY DEF Abort
<1> PICK k \in Ids : k = arg[t]
  BY <1>0, WorkerIn
<1>1. /\ pc[t] = "poll" /\ IsCancelled(k) /\ lock' = Dropped(t) /\ Return(t, "cancelled")
      /\ UNCHANGED <<phase, pending, fetched, sends, out, failed>>
  BY DEF Abort, history
<1>2. /\ UNCHANGED <<op, arg>> /\ pc'[t] = "idle" /\ res'[t] = "cancelled"
      /\ \A u \in Threads \ {t} : UNCHANGED <<pc[u], res[u]>>
  BY <1>1, WorkerIn DEF Results
<1>3. \A j \in Ids : lock'[j] = IF lock[j] = t THEN NoThread ELSE lock[j]
  BY <1>1 DEF Dropped
<1>4. \A j \in Ids \ {k} : lock'[j] = lock[j]
  BY <1>3, CallInvParts, BridgeAssumption DEF CallOK
<1>5. CallOK(k)'
  <2>1. CallOK(k) /\ lock[k] \in Threads \union {NoThread}
    BY <1>2, CallInvParts DEF RegistryInv, TypeOK, CallsOK
  <2>2. EndExplained(k)'
    BY <1>1, <1>2, CancelLasts DEF EndExplained
  <2> QED BY <1>1, <1>2, <1>3, <2>1, <2>2, BridgeAssumption DEF CallOK
<1> QED BY <1>1, <1>2, <1>4, <1>5, OneCall

LEMMA CallSend ==
  ASSUME RegistryInv, CallInv, [Next]_vars, NEW t \in Threads,
         SendStart(t) \/ SendAnswer(t)
  PROVE  CallInv'
<1>1. pc[t] = "body" /\ op[t] = "send" /\ UNCHANGED <<pending, fetched, out>>
  BY DEF SendStart, SendAnswer, InBody
<1>2. PICK k \in Ids : k = arg[t]
  BY <1>1, WorkerIn
<1>3. /\ UNCHANGED <<op, arg>>
      /\ \A u \in Threads \ {t} : UNCHANGED <<pc[u], res[u]>>
  <2>1. UNCHANGED threadVars \/ \E r \in Results : Return(t, r)
    BY DEF SendStart, Transmit, SendAnswer, Results
  <2> QED BY <1>1, <2>1, WorkerIn DEF threadVars
<1>4. CallOK(k) /\ sends[k] \in Nat
  BY <1>2, CallInvParts DEF RegistryInv, TypeOK, CallsOK
<1>5. /\ failed \subseteq failed'
      /\ \A j \in Ids \ {k} : UNCHANGED <<phase[j], lock[j], sends[j]>>
  BY <1>2 DEF SendStart, Transmit, SendAnswer, OpenStream, RegistryInv, TypeOK, CallsOK
<1>6. CallOK(k)'
  <2>1. CASE SendStart(t)
    <3>1. CASE Transmit(t, k)
      <4>1. sends[k] = 0 /\ sends'[k] = 1
        BY <1>2, <1>4, <3>1 DEF Transmit, CallOK, RegistryInv, TypeOK, CallsOK
      <4>2. phase'[k] = "Done" /\ lock'[k] = t /\ UNCHANGED threadVars
        BY <1>2, <3>1 DEF Transmit, RegistryInv, TypeOK, CallsOK
      <4> QED BY <1>1, <1>2, <1>4, <4>1, <4>2, BridgeAssumption DEF CallOK, threadVars
    <3>2. CASE lock[k] = NoThread /\ UNCHANGED <<phase, lock, sends, failed>>
      <4>1. EndExplained(k) => EndExplained(k)'
        BY <1>1, <1>2, <3>2, ReasonLasts
      <4> QED BY <1>1, <1>4, <3>2, <4>1 DEF CallOK
    <3> QED BY <1>2, <2>1, <3>1, <3>2 DEF SendStart
  <2>2. CASE SendAnswer(t)
    <3>1. lock[k] = t /\ lock'[k] = NoThread /\ UNCHANGED sends
      BY <1>2, <2>2 DEF SendAnswer, RegistryInv, TypeOK, CallsOK
    <3>2. phase[k] = "Done"
      BY <1>1, <1>4, <3>1, BridgeAssumption DEF CallOK
    <3>3. \/ phase'[k] = "Streaming"
          \/ phase'[k] = "Done" /\ k \in failed'
      BY <1>2, <2>2, <3>2 DEF SendAnswer, OpenStream, RegistryInv, TypeOK, CallsOK
    <3> QED BY <1>1, <1>4, <3>1, <3>3 DEF CallOK, EndExplained
  <2> QED BY <2>1, <2>2
<1> QED BY <1>1, <1>2, <1>3, <1>5, <1>6, OneCall

(* A read that finds bytes pending hands them out; one that does not, asks *)
(* the stream for more with the mutex held.                                *)
LEMMA CallRead ==
  ASSUME RegistryInv, CallInv, [Next]_vars, NEW t \in Threads, ReadStart(t)
  PROVE  CallInv'
<1>1. pc[t] = "body" /\ op[t] = "read" /\ UNCHANGED <<phase, fetched, sends, failed>>
  BY DEF ReadStart, InBody
<1>2. PICK k \in Ids : k = arg[t]
  BY <1>1, WorkerIn
<1>3. /\ UNCHANGED <<op, arg>>
      /\ \A u \in Threads \ {t} : UNCHANGED <<pc[u], res[u]>>
  <2>1. UNCHANGED threadVars \/ \E r \in Results : Return(t, r)
    BY DEF ReadStart, Results
  <2> QED BY <1>1, <2>1, WorkerIn DEF threadVars
<1>4. CallOK(k) /\ lock[k] = NoThread
  BY <1>2, CallInvParts DEF ReadStart
<1>5. /\ out[k] \in Seq(1 .. BodyLen) /\ pending[k] \in Seq(1 .. BodyLen)
      /\ Len(out[k]) \in Nat /\ Len(pending[k]) \in Nat /\ fetched[k] \in 0 .. BodyLen
      /\ Len(out[k]) + Len(pending[k]) = fetched[k]
  BY OutLength DEF CallInv, RegistryInv, TypeOK, CallsOK
<1>6. \A j \in Ids \ {k} :
        UNCHANGED <<phase[j], lock[j], pending[j], fetched[j], sends[j], out[j]>>
  BY <1>1, <1>2 DEF ReadStart, Deliver, RegistryInv, TypeOK, CallsOK
<1>7. CASE UNCHANGED <<lock, pending, out>>
  <2>1. EndExplained(k) => EndExplained(k)'
    BY <1>1, <1>7, ReasonLasts
  <2>2. CallOK(k)'
    BY <1>1, <1>4, <1>7, <2>1 DEF CallOK
  <2>3. pc'[t] = "idle" /\ res'[t] = "eof" => EndExplained(k)'
    <3>1. CASE phase[k] = "Done"
      BY <1>4, <2>1, <3>1 DEF CallOK
    <3>2. CASE phase[k] # "Done"
      <4>1. Return(t, "invalid_input") \/ Return(t, "data") \/ UNCHANGED threadVars
        BY <1>2, <3>2 DEF ReadStart
      <4> QED BY <1>1, <4>1, WorkerIn DEF Results, threadVars
    <3> QED BY <3>1, <3>2
  <2> QED BY <1>1, <1>2, <1>3, <1>6, <1>7, <2>2, <2>3, OneCall
<1>8. ASSUME NEW n \in Takes(pending[k]), Deliver(k, pending[k], n), UNCHANGED lock,
             Return(t, "data"), phase[k] = "Streaming"
      PROVE  CallInv'
  <2>1. n \in 0 .. Len(pending[k]) /\ Len(out[k]) # BodyLen
    <3>1. n \in Nat /\ 1 <= n /\ n <= Len(pending[k])
      BY <1>8 DEF Takes
    <3>2. BodyLen \in Nat /\ Len(out[k]) \in Nat /\ Len(pending[k]) \in Nat
      BY <1>5, BridgeAssumption
    <3>3. Len(out[k]) + Len(pending[k]) <= BodyLen
      <4>1. fetched[k] <= BodyLen
        BY <3>2 DEF RegistryInv, TypeOK, CallsOK
      <4> QED BY <1>5, <4>1
    <3>4. \A o, p \in Nat :
            o + p <= BodyLen /\ 1 <= n /\ n <= p => n \in 0 .. p /\ o # BodyLen
      BY <3>1, <3>2
    <3> QED BY <3>1, <3>2, <3>3, <3>4
  <2>2. out'[k] \o pending'[k] = out[k] \o pending[k]
    <3>1. /\ out'[k] = out[k] \o SubSeq(pending[k], 1, n)
          /\ pending'[k] = SubSeq(pending[k], n + 1, Len(pending[k]))
      BY <1>8 DEF Deliver, RegistryInv, TypeOK, CallsOK
    <3> QED BY <1>5, <2>1, <3>1, SplitAddsUp
  <2>3. CallOK(k)'
    BY <1>1, <1>4, <1>8, <2>2 DEF CallOK
  <2>4. res'[t] = "data"
    BY <1>1, <1>8, WorkerIn DEF Results
  <2> QED BY <1>1, <1>2, <1>3, <1>6, <2>1, <2>3, <2>4, <1>8, OneCall
<1>9. CASE /\ phase[k] = "Streaming" /\ pending[k] = <<>>
           /\ lock' = [lock EXCEPT ![k] = t] /\ UNCHANGED <<threadVars, pending, out>>
  <2>1. lock'[k] = t
    BY <1>9 DEF RegistryInv, TypeOK, CallsOK
  <2>2. CallOK(k)'
    BY <1>1, <1>2, <1>4, <1>9, <2>1, BridgeAssumption DEF CallOK, threadVars
  <2>3. pc'[t] = "body"
    BY <1>1, <1>9 DEF threadVars
  <2> QED BY <1>1, <1>2, <1>3, <1>6, <1>9, <2>2, <2>3, OneCall
<1> QED BY <1>2, <1>7, <1>8, <1>9 DEF ReadStart

(* The stream answers a read that holds the mutex, with nothing pending.   *)
LEMMA CallReadAnswer ==
  ASSUME RegistryInv, CallInv, [Next]_vars, NEW t \in Threads, ReadAnswer(t)
  PROVE  CallInv'
<1>1. pc[t] = "body" /\ op[t] = "read" /\ UNCHANGED sends
  BY DEF ReadAnswer, InBody
<1>2. PICK k \in Ids : k = arg[t]
  BY <1>1, WorkerIn
<1>3. /\ UNCHANGED <<op, arg>>
      /\ \A u \in Threads \ {t} : UNCHANGED <<pc[u], res[u]>>
  <2>1. \E r \in Results : Return(t, r)
    BY DEF ReadAnswer, Results
  <2> QED BY <1>1, <2>1, WorkerIn
<1>4. /\ lock[k] = t /\ lock'[k] = NoThread
      /\ phase[k] = "Streaming" /\ pending[k] = <<>> /\ sends[k] <= 1
      /\ out[k] \o pending[k] = [i \in 1 .. fetched[k] |-> i]
  <2>1. lock[k] = t /\ lock'[k] = NoThread
    BY <1>2 DEF ReadAnswer, RegistryInv, TypeOK, CallsOK
  <2> QED BY <1>1, <2>1, CallInvParts, BridgeAssumption DEF CallOK
<1>5. /\ out[k] \in Seq(1 .. BodyLen) /\ fetched[k] \in 0 .. BodyLen
      /\ Len(out[k]) = fetched[k] /\ fetched[k] \in Nat
  <2>1. Len(pending[k]) = 0
    BY <1>4
  <2>2. Len(out[k]) \in Nat /\ Len(out[k]) + Len(pending[k]) = fetched[k]
    BY OutLength DEF CallInv, RegistryInv
  <2>3. out[k] \in Seq(1 .. BodyLen) /\ fetched[k] \in 0 .. BodyLen
    BY DEF RegistryInv, TypeOK, CallsOK
  <2> QED BY <2>1, <2>2, <2>3, BridgeAssumption
<1>6. /\ failed \subseteq failed'
      /\ \A j \in Ids \ {k} :
           UNCHANGED <<phase[j], lock[j], pending[j], fetched[j], sends[j], out[j]>>
  BY <1>1, <1>2 DEF ReadAnswer, Deliver, RegistryInv, TypeOK, CallsOK
<1>7. ASSUME NEW m \in fetched[k] + 1 .. BodyLen, fetched' = [fetched EXCEPT ![k] = m],
             NEW n \in Takes(Chunk(k, m)), Deliver(k, Chunk(k, m), n), Return(t, "data"),
             UNCHANGED phase
      PROVE  CallInv'
  <2>1. /\ Chunk(k, m) \in Seq(1 .. BodyLen)
        /\ Len(Chunk(k, m)) = m - fetched[k]
    BY ChunkType DEF RegistryInv, TypeOK
  <2>2. m \in Nat /\ fetched[k] <= m /\ n \in 0 .. Len(Chunk(k, m)) /\ Len(out[k]) # BodyLen
    BY <1>5, <1>7, <2>1, BridgeAssumption DEF Takes
  <2>3. /\ out'[k] = out[k] \o SubSeq(Chunk(k, m), 1, n)
        /\ pending'[k] = SubSeq(Chunk(k, m), n + 1, Len(Chunk(k, m)))
        /\ fetched'[k] = m
    BY <1>7 DEF Deliver, RegistryInv, TypeOK, CallsOK
  <2>4. out'[k] \o pending'[k] = out[k] \o Chunk(k, m)
    <3>1. (out[k] \o SubSeq(Chunk(k, m), 1, n)) \o SubSeq(Chunk(k, m), n + 1, Len(Chunk(k, m)))
            = out[k] \o Chunk(k, m)
      BY <1>5, <2>1, <2>2, SplitAddsUp
    <3> QED BY <2>3, <3>1
  <2>5. out[k] = [i \in 1 .. fetched[k] |-> i]
    BY <1>4, <1>5, ConcatEmptySeq
  <2>6. out'[k] \o pending'[k] = [i \in 1 .. fetched'[k] |-> i]
    <3>1. out[k] \o Chunk(k, m) = [i \in 1 .. m |-> i]
      BY <1>5, <2>2, <2>5, ChunkExtends DEF Chunk
    <3> QED BY <2>3, <2>4, <3>1
  <2>7. CallOK(k)'
    BY <1>1, <1>4, <1>7, <2>6 DEF CallOK
  <2>8. res'[t] = "data"
    BY <1>1, <1>7, WorkerIn DEF Results
  <2> QED BY <1>2, <1>3, <1>6, <2>2, <2>7, <2>8, OneCall
<1>8. ASSUME phase' = [phase EXCEPT ![k] = "Done"], UNCHANGED <<pending, fetched, out>>,
             EndExplained(k)'
      PROVE  CallInv'
  <2>1. phase'[k] = "Done"
    BY <1>8 DEF RegistryInv, TypeOK, CallsOK
  <2>2. CallOK(k)'
    BY <1>1, <1>4, <1>8, <2>1 DEF CallOK
  <2> QED BY <1>2, <1>3, <1>6, <1>8, <2>2, OneCall
<1>9. k \in failed' => EndExplained(k)'
  BY DEF EndExplained
<1>10. fetched[k] = BodyLen /\ UNCHANGED out => EndExplained(k)'
  BY <1>5 DEF EndExplained
<1> QED BY <1>2, <1>7, <1>8, <1>9, <1>10 DEF ReadAnswer

-----------------------------------------------------------------------------

LEMMA CallNew == NoCalls => CallInv
<1> SUFFICES ASSUME NoCalls PROVE CallInv
  OBVIOUS
<1>1. ASSUME NEW k \in Ids PROVE CallOK(k)
  <2>1. <<>> \o <<>> = [i \in 1 .. 0 |-> i]
    OBVIOUS
  <2> QED BY <2>1 DEF NoCalls, CallOK
<1>2. ASSUME NEW t \in Threads PROVE ReaderOK(t)
  BY DEF NoCalls, ReaderOK
<1> QED BY <1>1, <1>2, CallInvParts

LEMMA CallInit == Init => CallInv
BY CallNew DEF Init

LEMMA CallNext ==
  ASSUME RegistryInv, CallInv, [Next]_vars
  PROVE  CallInv'
<1>1. TypeOK'
  BY TypeNext DEF RegistryInv
<1>2. CASE UNCHANGED vars
  <2>1. UNCHANGED <<callVars, history, threadVars, cancelled, owner>>
    BY <1>2 DEF vars, registryVars
  <2> QED
    BY <2>1
    DEF callVars, history, threadVars, CallInv, SentAtMostOnce, LockHeldByWorker,
        BytesInOrder, PhaseExplained, EofIsExplained, ReadersNameHandles,
        EndExplained, IsCancelled
<1>3. ASSUME NEW t \in Threads, Enter(t) \/ Step(t) PROVE CallInv'
  <2>1. CASE Enter(t) \/ Cancel(t) \/ Register(t) \/ Poll(t) \/ Suspend(t)
    BY <1>1, <2>1, CallEnters
  <2>2. CASE Abort(t)
    BY <2>2, CallAbort
  <2>3. CASE SendStart(t) \/ SendAnswer(t)
    BY <2>3, CallSend
  <2>4. CASE ReadStart(t)
    BY <2>4, CallRead
  <2>5. CASE ReadAnswer(t)
    BY <2>5, CallReadAnswer
  <2> QED BY <1>3, <2>1, <2>2, <2>3, <2>4, <2>5 DEF Step
<1> QED BY <1>2, <1>3 DEF Next

(* Of every call, whatever threads race on it: it is sent at most once, its*)
(* mutex is held by a thread at work on it, and a Done has a reason.       *)
THEOREM CallCorrect == Spec => []CallInv
BY CallInit, CallNext, RegistryCorrect, PTL DEF Spec

(* No two threads get the same request on the network.                     *)
THEOREM SentOnce == Spec => []SentAtMostOnce
<1>1. CallInv => SentAtMostOnce
  BY DEF CallInv
<1> QED BY <1>1, CallCorrect, PTL

(* Readers get the bytes of the body in order, none lost and none twice,   *)
(* however reads are split, cancelled or run concurrently.                 *)
THEOREM BodyInOrder == Spec => []BytesInOrder
<1>1. CallInv => BytesInOrder
  BY DEF CallInv
<1> QED BY <1>1, CallCorrect, PTL

(* A read that reports the end of the body has a reason.                   *)
THEOREM EofExplained == Spec => []EofIsExplained
<1>1. CallInv => EofIsExplained
  BY DEF CallInv
<1> QED BY <1>1, CallCorrect, PTL
=============================================================================
