---------------------------- MODULE WsConnProofs ----------------------------
(***************************************************************************)
(* Theorems about a connection of WsBridge, for any number of threads that *)
(* dial, read, write and close it: the invariant of its locks and of the   *)
(* messages on it, and what a call that ends reports.                      *)
(***************************************************************************)
EXTENDS WsBridgeProofs

-----------------------------------------------------------------------------
(* What a step of t does to the queue at a lock: it leaves, it joins at the*)
(* end, or nothing.  Either way nobody gets ahead of the others.           *)
Evolves(s, s2, t) ==
  /\ Distinct(s2)
  /\ \A u \in Threads \ {t} : In(s2, u) <=> In(s, u)
  /\ \A u \in Threads : \A v \in Threads \ {t} : Before(s2, u, v) => Before(s, u, v)

LEMMA LeaveEvolves ==
  ASSUME NEW s \in Seq(Threads), Distinct(s), NEW t \in Threads
  PROVE  Evolves(s, Leave(s, t), t) /\ ~In(Leave(s, t), t)
<1> DEFINE L == Leave(s, t)
<1>1. CASE ~In(s, t)
  BY <1>1 DEF Leave, Evolves
<1>2. CASE In(s, t)
  <2>0. Len(s) \in Nat
    BY LenProperties
  <2>1. PICK i \in 1 .. Len(s) :
          /\ s[i] = t
          /\ L = [j \in 1 .. Len(s) - 1 |-> IF j < i THEN s[j] ELSE s[j + 1]]
    BY <1>2 DEF Leave, In
  <2> DEFINE n == Len(s)
             g(j) == IF j < i THEN j ELSE j + 1
  <2>2. n \in Nat /\ i \in 1 .. n
    BY <2>0, <2>1
  <2>3. /\ n - 1 \in Nat
        /\ \A j \in 1 .. n - 1 : g(j) \in 1 .. n /\ g(j) # i
        /\ \A j, k \in 1 .. n - 1 : (j < k => g(j) < g(k)) /\ (g(j) = g(k) => j = k)
        /\ \A k \in 1 .. n : k = i \/ \E j \in 1 .. n - 1 : k = g(j)
    <3> HIDE DEF n
    <3>1. /\ n - 1 \in Nat
          /\ \A j \in 1 .. n - 1 : g(j) \in 1 .. n /\ g(j) # i
          /\ \A j, k \in 1 .. n - 1 : (j < k => g(j) < g(k)) /\ (g(j) = g(k) => j = k)
      BY <2>2
    <3>2. ASSUME NEW k \in 1 .. n, k # i PROVE \E j \in 1 .. n - 1 : k = g(j)
      <4>1. CASE k < i
        <5>1. k \in 1 .. n - 1 /\ k = g(k)
          BY <2>2, <4>1
        <5> QED BY <5>1
      <4>2. CASE k > i
        <5>1. k - 1 \in 1 .. n - 1 /\ k = g(k - 1)
          BY <2>2, <4>2
        <5> QED BY <5>1
      <4> QED BY <2>2, <3>2, <4>1, <4>2
    <3> QED BY <3>1, <3>2
  <2>4. Len(L) = n - 1 /\ \A j \in 1 .. n - 1 : L[j] = s[g(j)]
    <3>1. L \in Seq(Threads)
      BY LeaveType
    <3>2. DOMAIN L = 1 .. n - 1
      BY <2>1
    <3>3. Len(L) \in Nat /\ DOMAIN L = 1 .. Len(L)
      BY <3>1, LenProperties
    <3>4. Len(L) = n - 1
      <4> HIDE DEF n, L
      <4> QED BY <3>2, <3>3, <2>3
    <3> QED BY <2>1, <3>4
  <2>5. \A j, k \in 1 .. n : s[j] = s[k] => j = k
    BY DEF Distinct
  <2> HIDE DEF L, n, g
  <2>6. Distinct(L)
    BY <2>3, <2>4, <2>5 DEF Distinct
  <2>7. \A u : In(L, u) <=> \E j \in 1 .. n - 1 : s[g(j)] = u
    BY <2>4 DEF In
  <2>8. ~In(L, t)
    BY <2>1, <2>2, <2>3, <2>5, <2>7
  <2>9. ASSUME NEW u \in Threads \ {t} PROVE In(L, u) <=> In(s, u)
    <3>1. In(s, u) <=> \E k \in 1 .. n : s[k] = u
      BY DEF In, n
    <3> QED BY <2>1, <2>3, <2>7, <3>1
  <2>10. ASSUME NEW u \in Threads, NEW v \in Threads \ {t}, Before(L, u, v)
        PROVE  Before(s, u, v)
    <3>1. PICK j, k \in 1 .. n - 1 : j < k /\ L[j] = u /\ L[k] = v
      BY <2>4, <2>10 DEF Before
    <3>2. g(j) < g(k) /\ s[g(j)] = u /\ s[g(k)] = v /\ g(j) \in 1 .. n /\ g(k) \in 1 .. n
      BY <2>3, <2>4, <3>1
    <3> QED BY <3>2 DEF Before, n
  <2> QED BY <2>6, <2>8, <2>9, <2>10 DEF Evolves, L
<1> QED BY <1>1, <1>2

LEMMA AppendEvolves ==
  ASSUME NEW s \in Seq(Threads), Distinct(s), NEW t \in Threads, ~In(s, t)
  PROVE  Evolves(s, Append(s, t), t) /\ In(Append(s, t), t)
<1> DEFINE n == Len(s)
           A == Append(s, t)
<1>1. /\ n \in Nat /\ Len(A) = n + 1
      /\ \A j \in 1 .. n : A[j] = s[j]
      /\ A[n + 1] = t
  BY LenProperties, AppendProperties
<1>2. \A j \in 1 .. n : s[j] # t
  BY DEF In
<1>3. \A j, k \in 1 .. n : s[j] = s[k] => j = k
  BY DEF Distinct
<1>4. \A u : In(s, u) <=> \E k \in 1 .. n : s[k] = u
  BY DEF In
<1>5. \A u, v : Before(s, u, v) <=> \E j, k \in 1 .. n : j < k /\ s[j] = u /\ s[k] = v
  BY DEF Before
<1> HIDE DEF n, A
<1>6. 1 .. n + 1 = (1 .. n) \union {n + 1}
  BY <1>1
<1>7. Distinct(A)
  BY <1>1, <1>2, <1>3, <1>6 DEF Distinct
<1>8. In(A, t) /\ \A u \in Threads \ {t} : In(A, u) <=> In(s, u)
  <2>1. \A u : In(A, u) <=> \E k \in (1 .. n) \union {n + 1} : A[k] = u
    BY <1>1, <1>6 DEF In
  <2> QED BY <1>1, <1>4, <2>1
<1>9. ASSUME NEW u \in Threads, NEW v \in Threads \ {t}, Before(A, u, v)
      PROVE  Before(s, u, v)
  <2>1. PICK j, k \in 1 .. n + 1 : j < k /\ A[j] = u /\ A[k] = v
    BY <1>1, <1>9 DEF Before
  <2>2. k # n + 1
    BY <1>1, <2>1
  <2>3. k \in 1 .. n /\ j \in 1 .. n
    BY <1>1, <2>1, <2>2
  <2> QED BY <1>1, <1>5, <2>1, <2>3
<1> QED BY <1>7, <1>8, <1>9 DEF Evolves, A

(* Whoever comes before somebody is in the queue, as he is; of two in the  *)
(* queue one comes before the other; the first is he whom nobody precedes, *)
(* and there is one first.                                                 *)
LEMMA QueueOrder ==
  ASSUME NEW s \in Seq(Threads), Distinct(s), NEW u \in Threads, NEW v \in Threads
  PROVE  /\ Before(s, u, v) => In(s, u) /\ In(s, v) /\ u # v
         /\ In(s, u) /\ In(s, v) /\ u # v => Before(s, u, v) \/ Before(s, v, u)
         /\ First(s, u) <=> In(s, u) /\ \A w \in Threads : ~Before(s, w, u)
         /\ First(s, u) /\ First(s, v) => u = v
<1>1. Len(s) \in Nat /\ \A i \in 1 .. Len(s) : s[i] \in Threads
  BY LenProperties
<1>2. \A i, j \in 1 .. Len(s) : s[i] = s[j] => i = j
  BY DEF Distinct
<1>3. Before(s, u, v) => In(s, u) /\ In(s, v) /\ u # v
  <2>1. ASSUME NEW i \in 1 .. Len(s), NEW j \in 1 .. Len(s), i < j, s[i] = u, s[j] = v
        PROVE  u # v
    BY <1>1, <1>2, <2>1
  <2> QED BY <2>1 DEF Before, In
<1>4. In(s, u) /\ In(s, v) /\ u # v => Before(s, u, v) \/ Before(s, v, u)
  <2>1. ASSUME NEW i \in 1 .. Len(s), NEW j \in 1 .. Len(s), s[i] = u, s[j] = v, u # v
        PROVE  i < j \/ j < i
    <3>1. i # j
      BY <2>1
    <3> QED BY <1>1, <3>1
  <2> QED BY <2>1 DEF Before, In
<1>5. First(s, u) <=> 1 \in 1 .. Len(s) /\ s[1] = u
  <2>1. s # <<>> <=> 1 \in 1 .. Len(s)
    BY <1>1, EmptySeq
  <2>2. s # <<>> => Head(s) = s[1]
    BY HeadTailProperties
  <2> QED BY <2>1, <2>2 DEF First
<1>6. First(s, u) => In(s, u) /\ \A w \in Threads : ~Before(s, w, u)
  <2>1. SUFFICES ASSUME First(s, u), NEW w \in Threads, Before(s, w, u) PROVE FALSE
    BY <1>5 DEF In
  <2>2. PICK i, j \in 1 .. Len(s) : i < j /\ s[i] = w /\ s[j] = u
    BY <2>1 DEF Before
  <2>3. j = 1
    BY <1>2, <1>5, <2>1, <2>2
  <2> QED BY <1>1, <2>2, <2>3
<1>7. In(s, u) /\ (\A w \in Threads : ~Before(s, w, u)) => First(s, u)
  <2>1. SUFFICES ASSUME NEW i \in 1 .. Len(s), s[i] = u,
                        \A w \in Threads : ~Before(s, w, u)
                 PROVE  First(s, u)
    BY DEF In
  <2>2. 1 \in 1 .. Len(s)
    BY <1>1
  <2>3. i = 1
    <3>1. ASSUME 1 < i PROVE FALSE
      BY <1>1, <2>1, <2>2, <3>1 DEF Before
    <3> QED BY <1>1, <3>1
  <2> QED BY <1>5, <2>1, <2>2, <2>3
<1>8. First(s, u) /\ First(s, v) => u = v
  BY DEF First
<1> QED BY <1>3, <1>4, <1>6, <1>7, <1>8

-----------------------------------------------------------------------------
(* Queues as the steps change them. *)

(* q is the queues of one kind of lock; q2, what a step of t makes of them.*)
Moved(q, q2, t) == \A k \in Ids : Evolves(q[k], q2[k], t)

Ordered(q) == \A k \in Ids : Distinct(q[k])

LEMMA StillMoved ==
  ASSUME NEW q, Ordered(q), NEW t \in Threads
  PROVE  Moved(q, q, t)
BY DEF Ordered, Moved, Evolves

LEMMA WithoutMoved ==
  ASSUME NEW q \in [Ids -> Seq(Threads)], Ordered(q), NEW t \in Threads
  PROVE  /\ Moved(q, Without(q, t), t)
         /\ \A k \in Ids : ~In(Without(q, t)[k], t)
<1>1. ASSUME NEW k \in Ids
      PROVE  Evolves(q[k], Without(q, t)[k], t) /\ ~In(Without(q, t)[k], t)
  BY LeaveEvolves DEF Without, Ordered
<1> QED BY <1>1 DEF Moved

LEMMA JoinMoved ==
  ASSUME NEW q \in [Ids -> Seq(Threads)], Ordered(q), NEW t \in Threads,
         arg[t] \in Ids, ~In(q[arg[t]], t)
  PROVE  /\ Moved(q, Join(q, t), t)
         /\ \A k \in Ids : In(Join(q, t)[k], t) <=> k = arg[t] \/ In(q[k], t)
<1>1. ASSUME NEW k \in Ids, k # arg[t] PROVE Join(q, t)[k] = q[k]
  BY <1>1 DEF Join
<1>2. Join(q, t)[arg[t]] = Append(q[arg[t]], t)
  BY DEF Join
<1>3. /\ Evolves(q[arg[t]], Append(q[arg[t]], t), t)
      /\ In(Append(q[arg[t]], t), t)
  BY AppendEvolves DEF Ordered
<1>4. \A k \in Ids : Evolves(q[k], Join(q, t)[k], t)
  <2>1. ASSUME NEW k \in Ids, k # arg[t] PROVE Evolves(q[k], Join(q, t)[k], t)
    BY <1>1, <2>1 DEF Evolves, Ordered
  <2> QED BY <1>2, <1>3, <2>1
<1>5. \A k \in Ids : In(Join(q, t)[k], t) <=> k = arg[t] \/ In(q[k], t)
  BY <1>1, <1>2, <1>3
<1> QED BY <1>4, <1>5 DEF Moved

(* Who is first in a queue that somebody else leaves or joins stays first. *)
LEMMA FirstStays ==
  ASSUME NEW q \in [Ids -> Seq(Threads)], NEW q2 \in [Ids -> Seq(Threads)],
         Ordered(q), NEW t \in Threads, Moved(q, q2, t),
         NEW k \in Ids, NEW u \in Threads \ {t}, First(q[k], u)
  PROVE  First(q2[k], u)
<1>1. Distinct(q[k]) /\ Distinct(q2[k]) /\ q[k] \in Seq(Threads) /\ q2[k] \in Seq(Threads)
  BY DEF Ordered, Moved, Evolves
<1>2. In(q[k], u) /\ \A w \in Threads : ~Before(q[k], w, u)
  BY <1>1, QueueOrder
<1>3. In(q2[k], u) /\ \A w \in Threads : ~Before(q2[k], w, u)
  BY <1>2 DEF Moved, Evolves
<1> QED BY <1>1, <1>3, QueueOrder

-----------------------------------------------------------------------------
(* Journeys. *)

(* Threads wake and sleep one at a time. *)
LEMMA OthersSleep ==
  ASSUME NEW t \in Threads, Enter(t) \/ Cancel(t) \/ Register(t) \/ Tasked(t)
  PROVE  awake' \ {t} = awake \ {t}
<1>1. CASE Enter(t)
  BY <1>1 DEF Enter, Create, Close, CloseConnection, CreateConnection, Connect, Read, Write,
              Control, Lookup, Start, StartAndReturn
<1>2. CASE Cancel(t) \/ Register(t)
  BY <1>2 DEF Cancel, Register, Answer
<1>3. CASE Tasked(t)
  BY <1>3 DEF Tasked, Abort, Poll, Suspend, ConnectStart, Dialled, Connected, ReadStart,
              ReadLocked, ReadMessage, ReadNothing, ReadFlag, ReadAcknowledge, WriteStart,
              WriteLocked, ControlStart, NextFragment, SendFrame, SendRefused, Flushed,
              FlushFailed, Return, Answer, Goto
<1> QED BY <1>1, <1>2, <1>3

LEMMA JourneyEnter ==
  ASSUME TypeOK, Journeys, NEW t \in Threads, Enter(t)
  PROVE  (OnItsWay(t) /\ HoldsWhatFits(t))'
<1> USE DEF TypeOK
<1>0. OnItsWay(t) /\ HoldsWhatFits(t) /\ Fragments \in Nat \ {0}
  BY WsAssumption DEF Journeys
<1>1. \/ \E h, r : StartAndReturn(t, h, r)
      \/ \E h : \E o \in {"close", "close_connection"} : Start(t, o, h, "cancel", "none")
      \/ \E h : Start(t, "create_connection", h, "build", "none")
      \/ \E h : \E o \in {"connect", "read"} : Start(t, o, h, "start", "none")
      \/ \E h : Start(t, "write", h, "start", "data")
      \/ \E h, m : Start(t, "control", h, "start", m)
  BY DEF Enter, Create, Close, CloseConnection, CreateConnection, Connect, Read, Write,
         Control, Lookup
<1>2. pc[t] = "idle" /\ UNCHANGED <<awake, sent>>
  BY <1>1 DEF StartAndReturn, Start
<1>3. t \notin awake /\ sent[t] = 0 /\ op[t] = "none"
  BY <1>0, <1>2 DEF OnItsWay, HoldsWhatFits, TaskPlaces, ThreadsOK
<1>4. \/ pc'[t] = "idle" /\ op'[t] = "none"
      \/ pc'[t] = "cancel" /\ op'[t] \in {"close", "close_connection"}
      \/ pc'[t] = "build" /\ op'[t] = "create_connection"
      \/ pc'[t] = "start" /\ op'[t] \in {"connect", "read"} /\ held'[t] = "none"
      \/ pc'[t] = "start" /\ op'[t] = "write" /\ held'[t] = "data"
      \/ pc'[t] = "start" /\ op'[t] = "control"
  BY <1>1, <1>2, <1>3 DEF StartAndReturn, Start, ThreadsOK
<1>5. t \notin awake' /\ sent'[t] = 0
  BY <1>2, <1>3
<1> QED BY <1>0, <1>4, <1>5 DEF OnItsWay, HoldsWhatFits

LEMMA JourneyReturn ==
  ASSUME ThreadsOK, NEW t \in Threads, NEW h, NEW r, Answer(t, h, r)
  PROVE  (OnItsWay(t) /\ HoldsWhatFits(t))'
<1>1. pc'[t] = "idle" /\ op'[t] = "none" /\ t \notin awake' /\ sent'[t] = 0
  BY DEF Answer, ThreadsOK
<1>2. Fragments \in Nat \ {0}
  BY WsAssumption
<1> QED BY <1>1, <1>2 DEF OnItsWay, HoldsWhatFits

LEMMA JourneyTask ==
  ASSUME TypeOK, Journeys, NEW t \in Threads, Tasked(t)
  PROVE  (OnItsWay(t) /\ HoldsWhatFits(t))'
<1> USE DEF TypeOK
<1>0. /\ OnItsWay(t) /\ HoldsWhatFits(t) /\ Fragments \in Nat \ {0}
      /\ pc[t] \in TaskPlaces /\ arg[t] \in Ids
  BY WsAssumption, TaskedWorks DEF Journeys
<1>1. ASSUME \E r : Return(t, r) PROVE (OnItsWay(t) /\ HoldsWhatFits(t))'
  BY <1>1, JourneyReturn DEF Return
<1>2. CASE Poll(t) \/ Suspend(t)
  <2>1. UNCHANGED <<pc, op, held, sent>> /\ pc[t] \in TaskPlaces
    BY <1>0, <1>2 DEF Poll, Suspend
  <2> QED BY <1>0, <2>1 DEF OnItsWay, HoldsWhatFits
<1>3. ASSUME NEW p, Goto(t, p), op[t] = "connect", p \in {"dial", "split"}
      PROVE  (OnItsWay(t) /\ HoldsWhatFits(t))'
  <2>1. pc'[t] = p /\ UNCHANGED <<awake, op, held, sent>>
    BY <1>3 DEF Goto, ThreadsOK
  <2> QED BY <1>0, <1>3, <2>1 DEF OnItsWay, HoldsWhatFits, TaskPlaces
<1>4. ASSUME NEW p, Goto(t, p), op[t] = "read",
             \/ p \in {"reader", "next"} /\ pc[t] \in {"start", "reader", "next"}
             \/ p = "gate" /\ pc[t] = "flag"
      PROVE  (OnItsWay(t) /\ HoldsWhatFits(t))'
  <2>1. pc'[t] = p /\ UNCHANGED <<awake, op, held, sent>>
    BY <1>4 DEF Goto, ThreadsOK
  <2> QED BY <1>0, <1>4, <2>1 DEF OnItsWay, HoldsWhatFits, TaskPlaces
<1>5. ASSUME NEW p, Goto(t, p), op[t] = "write",
             \/ p \in {"message", "gate"} /\ pc[t] \in {"start", "message"}
             \/ p \in {"gate", "flush"} /\ pc[t] \in {"yield", "gate"}
      PROVE  (OnItsWay(t) /\ HoldsWhatFits(t))'
  <2>1. pc'[t] = p /\ UNCHANGED <<awake, op, held, sent>>
    BY <1>5 DEF Goto, ThreadsOK
  <2> QED BY <1>0, <1>5, <2>1 DEF OnItsWay, HoldsWhatFits, TaskPlaces
<1>6. ASSUME NEW p, Goto(t, p), op[t] = "control", p \in {"gate", "flush"}
      PROVE  (OnItsWay(t) /\ HoldsWhatFits(t))'
  <2>1. pc'[t] = p /\ UNCHANGED <<awake, op, held, sent>>
    BY <1>6 DEF Goto, ThreadsOK
  <2> QED BY <1>0, <1>6, <2>1 DEF OnItsWay, HoldsWhatFits, TaskPlaces
<1>7. CASE ReadMessage(t) /\ ~\E r : Return(t, r)
  <2>1. /\ op[t] = "read" /\ pc[t] = "next"
        /\ inbox[arg[t]] \in Seq(Messages) /\ inbox[arg[t]] # <<>>
    BY <1>0, <1>7 DEF ReadMessage, Runs, SocketsOK
  <2>2. Head(inbox[arg[t]]) \in Messages
    BY <2>1, HeadTailProperties
  <2>3. /\ held'[t] \in {"ping", "close"}
        /\ pc'[t] = (IF held'[t] = "close" THEN "flag" ELSE "gate")
        /\ UNCHANGED <<awake, op, sent>>
    BY <1>7, <2>2 DEF ReadMessage, Messages, ThreadsOK
  <2> QED BY <1>0, <2>1, <2>3 DEF OnItsWay, HoldsWhatFits, TaskPlaces
<1>8. CASE Flushed(t) /\ ~\E r : Return(t, r)
  <2>1. /\ op[t] = "write" /\ pc[t] = "flush" /\ sent[t] + 1 < Fragments
        /\ sent'[t] = sent[t] + 1 /\ pc'[t] = "yield" /\ t \notin awake'
        /\ UNCHANGED <<op, held>>
    BY <1>8 DEF Flushed, ThreadsOK
  <2> QED BY <1>0, <2>1 DEF OnItsWay, HoldsWhatFits
<1>9. CASE Abort(t) \/ Connected(t) \/ ReadNothing(t) \/ ReadAcknowledge(t)
           \/ SendRefused(t) \/ FlushFailed(t)
  BY <1>1, <1>9 DEF Abort, Connected, ReadNothing, ReadAcknowledge, SendRefused, FlushFailed
<1>10. CASE ConnectStart(t) \/ Dialled(t)
  BY <1>1, <1>3, <1>10 DEF ConnectStart, Dialled, Runs
<1>11. CASE ReadStart(t) \/ ReadLocked(t) \/ ReadFlag(t)
  BY <1>1, <1>4, <1>11 DEF ReadStart, ReadLocked, ReadFlag, Runs
<1>12. CASE WriteStart(t) \/ WriteLocked(t) \/ NextFragment(t)
  BY <1>5, <1>12 DEF WriteStart, WriteLocked, NextFragment, Runs
<1>13. CASE ControlStart(t) \/ SendFrame(t)
  BY <1>5, <1>6, <1>13 DEF ControlStart, SendFrame, Runs
<1> QED
  BY <1>1, <1>2, <1>7, <1>8, <1>9, <1>10, <1>11, <1>12, <1>13 DEF Tasked

LEMMA JourneysNext ==
  ASSUME TypeOK, Journeys, NEW t \in Threads, Enter(t) \/ Cancel(t) \/ Register(t) \/ Tasked(t)
  PROVE  Journeys'
<1>1. (OnItsWay(t) /\ HoldsWhatFits(t))'
  <2>1. ASSUME Cancel(t) \/ Register(t) PROVE (OnItsWay(t) /\ HoldsWhatFits(t))'
    BY <2>1, JourneyReturn DEF Cancel, Register, TypeOK
  <2> QED BY <2>1, JourneyEnter, JourneyTask
<1>2. ASSUME NEW u \in Threads \ {t} PROVE (OnItsWay(u) /\ HoldsWhatFits(u))'
  <2>1. /\ UNCHANGED <<pc[u], op[u], held[u], sent[u]>>
        /\ u \in awake' <=> u \in awake
    BY OthersStay, OthersSleep DEF TypeOK
  <2> QED BY <2>1 DEF Journeys, OnItsWay, HoldsWhatFits
<1> QED BY <1>1, <1>2 DEF Journeys

-----------------------------------------------------------------------------
(* Locks. *)

QueuesMove(t) ==
  /\ Moved(readerQ, readerQ', t) /\ Moved(messageQ, messageQ', t) /\ Moved(gate, gate', t)
  /\ \A k \in Ids : QueuedRight(k, t)'

LEMMA GuardedOrder ==
  ASSUME Guarded
  PROVE  Ordered(readerQ) /\ Ordered(messageQ) /\ Ordered(gate)
BY DEF Guarded, Ordered

LEMMA QueuesReturn ==
  ASSUME TypeOK, Guarded, NEW t \in Threads, NEW r, Return(t, r)
  PROVE  QueuesMove(t)
<1>1. /\ readerQ' = Without(readerQ, t) /\ messageQ' = Without(messageQ, t)
      /\ gate' = Without(gate, t)
      /\ op'[t] = "none" /\ pc'[t] = "idle"
  BY DEF Return, Answer, Unlock, TypeOK, ThreadsOK
<1>2. /\ Moved(readerQ, readerQ', t) /\ Moved(messageQ, messageQ', t) /\ Moved(gate, gate', t)
      /\ \A k \in Ids : ~In(readerQ'[k], t) /\ ~In(messageQ'[k], t) /\ ~In(gate'[k], t)
  BY <1>1, GuardedOrder, WithoutMoved DEF TypeOK, QueuesOK
<1> QED BY <1>1, <1>2 DEF QueuesMove, QueuedRight

(* A step that leaves the queues alone, between places that queue alike.   *)
LEMMA QueuesStay ==
  ASSUME TypeOK, Guarded, NEW t \in Threads, UNCHANGED lockVars,
         UNCHANGED <<op[t], arg[t]>>,
         op[t] \in {"read", "write"} => (pc[t] = "start" <=> pc'[t] = "start"),
         pc[t] \in {"gate", "flush"} <=> pc'[t] \in {"gate", "flush"}
  PROVE  QueuesMove(t)
<1>1. /\ Moved(readerQ, readerQ', t) /\ Moved(messageQ, messageQ', t) /\ Moved(gate, gate', t)
      /\ UNCHANGED <<readerQ, messageQ, gate>>
  BY GuardedOrder, StillMoved DEF lockVars
<1>2. ASSUME NEW k \in Ids PROVE QueuedRight(k, t)'
  <2>1. QueuedRight(k, t)
    BY DEF Guarded
  <2> QED BY <1>1, <2>1 DEF QueuedRight
<1> QED BY <1>1, <1>2 DEF QueuesMove

LEMMA QueuesJoinGate ==
  ASSUME TypeOK, Guarded, NEW t \in Threads, arg[t] \in Ids,
         gate' = Join(gate, t), UNCHANGED <<readerQ, messageQ, op[t], arg[t]>>,
         op[t] \in {"read", "write"} => pc[t] # "start",
         pc[t] \notin {"gate", "flush"}, pc'[t] = "gate"
  PROVE  QueuesMove(t)
<1>1. \A k \in Ids : QueuedRight(k, t)
  BY DEF Guarded
<1>2. \A k \in Ids : ~In(gate[k], t)
  BY <1>1 DEF QueuedRight
<1>3. /\ Moved(gate, gate', t)
      /\ \A k \in Ids : In(gate'[k], t) <=> k = arg[t]
  BY <1>2, GuardedOrder, JoinMoved DEF TypeOK, QueuesOK
<1>4. Moved(readerQ, readerQ', t) /\ Moved(messageQ, messageQ', t)
  BY GuardedOrder, StillMoved
<1>5. ASSUME NEW k \in Ids PROVE QueuedRight(k, t)'
  BY <1>1, <1>3 DEF QueuedRight
<1> QED BY <1>3, <1>4, <1>5 DEF QueuesMove

LEMMA QueuesTask ==
  ASSUME TypeOK, Journeys, Guarded, NEW t \in Threads, Tasked(t)
  PROVE  QueuesMove(t)
<1> USE DEF TypeOK
<1>0. OnItsWay(t) /\ arg[t] \in Ids /\ pc[t] \in TaskPlaces
  BY TaskedWorks DEF Journeys
<1>1. ASSUME \E r : Return(t, r) PROVE QueuesMove(t)
  BY <1>1, QueuesReturn
<1>2. ASSUME NEW p, Goto(t, p), UNCHANGED lockVars,
             op[t] \in {"read", "write"} => pc[t] # "start" /\ p # "start",
             pc[t] \in {"gate", "flush"} <=> p \in {"gate", "flush"}
      PROVE  QueuesMove(t)
  <2>1. pc'[t] = p /\ UNCHANGED <<op[t], arg[t]>>
    BY <1>2 DEF Goto, ThreadsOK
  <2> QED BY <1>2, <2>1, QueuesStay
<1>3. ASSUME Goto(t, "gate"), gate' = Join(gate, t), UNCHANGED <<readerQ, messageQ>>,
             op[t] \in {"read", "write"} => pc[t] # "start",
             pc[t] \notin {"gate", "flush"}
      PROVE  QueuesMove(t)
  <2>1. pc'[t] = "gate" /\ UNCHANGED <<op[t], arg[t]>>
    BY <1>3 DEF Goto, ThreadsOK
  <2> QED BY <1>0, <1>3, <2>1, QueuesJoinGate
<1>4. CASE Poll(t) \/ Suspend(t)
  BY <1>4, QueuesStay DEF Poll, Suspend
<1>5. CASE ConnectStart(t) \/ Dialled(t)
  BY <1>1, <1>2, <1>5 DEF ConnectStart, Dialled, Runs, lockVars
<1>6. CASE ReadLocked(t) \/ SendFrame(t)
  BY <1>0, <1>1, <1>2, <1>6 DEF ReadLocked, AwaitMessage, SendFrame, Runs, lockVars
<1>7. CASE ReadFlag(t) \/ WriteLocked(t) \/ NextFragment(t) \/ ControlStart(t)
  BY <1>3, <1>7 DEF ReadFlag, WriteLocked, NextFragment, ControlStart, Runs
<1>8. CASE ReadStart(t) \/ WriteStart(t)
  <2>0. /\ pc[t] = "start" /\ pc'[t] \in {"reader", "message"}
        /\ pc'[t] # "start" /\ UNCHANGED <<op[t], arg[t], gate>>
    BY <1>8 DEF ReadStart, WriteStart, Goto, Runs, ThreadsOK
  <2>1. \A k \in Ids : QueuedRight(k, t)
    BY DEF Guarded
  <2>2. \A k \in Ids : ~In(readerQ[k], t) /\ ~In(messageQ[k], t) /\ ~In(gate[k], t)
    BY <2>0, <2>1 DEF QueuedRight
  <2>3. CASE ReadStart(t)
    <3>1. readerQ' = Join(readerQ, t) /\ op[t] = "read" /\ UNCHANGED messageQ
      BY <2>3 DEF ReadStart, Runs
    <3>2. /\ Moved(readerQ, readerQ', t)
          /\ \A k \in Ids : In(readerQ'[k], t) <=> k = arg[t]
      BY <1>0, <2>2, <3>1, GuardedOrder, JoinMoved DEF QueuesOK
    <3>3. Moved(messageQ, messageQ', t) /\ Moved(gate, gate', t)
      BY <2>0, <3>1, GuardedOrder, StillMoved
    <3>4. \A k \in Ids : QueuedRight(k, t)'
      BY <2>0, <2>2, <3>1, <3>2 DEF QueuedRight
    <3> QED BY <3>2, <3>3, <3>4 DEF QueuesMove
  <2>4. CASE WriteStart(t)
    <3>1. messageQ' = Join(messageQ, t) /\ op[t] = "write" /\ UNCHANGED readerQ
      BY <2>4 DEF WriteStart, Runs
    <3>2. /\ Moved(messageQ, messageQ', t)
          /\ \A k \in Ids : In(messageQ'[k], t) <=> k = arg[t]
      BY <1>0, <2>2, <3>1, GuardedOrder, JoinMoved DEF QueuesOK
    <3>3. Moved(readerQ, readerQ', t) /\ Moved(gate, gate', t)
      BY <2>0, <3>1, GuardedOrder, StillMoved
    <3>4. \A k \in Ids : QueuedRight(k, t)'
      BY <2>0, <2>2, <3>1, <3>2 DEF QueuedRight
    <3> QED BY <3>2, <3>3, <3>4 DEF QueuesMove
  <2> QED BY <1>8, <2>3, <2>4
<1>9. CASE ReadMessage(t)
  <2>1. CASE Return(t, "data")
    BY <1>1, <2>1
  <2>2. CASE ~Return(t, "data")
    <3>1. /\ op[t] = "read" /\ pc[t] = "next" /\ UNCHANGED <<readerQ, messageQ, op, arg>>
          /\ \/ pc'[t] = "flag" /\ UNCHANGED gate
             \/ pc'[t] = "gate" /\ gate' = Join(gate, t)
      BY <1>9, <2>2 DEF ReadMessage, Runs, ThreadsOK
    <3> QED BY <1>0, <3>1, QueuesStay, QueuesJoinGate DEF lockVars
  <2> QED BY <2>1, <2>2
<1>10. CASE Flushed(t)
  <2>1. CASE Return(t, "handle")
    BY <1>1, <2>1
  <2>2. CASE ~Return(t, "handle")
    <3>1. /\ op[t] = "write" /\ pc[t] = "flush" /\ pc'[t] = "yield"
          /\ gate' = Without(gate, t)
          /\ UNCHANGED <<op, arg, readerQ, messageQ>>
      BY <1>10, <2>2 DEF Flushed, BetweenFragments, ThreadsOK
    <3>2. Moved(gate, gate', t) /\ \A k \in Ids : ~In(gate'[k], t)
      BY <3>1, GuardedOrder, WithoutMoved DEF QueuesOK
    <3>3. Moved(readerQ, readerQ', t) /\ Moved(messageQ, messageQ', t)
      BY <3>1, GuardedOrder, StillMoved
    <3>4. \A k \in Ids : QueuedRight(k, t)
      BY DEF Guarded
    <3>5. \A k \in Ids : QueuedRight(k, t)'
      BY <3>1, <3>2, <3>4 DEF QueuedRight
    <3> QED BY <3>2, <3>3, <3>5 DEF QueuesMove
  <2> QED BY <2>1, <2>2
<1>11. CASE Abort(t) \/ Connected(t) \/ ReadNothing(t) \/ ReadAcknowledge(t)
            \/ SendRefused(t) \/ FlushFailed(t)
  BY <1>1, <1>11 DEF Abort, Connected, ReadNothing, ReadAcknowledge, SendRefused, FlushFailed
<1> QED
  BY <1>4, <1>5, <1>6, <1>7, <1>8, <1>9, <1>10, <1>11 DEF Tasked

(* Registry operations queue for nothing. *)
LEMMA QueuesEnter ==
  ASSUME TypeOK, TypeOK', Journeys, Journeys', Guarded, NEW t \in Threads,
         Enter(t) \/ Cancel(t) \/ Register(t)
  PROVE  QueuesMove(t) /\ UNCHANGED <<readerQ, messageQ, gate, passed>>
<1>1. /\ pc[t] \in {"idle", "cancel", "build"} /\ pc'[t] \in {"idle", "cancel", "build", "start"}
      /\ OnItsWay(t) /\ OnItsWay(t)'
  <2>1. CASE Enter(t)
    BY <2>1 DEF Journeys, Enter, Create, Close, CloseConnection, CreateConnection, Connect,
                Read, Write, Control, Lookup, Start, StartAndReturn, TypeOK, ThreadsOK
  <2>2. CASE Cancel(t) \/ Register(t)
    BY <2>2 DEF Journeys, Cancel, Register, Answer, TypeOK, ThreadsOK
  <2> QED BY <2>1, <2>2
<1>2. UNCHANGED <<readerQ, messageQ, gate, passed>>
  BY DEF Enter, Create, Close, CloseConnection, CreateConnection, Connect, Read, Write,
         Control, Lookup, Cancel, Register, lockVars, history
<1>3. /\ Moved(readerQ, readerQ', t) /\ Moved(messageQ, messageQ', t) /\ Moved(gate, gate', t)
  BY <1>2, GuardedOrder, StillMoved
<1>4. \A k \in Ids : QueuedRight(k, t)
  BY DEF Guarded
<1>5. \A k \in Ids : ~In(readerQ[k], t) /\ ~In(messageQ[k], t) /\ ~In(gate[k], t)
  BY <1>1, <1>4 DEF QueuedRight, OnItsWay
<1>6. \A k \in Ids : QueuedRight(k, t)'
  <2>1. /\ op'[t] = "read" => pc'[t] = "start"
        /\ op'[t] = "write" => pc'[t] = "start"
        /\ pc'[t] \notin {"gate", "flush"}
    BY <1>1 DEF OnItsWay
  <2> QED BY <1>2, <1>5, <2>1 DEF QueuedRight
<1> QED BY <1>2, <1>3, <1>6 DEF QueuesMove

(* What t relies on, it has waited for. *)
LEMMA LocksTask ==
  ASSUME TypeOK, Journeys, Guarded, NEW t \in Threads, Tasked(t)
  PROVE  HoldsItsLocks(t)'
<1> USE DEF TypeOK
<1>0. OnItsWay(t) /\ HoldsItsLocks(t)
  BY DEF Journeys, Guarded
<1>1. ASSUME \E r : Return(t, r) PROVE HoldsItsLocks(t)'
  <2>1. op'[t] = "none" /\ pc'[t] = "idle"
    BY <1>1 DEF Return, Answer, ThreadsOK
  <2> QED BY <2>1 DEF HoldsItsLocks
<1>2. CASE Poll(t) \/ Suspend(t)
  BY <1>0, <1>2 DEF Poll, Suspend, HoldsItsLocks, HasGate, lockVars
<1>3. CASE \/ ConnectStart(t) \/ Dialled(t) \/ ReadStart(t) \/ WriteStart(t) \/ ControlStart(t)
  <2>1. (\E r : Return(t, r)) \/
        /\ pc'[t] \in {"dial", "split", "reader", "message", "gate"}
        /\ op'[t] \in {"connect", "read", "write", "control"}
        /\ op'[t] = "read" => pc'[t] = "reader"
        /\ op'[t] = "write" => pc'[t] = "message"
    BY <1>3 DEF ConnectStart, Dialled, ReadStart, WriteStart, ControlStart, Runs, Goto, ThreadsOK
  <2> QED BY <1>1, <2>1 DEF HoldsItsLocks
<1>4. CASE ReadLocked(t) \/ ReadMessage(t) \/ ReadFlag(t)
  <2>1. (\E r : Return(t, r)) \/
        /\ op[t] = "read" /\ First(readerQ[arg[t]], t)
        /\ pc'[t] \in {"next", "flag", "gate"}
        /\ UNCHANGED <<op, arg, readerQ>>
    BY <1>0, <1>4
    DEF ReadLocked, AwaitMessage, ReadMessage, ReadFlag, Runs, Goto, ThreadsOK,
        HoldsItsLocks, lockVars
  <2> QED BY <1>1, <2>1 DEF HoldsItsLocks
<1>5. CASE WriteLocked(t) \/ NextFragment(t)
  <2>1. /\ op[t] = "write" /\ First(messageQ[arg[t]], t) /\ pc'[t] = "gate"
        /\ UNCHANGED <<op, arg, messageQ>>
    BY <1>0, <1>5 DEF WriteLocked, NextFragment, Runs, Goto, ThreadsOK, HoldsItsLocks
  <2> QED BY <2>1 DEF HoldsItsLocks
<1>6. CASE SendFrame(t)
  <2>1. /\ op[t] \in {"write", "control"} /\ pc[t] = "gate" /\ pc'[t] = "flush"
        /\ HasGate(t) /\ UNCHANGED <<op, arg, readerQ, messageQ, gate>>
    BY <1>6 DEF SendFrame, Goto, ThreadsOK, lockVars
  <2>2. HasGate(t)'
    BY <2>1 DEF HasGate
  <2> QED BY <1>0, <2>1, <2>2 DEF HoldsItsLocks
<1>7. CASE Flushed(t)
  <2>1. (\E r : Return(t, r)) \/
        /\ op[t] = "write" /\ pc[t] = "flush" /\ pc'[t] = "yield"
        /\ UNCHANGED <<op, arg, messageQ>>
    BY <1>7 DEF Flushed, ThreadsOK
  <2> QED BY <1>0, <1>1, <2>1 DEF HoldsItsLocks
<1>8. CASE Abort(t) \/ Connected(t) \/ ReadNothing(t) \/ ReadAcknowledge(t)
           \/ SendRefused(t) \/ FlushFailed(t)
  BY <1>1, <1>8 DEF Abort, Connected, ReadNothing, ReadAcknowledge, SendRefused, FlushFailed
<1> QED BY <1>2, <1>3, <1>4, <1>5, <1>6, <1>7, <1>8 DEF Tasked

(* The places a registry operation and the entry of a task can be at.      *)
LEMMA OutOfTheWay ==
  ASSUME ThreadsOK, NEW t \in Threads, Enter(t) \/ Cancel(t) \/ Register(t)
  PROVE  /\ pc[t] \in {"idle", "cancel", "build"}
         /\ pc'[t] \in {"idle", "cancel", "build", "start"}
<1>1. CASE Enter(t)
  BY <1>1 DEF Enter, Create, Close, CloseConnection, CreateConnection, Connect, Read, Write,
              Control, Lookup, Start, StartAndReturn, ThreadsOK
<1>2. CASE Cancel(t) \/ Register(t)
  BY <1>2 DEF Cancel, Register, Answer, ThreadsOK
<1> QED BY <1>1, <1>2

LEMMA LocksEnter ==
  ASSUME TypeOK, Journeys', NEW t \in Threads, Enter(t) \/ Cancel(t) \/ Register(t)
  PROVE  HoldsItsLocks(t)'
BY OutOfTheWay DEF HoldsItsLocks, TypeOK

LEMMA GuardedNext ==
  ASSUME TypeOK, TypeOK', Journeys, Journeys', Guarded, NEW t \in Threads,
         Enter(t) \/ Cancel(t) \/ Register(t) \/ Tasked(t)
  PROVE  Guarded' /\ QueuesMove(t)
<1>1. QueuesMove(t) /\ HoldsItsLocks(t)'
  BY QueuesTask, QueuesEnter, LocksTask, LocksEnter
<1>2. \A u \in Threads \ {t} : UNCHANGED <<pc[u], op[u], arg[u]>>
  BY OthersStay DEF TypeOK
<1>3. ASSUME NEW k \in Ids
      PROVE  /\ (Distinct(readerQ[k]) /\ Distinct(messageQ[k]) /\ Distinct(gate[k]))'
             /\ \A u \in Threads : QueuedRight(k, u)'
  <2>1. (Distinct(readerQ[k]) /\ Distinct(messageQ[k]) /\ Distinct(gate[k]))'
    BY <1>1 DEF QueuesMove, Moved, Evolves
  <2>2. ASSUME NEW u \in Threads \ {t} PROVE QueuedRight(k, u)'
    <3>1. QueuedRight(k, u)
      BY DEF Guarded
    <3>2. /\ In(readerQ'[k], u) <=> In(readerQ[k], u)
          /\ In(messageQ'[k], u) <=> In(messageQ[k], u)
          /\ In(gate'[k], u) <=> In(gate[k], u)
      BY <1>1 DEF QueuesMove, Moved, Evolves
    <3> QED BY <1>2, <3>1, <3>2 DEF QueuedRight
  <2> QED BY <1>1, <2>1, <2>2 DEF QueuesMove
<1>4. ASSUME NEW u \in Threads \ {t} PROVE HoldsItsLocks(u)'
  <2>1. HoldsItsLocks(u) /\ UNCHANGED <<pc[u], op[u], arg[u]>>
    BY <1>2 DEF Guarded
  <2>2. \A k \in Ids : First(readerQ[k], u) => First(readerQ'[k], u)
    BY <1>1, GuardedOrder, FirstStays DEF QueuesMove, TypeOK, QueuesOK
  <2>3. \A k \in Ids : First(messageQ[k], u) => First(messageQ'[k], u)
    BY <1>1, GuardedOrder, FirstStays DEF QueuesMove, TypeOK, QueuesOK
  <2>4. pc[u] # "idle" => arg[u] \in Ids
    BY DEF TypeOK, ThreadsOK
  <2>5. ASSUME pc[u] = "flush" PROVE HasGate(u)'
    <3>1. arg[u] \in Ids /\ HasGate(u)
      BY <2>1, <2>4, <2>5 DEF HoldsItsLocks
    <3> DEFINE q == gate[arg[u]]
               q2 == gate'[arg[u]]
    <3>2. In(q2, u)
      BY <1>1, <3>1 DEF QueuesMove, Moved, Evolves, HasGate
    <3>3. ASSUME NEW v \in Threads, Before(q2, v, u)
          PROVE  op'[u] = "write" /\ op'[v] = "write"
      <4>1. Before(q, v, u)
        BY <1>1, <3>1, <3>3 DEF QueuesMove, Moved, Evolves
      <4>2. op[u] = "write" /\ op[v] = "write"
        BY <3>1, <4>1 DEF HasGate
      <4>3. CASE v = t
        <5>1. In(q2, v)
          <6>1. Distinct(q2) /\ q2 \in Seq(Threads)
            BY <1>3, <3>1 DEF TypeOK, QueuesOK
          <6> HIDE DEF q2
          <6> QED BY <3>3, <6>1, QueueOrder
        <5>2. pc'[t] \in {"gate", "flush"}
          BY <1>3, <3>1, <4>3, <5>1 DEF QueuedRight
        <5>3. Tasked(t)
          BY <5>2, OutOfTheWay DEF TypeOK
        <5>4. op'[t] = op[t]
          BY <5>2, <5>3, TaskStays
        <5> QED BY <2>1, <4>2, <4>3, <5>4
      <4> QED BY <1>2, <2>1, <4>2, <4>3
    <3> QED BY <2>1, <3>2, <3>3 DEF HasGate
  <2>6. op[u] = "read" /\ pc[u] \in {"next", "flag", "gate"} => First(readerQ'[arg[u]], u)
    BY <2>1, <2>2, <2>4 DEF HoldsItsLocks
  <2>7. op[u] = "write" /\ pc[u] \in {"gate", "flush", "yield"} => First(messageQ'[arg[u]], u)
    BY <2>1, <2>3, <2>4 DEF HoldsItsLocks
  <2> QED BY <2>1, <2>5, <2>6, <2>7 DEF HoldsItsLocks
<1> QED BY <1>1, <1>3, <1>4 DEF Guarded

-----------------------------------------------------------------------------
(* Dialling. *)

(* A request is taken once: what is not issued yet has not been dialled,   *)
(* and a new connection gets a number never issued.                        *)
LEMMA DialledNext ==
  ASSUME RegistryInv, Undialled, DialledOnce, NEW t \in Threads,
         Enter(t) \/ Cancel(t) \/ Register(t) \/ Tasked(t)
  PROVE  Undialled' /\ DialledOnce'
<1>0. TypeOK /\ dialled \in [Ids -> 0 .. 2]
  BY DEF RegistryInv, TypeOK, ConnsOK
<1>1. ASSUME UNCHANGED <<dialled, pending>>, Issued \subseteq Issued'
      PROVE  Undialled' /\ DialledOnce'
  BY <1>1 DEF Undialled, DialledOnce
<1>2. CASE Enter(t) \/ Cancel(t)
  <2>1. UNCHANGED <<dialled, pending>>
    BY <1>2 DEF Enter, Create, Close, CloseConnection, CreateConnection, Connect, Read,
                Write, Control, Lookup, Cancel, connVars, history
  <2>2. UNCHANGED nextId \/ \E h \in Ids : Issue(h)
    BY <1>2 DEF Enter, Create, Close, CloseConnection, CreateConnection, Connect, Read,
                Write, Control, Lookup, Cancel, registryVars
  <2>3. Issued \subseteq Issued'
    <3>1. ASSUME UNCHANGED nextId PROVE Issued \subseteq Issued'
      BY <3>1 DEF Issued
    <3> QED BY <2>2, <3>1, IssuedGrows
  <2> QED BY <1>1, <2>1, <2>3
<1>3. CASE Register(t)
  <2>1. UNCHANGED dialled
    BY <1>3 DEF Register, history
  <2>2. ASSUME UNCHANGED <<nextId, pending>> PROVE Undialled' /\ DialledOnce'
    BY <1>1, <2>1, <2>2 DEF Issued
  <2>3. ASSUME NEW h \in Ids, Issue(h), pending' = pending \union {h}
        PROVE  Undialled' /\ DialledOnce'
    <3>1. Issued' = Issued \union {h} /\ h \notin Issued
      BY <2>3, IssuedGrows
    <3> QED BY <2>1, <2>3, <3>1 DEF Undialled, DialledOnce
  <2> QED BY <1>3, <2>2, <2>3 DEF Register
<1>4. CASE Tasked(t)
  <2>1. arg[t] \in Issued /\ arg[t] \in Ids /\ Issued' = Issued
    BY <1>0, <1>4, TaskedWorks
    DEF RegistryInv, WorkersKnowHandles, IssuedConns, Issued, registryVars
  <2>2. CASE UNCHANGED <<dialled, pending>>
    BY <1>1, <2>1, <2>2
  <2>3. CASE ConnectStart(t) /\ ~UNCHANGED <<dialled, pending>>
    <3>1. /\ arg[t] \in pending /\ pending' = pending \ {arg[t]}
          /\ dialled' = [dialled EXCEPT ![arg[t]] =
                           IF dialled[arg[t]] < 2 THEN dialled[arg[t]] + 1 ELSE dialled[arg[t]]]
      BY <2>3 DEF ConnectStart, TakeRequest
    <3>2. dialled[arg[t]] = 0
      BY <2>1, <3>1 DEF Undialled
    <3>3. dialled' = [dialled EXCEPT ![arg[t]] = 1]
      BY <3>1, <3>2
    <3> QED BY <1>0, <2>1, <3>1, <3>3 DEF Undialled, DialledOnce
  <2>4. ConnectStart(t) \/ UNCHANGED <<dialled, pending>>
    BY <1>4 DEF Tasked, Abort, Poll, Suspend, Dialled, Connected, ReadStart, ReadLocked,
                ReadMessage, ReadNothing, ReadFlag, ReadAcknowledge, WriteStart, WriteLocked,
                ControlStart, NextFragment, SendFrame, SendRefused, Flushed, FlushFailed,
                connVars, history
  <2> QED BY <2>2, <2>3, <2>4
<1> QED BY <1>2, <1>3, <1>4

-----------------------------------------------------------------------------
(* The peer's Close. *)

(* Two threads that have the reader, or the message, are one.              *)
LEMMA OneHolder ==
  ASSUME TypeOK, Guarded, NEW t \in Threads, NEW u \in Threads, arg[t] = arg[u], arg[t] \in Ids
  PROVE  /\ op[t] = "read" /\ pc[t] \in {"next", "flag", "gate"} /\
            op[u] = "read" /\ pc[u] \in {"next", "flag", "gate"} => t = u
         /\ op[t] = "write" /\ pc[t] \in {"gate", "flush", "yield"} /\
            op[u] = "write" /\ pc[u] \in {"gate", "flush", "yield"} => t = u
BY DEF Guarded, HoldsItsLocks, First

LEMMA NoReadPastCloseNext ==
  ASSUME TypeOK, Journeys, Guarded, NoReadPastClose, NEW t \in Threads,
         Enter(t) \/ Cancel(t) \/ Register(t) \/ Tasked(t)
  PROVE  NoReadPastClose'
<1>1. \A u \in Threads \ {t} : UNCHANGED <<pc[u], arg[u]>>
  BY OthersStay DEF TypeOK
<1>2. ASSUME UNCHANGED peerClosed,
             pc'[t] = "next" => (pc[t] = "next" /\ arg'[t] = arg[t]) \/ arg'[t] \notin peerClosed
      PROVE  NoReadPastClose'
  BY <1>1, <1>2 DEF NoReadPastClose
<1>3. CASE Enter(t) \/ Cancel(t) \/ Register(t)
  <2>1. UNCHANGED peerClosed
    BY <1>3 DEF Enter, Create, Close, CloseConnection, CreateConnection, Connect, Read,
                Write, Control, Lookup, Cancel, Register, connVars
  <2> QED BY <1>2, <1>3, <2>1, OutOfTheWay DEF TypeOK
<1>4. CASE ReadFlag(t)
  <2>1. /\ op[t] = "read" /\ pc[t] = "flag" /\ pc'[t] = "gate"
        /\ peerClosed' = peerClosed \union {arg[t]}
    BY <1>4 DEF ReadFlag, Runs, Goto, TypeOK, ThreadsOK
  <2>2. ASSUME NEW u \in Threads, u # t, pc[u] = "next" PROVE arg[u] # arg[t]
    <3>1. op[u] = "read" /\ arg[u] \in Ids
      BY <2>2 DEF Journeys, OnItsWay, TypeOK, ThreadsOK
    <3> QED BY <2>1, <2>2, <3>1, OneHolder
  <2> QED BY <1>1, <2>1, <2>2 DEF NoReadPastClose
<1>5. CASE ReadLocked(t)
  <2>1. UNCHANGED peerClosed
    BY <1>5 DEF ReadLocked, connVars
  <2>2. pc'[t] = "idle" \/ (arg'[t] = arg[t] /\ arg[t] \notin peerClosed)
    BY <1>5 DEF ReadLocked, Return, Answer, Goto, AfterPeerClose, TypeOK, ThreadsOK
  <2> QED BY <1>2, <2>1, <2>2
<1>6. CASE Tasked(t) /\ ~ReadFlag(t) /\ ~ReadLocked(t)
  <2>1. UNCHANGED peerClosed
    BY <1>6
    DEF Tasked, Abort, Poll, Suspend, ConnectStart, Dialled, Connected, ReadStart,
        ReadMessage, ReadNothing, ReadAcknowledge, WriteStart, WriteLocked, ControlStart,
        NextFragment, SendFrame, SendRefused, Flushed, FlushFailed, connVars
  <2>2. UNCHANGED pc \/ \E p : p # "next" /\ pc' = [pc EXCEPT ![t] = p]
    BY <1>6
    DEF Tasked, Abort, Poll, Suspend, ConnectStart, Dialled, Connected, ReadStart,
        ReadMessage, ReadNothing, ReadAcknowledge, WriteStart, WriteLocked, ControlStart,
        NextFragment, SendFrame, SendRefused, Flushed, FlushFailed, Return, Answer, Goto
  <2>3. pc'[t] = "next" => pc[t] = "next" /\ arg'[t] = arg[t]
    BY <1>6, <2>2, TaskStays DEF TypeOK, ThreadsOK
  <2> QED BY <1>2, <2>1, <2>3
<1> QED BY <1>3, <1>4, <1>5, <1>6

-----------------------------------------------------------------------------
(* Messages. *)

(* A token that was cancelled stays so. *)
LEMMA CancelLasts ==
  ASSUME RegistryInv, Next
  PROVE  \A k \in Ids : IsCancelled(k) => IsCancelled(k)'
<1>1. cancelled \subseteq cancelled' /\ cancelled \subseteq Ids
  <2>1. ASSUME NEW t \in Threads, Enter(t) \/ Cancel(t) \/ Register(t) \/ Tasked(t)
        PROVE  cancelled \subseteq cancelled'
    <3>1. CASE Enter(t) \/ Cancel(t) \/ Register(t)
      BY <3>1 DEF Enter, Create, Close, CloseConnection, CreateConnection, Connect, Read,
                  Write, Control, Lookup, Cancel, Register
    <3>2. CASE Tasked(t)
      BY <3>2, TaskedWorks DEF RegistryInv
    <3> QED BY <2>1, <3>1, <3>2
  <2>2. ASSUME NEW k \in Ids, Peer(k) PROVE UNCHANGED cancelled
    BY <2>2 DEF Peer, PeerSends, PeerVanishes
  <2> QED BY <2>1, <2>2, NextSteps DEF RegistryInv, TypeOK, RegistryOK
<1>2. \/ UNCHANGED owner
      \/ \E h \in Ids : Issue(h) /\ \E c : owner' = [owner EXCEPT ![h] = c]
  <2>1. ASSUME NEW t \in Threads, Enter(t) \/ Cancel(t) \/ Register(t) \/ Tasked(t)
        PROVE  \/ UNCHANGED owner
               \/ \E h \in Ids : Issue(h) /\ \E c : owner' = [owner EXCEPT ![h] = c]
    <3>1. CASE Enter(t) \/ Cancel(t)
      BY <3>1 DEF Enter, Create, Close, CloseConnection, CreateConnection, Connect, Read,
                  Write, Control, Lookup, Cancel, registryVars
    <3>2. CASE Register(t)
      BY <3>2 DEF Register
    <3>3. CASE Tasked(t)
      BY <3>3, TaskedWorks DEF RegistryInv, registryVars
    <3> QED BY <2>1, <3>1, <3>2, <3>3
  <2>2. ASSUME NEW k \in Ids, Peer(k) PROVE UNCHANGED owner
    BY <2>2 DEF Peer, PeerSends, PeerVanishes, registryVars
  <2> QED BY <2>1, <2>2, NextSteps
<1>3. CASE UNCHANGED owner
  BY <1>1, <1>3 DEF IsCancelled
<1>4. ASSUME NEW h \in Ids, NEW c, Issue(h), owner' = [owner EXCEPT ![h] = c]
      PROVE  \A k \in Ids : IsCancelled(k) => IsCancelled(k)'
  <2>1. owner[h] = 0 /\ h \notin cancelled /\ 0 \notin cancelled
    BY <1>1, <1>4, IssuedGrows, WsAssumption DEF Ids
  <2>2. \A k \in Ids \ {h} : owner'[k] = owner[k]
    BY <1>4 DEF RegistryInv, TypeOK, RegistryOK
  <2> QED BY <1>1, <2>1, <2>2 DEF IsCancelled
<1> QED BY <1>2, <1>3, <1>4

(* A connection that is over stays so, and a dialled one stays dialled.    *)
LEMMA FinishedLasts ==
  ASSUME TypeOK, Next
  PROVE  \A k \in Ids : /\ Finished(k) => Finished(k)'
                        /\ k \in writers => k \in writers'
<1>1. ASSUME NEW t \in Threads, Enter(t) \/ Cancel(t) \/ Register(t)
      PROVE  UNCHANGED <<sock, link, writers>>
  BY <1>1 DEF Enter, Create, Close, CloseConnection, CreateConnection, Connect, Read,
              Write, Control, Lookup, Cancel, Register, connVars, socketVars
<1>2. ASSUME NEW t \in Threads, Tasked(t)
      PROVE  /\ writers \subseteq writers'
             /\ UNCHANGED link \/ link' = [link EXCEPT ![arg[t]] = "dead"]
             /\ UNCHANGED sock \/ \E x \in {sock[arg[t]], "closing", "over"} :
                                     sock' = [sock EXCEPT ![arg[t]] = x]
  BY <1>2
  DEF Tasked, Abort, Poll, Suspend, ConnectStart, Dialled, Connected, ReadStart, ReadLocked,
      ReadMessage, Take, ReadNothing, ReadFlag, ReadAcknowledge, WriteStart, WriteLocked,
      ControlStart, NextFragment, SendFrame, SendRefused, Flushed, FlushFailed, connVars,
      socketVars
<1>3. ASSUME NEW k \in Ids, Peer(k)
      PROVE  /\ UNCHANGED <<sock, writers>>
             /\ link[k] # "dead" /\ \E x : link' = [link EXCEPT ![k] = x]
  BY <1>3 DEF Peer, PeerSends, PeerVanishes, connVars
<1> QED BY <1>1, <1>2, <1>3, NextSteps DEF TypeOK, SocketsOK, Finished

(* A message in progress goes on, unless its connection is cancelled or    *)
(* over when its writer gives up.                                          *)
LEMMA MidMessageTask ==
  ASSUME TypeOK, Journeys, NEW t \in Threads, Tasked(t), ~(SendFrame(t) /\ op[t] = "write"),
         NEW k \in Ids, k = arg[t]
  PROVE  /\ MidMessage(t)' => MidMessage(t) /\ arg'[t] = arg[t]
         /\ MidMessage(t) => \/ MidMessage(t)' /\ arg'[t] = arg[t]
                             \/ IsCancelled(k) \/ Finished(k)' \/ k \notin writers
<1> USE DEF TypeOK
<1>0. /\ OnItsWay(t) /\ HoldsWhatFits(t) /\ Fragments \in Nat \ {0} /\ sent[t] \in Nat
      /\ arg[t] \in Ids
  BY WsAssumption, TaskedWorks DEF Journeys, ThreadsOK
<1>1. (\E r : Return(t, r)) => ~MidMessage(t)'
  BY DEF Return, Answer, MidMessage, ThreadsOK
<1>2. CASE op[t] # "write"
  <2>1. op'[t] # "write"
    <3>1. CASE pc'[t] = "idle"
      BY <1>0, <3>1, JourneyTask DEF OnItsWay
    <3> QED BY <1>2, <3>1, TaskStays
  <2> QED BY <1>2, <2>1 DEF MidMessage
<1>3. CASE Poll(t) \/ Suspend(t)
  BY <1>3 DEF Poll, Suspend, MidMessage
<1>4. CASE Abort(t)
  BY <1>1, <1>4 DEF Abort
<1>5. CASE op[t] = "write" /\ (WriteStart(t) \/ WriteLocked(t) \/ NextFragment(t))
  <2>1. /\ pc[t] \in {"start", "message", "yield"} /\ UNCHANGED <<op, arg, sent>>
        /\ pc'[t] = (IF pc[t] = "start" THEN "message" ELSE "gate")
    BY <1>5 DEF WriteStart, WriteLocked, NextFragment, Runs, Goto, ThreadsOK
  <2>2. pc[t] # "yield" => sent[t] = 0
    BY <1>0, <2>1 DEF HoldsWhatFits
  <2> QED BY <1>5, <2>1, <2>2 DEF MidMessage
<1>6. CASE op[t] = "write" /\ Flushed(t)
  <2>1. CASE Return(t, "handle")
    <3>1. sent[t] + 1 = Fragments /\ pc[t] = "flush"
      BY <1>6, <2>1, <1>0 DEF Flushed, Return, Answer, ThreadsOK
    <3> QED BY <1>0, <1>1, <2>1, <3>1 DEF MidMessage
  <2>2. CASE ~Return(t, "handle")
    <3>1. /\ pc[t] = "flush" /\ sent[t] + 1 < Fragments /\ pc'[t] = "yield"
          /\ sent'[t] = sent[t] + 1 /\ UNCHANGED <<op, arg>>
      BY <1>6, <2>2 DEF Flushed, ThreadsOK
    <3> QED BY <1>0, <1>6, <3>1 DEF MidMessage
  <2> QED BY <2>1, <2>2
<1>7. CASE SendRefused(t)
  <2>1. k \notin writers \/ sock'[k] # "open" \/ link'[k] = "dead"
    BY <1>7 DEF SendRefused, SocketsOK
  <2>2. ~MidMessage(t)'
    BY <1>1, <1>7 DEF SendRefused
  <2> QED BY <2>1, <2>2 DEF Finished
<1>8. CASE FlushFailed(t)
  <2>1. link'[k] = "dead"
    BY <1>8 DEF FlushFailed, SocketsOK
  <2>2. ~MidMessage(t)'
    BY <1>1, <1>8 DEF FlushFailed
  <2> QED BY <2>1, <2>2 DEF Finished
<1>9. op[t] = "write" => \/ Poll(t) \/ Suspend(t) \/ Abort(t) \/ WriteStart(t) \/ WriteLocked(t)
                         \/ NextFragment(t) \/ Flushed(t) \/ SendRefused(t) \/ FlushFailed(t)
  BY DEF Tasked, ConnectStart, Dialled, Connected, ReadStart, ReadLocked, ReadMessage,
         ReadNothing, ReadFlag, ReadAcknowledge, ControlStart, Runs
<1> QED BY <1>2, <1>3, <1>4, <1>5, <1>6, <1>7, <1>8, <1>9

LEMMA UnfinishedNext ==
  ASSUME RegistryInv, Journeys, Guarded, Unfinished, Next, NEW t \in Threads,
         Enter(t) \/ Cancel(t) \/ Register(t) \/ Tasked(t)
  PROVE  Unfinished'
<1>0. TypeOK /\ assembling \in [Ids -> Threads \union {NoThread}] /\ NoThread \notin Threads
  BY WsAssumption DEF RegistryInv, TypeOK, PeerViewOK
<1>1. ASSUME NEW u \in Threads \ {t}
      PROVE  /\ MidMessage(u)' <=> MidMessage(u)
             /\ arg'[u] = arg[u]
             /\ MidMessage(u) => arg[u] \in Ids
  <2>1. UNCHANGED <<pc[u], op[u], arg[u], sent[u]>>
    BY <1>0, OthersStay DEF TypeOK
  <2> QED BY <1>0, <2>1 DEF MidMessage, TypeOK, ThreadsOK
<1>2. \A k \in Ids : /\ IsCancelled(k) => IsCancelled(k)'
                     /\ Finished(k) => Finished(k)'
                     /\ k \in writers => k \in writers'
  BY <1>0, CancelLasts, FinishedLasts
<1>3. CASE SendFrame(t) /\ op[t] = "write"
  <2>1. PICK k \in Ids : k = arg[t]
    BY <1>0, <1>3, TaskedWorks DEF Tasked
  <2>2. /\ pc[t] = "gate" /\ pc'[t] = "flush" /\ op'[t] = "write" /\ k \in writers'
        /\ arg'[t] = k /\ sent'[t] = sent[t] /\ sent[t] < Fragments
        /\ assembling' = [assembling EXCEPT ![k] =
                            IF sent[t] + 1 = Fragments THEN NoThread ELSE t]
    BY <1>0, <1>3, <2>1
    DEF SendFrame, Observe, Goto, Journeys, HoldsWhatFits, TypeOK, ThreadsOK, connVars
  <2>3. MidMessage(t)' <=> sent[t] + 1 # Fragments
    <3>1. sent[t] \in Nat /\ Fragments \in Nat
      BY <1>0, WsAssumption DEF TypeOK, ThreadsOK
    <3>2. sent[t] + 1 < Fragments <=> sent[t] + 1 # Fragments
      BY <2>2, <3>1
    <3> QED BY <2>2, <3>2 DEF MidMessage
  <2>4. ASSUME NEW u \in Threads \ {t}, MidMessage(u) PROVE arg[u] # k
    BY <1>0, <1>3, <2>1, <2>2, <2>4, OneHolder DEF MidMessage
  <2>5. ASSUME NEW u \in Threads, MidMessage(u)' PROVE assembling'[arg'[u]] = u
    <3>1. CASE u = t
      BY <1>0, <2>2, <2>3, <2>5, <3>1
    <3>2. CASE u # t
      <4>1. MidMessage(u) /\ arg'[u] = arg[u] /\ arg[u] # k /\ arg[u] \in Ids
        BY <1>1, <2>4, <2>5, <3>2
      <4> QED BY <1>0, <2>2, <4>1 DEF Unfinished
    <3> QED BY <3>1, <3>2
  <2>6. ASSUME NEW j \in Ids, assembling'[j] # NoThread
        PROVE  /\ j \in writers'
               /\ \/ MidMessage(assembling[j])' /\ arg'[assembling'[j]] = j
                  \/ IsCancelled(j)'
                  \/ Finished(j)'
    <3>1. CASE j = k
      <4>1. assembling'[j] = t /\ MidMessage(t)'
        BY <1>0, <2>2, <2>3, <2>6, <3>1
      <4>2. MidMessage(assembling[j])'
        BY <4>1 DEF MidMessage
      <4> QED BY <2>2, <3>1, <4>1, <4>2
    <3>2. CASE j # k
      <4>1. PICK w \in Threads : w = assembling[j] /\ w = assembling'[j]
        BY <1>0, <2>2, <2>6, <3>2
      <4>2. j \in writers /\ \/ MidMessage(w) /\ arg[w] = j
                             \/ IsCancelled(j)
                             \/ Finished(j)
        BY <1>0, <4>1 DEF Unfinished
      <4>3. MidMessage(w) /\ arg[w] = j => MidMessage(w)' /\ arg'[w] = j
        BY <1>1, <2>1, <3>2
      <4>4. MidMessage(w)' => MidMessage(assembling[j])'
        BY <4>1 DEF MidMessage
      <4> QED BY <1>2, <4>1, <4>2, <4>3, <4>4
    <3> QED BY <3>1, <3>2
  <2> QED BY <2>5, <2>6 DEF Unfinished
<1>4. CASE ~(SendFrame(t) /\ op[t] = "write")
  <2>1. UNCHANGED assembling
    <3>1. CASE Enter(t) \/ Cancel(t) \/ Register(t)
      BY <3>1 DEF Enter, Create, Close, CloseConnection, CreateConnection, Connect, Read,
                  Write, Control, Lookup, Cancel, Register, history
    <3>2. CASE Tasked(t)
      BY <1>4, <3>2
      DEF Tasked, Abort, Poll, Suspend, ConnectStart, Dialled, Connected, ReadStart,
          ReadLocked, ReadMessage, ReadNothing, ReadFlag, ReadAcknowledge, WriteStart,
          WriteLocked, ControlStart, NextFragment, SendFrame, SendRefused, Flushed,
          FlushFailed, history
    <3> QED BY <3>1, <3>2
  <2>2. /\ MidMessage(t)' => MidMessage(t) /\ arg'[t] = arg[t]
        /\ \A k \in Ids : MidMessage(t) /\ arg[t] = k =>
             \/ MidMessage(t)' /\ arg'[t] = k
             \/ IsCancelled(k) \/ Finished(k)' \/ k \notin writers
    <3>1. CASE Enter(t) \/ Cancel(t) \/ Register(t)
      BY <1>0, <3>1, OutOfTheWay DEF MidMessage, TypeOK
    <3>2. CASE Tasked(t)
      <4>1. \E k \in Ids : k = arg[t]
        BY <1>0, <3>2, TaskedWorks
      <4> QED BY <1>0, <1>4, <3>2, <4>1, MidMessageTask
    <3> QED BY <3>1, <3>2
  <2>3. ASSUME NEW u \in Threads, MidMessage(u)' PROVE assembling'[arg'[u]] = u
    BY <1>1, <2>1, <2>2, <2>3 DEF Unfinished
  <2>4. ASSUME NEW j \in Ids, assembling'[j] # NoThread
        PROVE  /\ j \in writers'
               /\ \/ MidMessage(assembling[j])' /\ arg'[assembling'[j]] = j
                  \/ IsCancelled(j)'
                  \/ Finished(j)'
    <3>1. PICK w \in Threads : w = assembling[j] /\ w = assembling'[j]
      BY <1>0, <2>1, <2>4
    <3>2. j \in writers /\ \/ MidMessage(w) /\ arg[w] = j
                           \/ IsCancelled(j)
                           \/ Finished(j)
      BY <1>0, <3>1 DEF Unfinished
    <3>3. MidMessage(w) /\ arg[w] = j =>
            (MidMessage(w)' /\ arg'[w] = j) \/ IsCancelled(j) \/ Finished(j)'
      BY <1>1, <2>2, <3>2
    <3>4. MidMessage(w)' => MidMessage(assembling[j])'
      BY <3>1 DEF MidMessage
    <3> QED BY <1>2, <3>1, <3>2, <3>3, <3>4
  <2> QED BY <2>3, <2>4 DEF Unfinished
<1> QED BY <1>3, <1>4

(* A fragment goes out only where the peer expects it, unless a message    *)
(* was cut short by closing the connection.                                *)
LEMMA MessagesWholeNext ==
  ASSUME RegistryInv, Journeys, Guarded, Unfinished, MessagesWhole, Next, NEW t \in Threads,
         Enter(t) \/ Cancel(t) \/ Register(t) \/ Tasked(t)
  PROVE  MessagesWhole'
<1>0. TypeOK /\ assembling \in [Ids -> Threads \union {NoThread}] /\ torn \subseteq Ids
  BY DEF RegistryInv, TypeOK, PeerViewOK
<1>1. \A k \in Ids : IsCancelled(k) => IsCancelled(k)'
  BY CancelLasts
<1>2. CASE UNCHANGED torn
  BY <1>0, <1>1, <1>2 DEF MessagesWhole
<1>3. CASE SendFrame(t) /\ op[t] = "write"
  <2>1. PICK k \in Ids : k = arg[t]
    BY <1>0, <1>3, TaskedWorks DEF Tasked
  <2>2. /\ pc[t] = "gate" /\ sock[k] = "open" /\ link[k] # "dead"
        /\ torn' \subseteq torn \union {k}
        /\ assembling[k] = (IF sent[t] = 0 THEN NoThread ELSE t) => torn' = torn
        /\ sent[t] \in Nat
    BY <1>0, <1>3, <2>1 DEF SendFrame, Observe, TypeOK, ThreadsOK
  <2>3. CASE sent[t] # 0
    <3>1. MidMessage(t)
      BY <1>3, <2>2, <2>3 DEF MidMessage
    <3>2. torn' = torn
      BY <2>1, <2>2, <2>3, <3>1 DEF Unfinished
    <3> QED BY <1>2, <3>2
  <2>4. CASE sent[t] = 0
    <3>1. ASSUME assembling[k] # NoThread PROVE IsCancelled(k)
      <4>1. PICK w \in Threads : w = assembling[k]
        BY <1>0, <3>1
      <4>2. (MidMessage(w) /\ arg[w] = k) \/ IsCancelled(k)
        BY <2>2, <3>1, <4>1 DEF Unfinished, Finished
      <4>3. ASSUME MidMessage(w), arg[w] = k PROVE FALSE
        <5>1. w = t
          BY <1>0, <1>3, <2>1, <2>2, <4>3, OneHolder DEF MidMessage
        <5> QED BY <2>2, <2>4, <4>3, <5>1 DEF MidMessage
      <4> QED BY <4>2, <4>3
    <3>2. CASE assembling[k] = NoThread
      BY <1>2, <2>2, <2>4, <3>2
    <3>3. CASE assembling[k] # NoThread
      <4>1. IsCancelled(k)' /\ \A j \in torn : j \in Ids /\ IsCancelled(j)'
        BY <1>0, <1>1, <3>1, <3>3 DEF MessagesWhole
      <4> QED BY <2>2, <4>1 DEF MessagesWhole
    <3> QED BY <3>2, <3>3
  <2> QED BY <2>3, <2>4
<1>4. (SendFrame(t) /\ op[t] = "write") \/ UNCHANGED torn
  <2>1. CASE Enter(t) \/ Cancel(t) \/ Register(t)
    BY <2>1 DEF Enter, Create, Close, CloseConnection, CreateConnection, Connect, Read,
                Write, Control, Lookup, Cancel, Register, history
  <2>2. CASE Tasked(t)
    BY <2>2
    DEF Tasked, Abort, Poll, Suspend, ConnectStart, Dialled, Connected, ReadStart,
        ReadLocked, ReadMessage, ReadNothing, ReadFlag, ReadAcknowledge, WriteStart,
        WriteLocked, ControlStart, NextFragment, SendFrame, SendRefused, Flushed,
        FlushFailed, history
  <2> QED BY <2>1, <2>2
<1> QED BY <1>2, <1>3, <1>4

-----------------------------------------------------------------------------
(* Control frames. *)

(* A data fragment goes out past the control frames behind it: none of     *)
(* them was passed before, and no other message is in line.                *)
LEMMA PassedByFragment ==
  ASSUME TypeOK, Journeys, Guarded, PassedOnce, ControlsComeNext, NEW t \in Threads,
         SendFrame(t), op[t] = "write"
  PROVE  PassedOnce' /\ ControlsComeNext'
<1>0. Tasked(t) /\ passed \in [Threads -> 0 .. 2]
  BY DEF Tasked, TypeOK, PeerViewOK
<1>1. PICK k \in Ids : k = arg[t]
  BY <1>0, TaskedWorks
<1>2. /\ HasGate(t) /\ pc[t] = "gate" /\ pc'[t] = "flush"
      /\ \A u \in Threads \ {t} : UNCHANGED <<op[u], pc[u], arg[u]>>
      /\ UNCHANGED <<op, arg, gate>>
      /\ passed' = [u \in Threads |->
                      IF op[u] = "control" /\ pc[u] = "gate" /\ arg[u] = k /\ passed[u] < 2
                        THEN passed[u] + 1 ELSE passed[u]]
  BY <1>1 DEF SendFrame, Observe, Goto, TypeOK, ThreadsOK, lockVars
<1>3. \A j \in Ids : Distinct(gate[j]) /\ gate[j] \in Seq(Threads)
  BY DEF Guarded, TypeOK, QueuesOK
<1> DEFINE Bumped(u) == op[u] = "control" /\ pc[u] = "gate" /\ arg[u] = k
<1>4. ASSUME NEW u \in Threads, Bumped(u) PROVE passed[u] = 0 /\ passed'[u] = 1
  <2>1. In(gate[k], u) /\ In(gate[k], t) /\ u # t
    BY <1>1, <1>2, <1>4 DEF Guarded, QueuedRight
  <2>2. ~Before(gate[k], u, t)
    BY <1>1, <1>2, <1>4 DEF HasGate
  <2>3. Before(gate[k], t, u)
    BY <1>3, <2>1, <2>2, QueueOrder
  <2>4. ~(passed[u] > 0)
    BY <1>2, <1>4, <2>3 DEF PassedOnce
  <2>5. passed[u] = 0
    BY <1>0, <2>4
  <2> QED BY <1>2, <1>4, <2>5
<1>5. ASSUME NEW u \in Threads, ~Bumped(u) PROVE passed'[u] = passed[u]
  BY <1>2, <1>5
<1>6. ControlsComeNext'
  BY <1>0, <1>4, <1>5 DEF ControlsComeNext
<1>7. ASSUME NEW u \in Threads, passed'[u] > 0
      PROVE  /\ op'[u] = "control" /\ pc'[u] \in {"gate", "flush"}
             /\ \A v \in Threads :
                  pc'[u] = "gate" /\ Before(gate'[arg'[u]], v, u)
                    => ~(op'[v] = "write" /\ pc'[v] = "gate")
  <2>1. op[u] = "control" /\ pc[u] \in {"gate", "flush"}
    BY <1>5, <1>7 DEF PassedOnce
  <2>2. u # t /\ op'[u] = op[u] /\ pc'[u] = pc[u] /\ arg'[u] = arg[u]
    BY <1>2, <2>1
  <2>3. ASSUME NEW v \in Threads, pc[u] = "gate", Before(gate[arg[u]], v, u),
               op[v] = "write", pc[v] = "gate", v # t
        PROVE  FALSE
    <3>1. CASE Bumped(u)
      <4>1. In(gate[k], v)
        BY <1>3, <2>3, <3>1, QueueOrder
      <4>2. arg[v] = k
        BY <2>3, <4>1 DEF Guarded, QueuedRight
      <4>3. v = t
        BY <1>1, <1>2, <2>3, <4>2, OneHolder
      <4> QED BY <2>3, <4>3
    <3>2. CASE ~Bumped(u)
      BY <1>5, <1>7, <2>3, <3>2 DEF PassedOnce
    <3> QED BY <3>1, <3>2
  <2> QED BY <1>2, <2>1, <2>2, <2>3
<1> QED BY <1>6, <1>7 DEF PassedOnce

(* Nobody goes back from the flush to the gate, and a control frame is not *)
(* requeued.                                                               *)
LEMMA GateTask ==
  ASSUME TypeOK, Journeys, NEW t \in Threads, Tasked(t)
  PROVE  /\ pc[t] = "flush" => pc'[t] \in {"flush", "yield", "idle"}
         /\ op[t] = "control" /\ pc[t] \in {"gate", "flush"} /\ pc'[t] # "idle" =>
              /\ UNCHANGED <<gate, passed>>
              /\ pc'[t] \in {"gate", "flush"}
<1> USE DEF TypeOK, ThreadsOK
<1>0. OnItsWay(t)
  BY DEF Journeys
<1>1. \/ \E r : Return(t, r)
      \/ Poll(t) \/ Suspend(t) \/ SendFrame(t) \/ Flushed(t)
      \/ pc[t] \notin {"gate", "flush"}
  BY <1>0 DEF Tasked, Abort, ConnectStart, Dialled, Connected, ReadStart, ReadLocked,
              ReadMessage, ReadNothing, ReadFlag, ReadAcknowledge, WriteStart, WriteLocked,
              ControlStart, NextFragment, SendRefused, FlushFailed, Runs
<1>2. (\E r : Return(t, r)) => pc'[t] = "idle"
  BY DEF Return, Answer
<1>3. CASE Poll(t) \/ Suspend(t)
  BY <1>3 DEF Poll, Suspend, lockVars, history
<1>4. CASE SendFrame(t)
  BY <1>4 DEF SendFrame, Goto, lockVars
<1>5. CASE Flushed(t)
  BY <1>2, <1>5 DEF Flushed
<1> QED BY <1>1, <1>2, <1>3, <1>4, <1>5

LEMMA PassedByOthers ==
  ASSUME TypeOK, Journeys, Guarded, PassedOnce, ControlsComeNext, NEW t \in Threads,
         Enter(t) \/ Cancel(t) \/ Register(t) \/ Tasked(t), QueuesMove(t),
         ~(SendFrame(t) /\ op[t] = "write")
  PROVE  PassedOnce' /\ ControlsComeNext'
<1>0. passed \in [Threads -> 0 .. 2]
  BY DEF TypeOK, PeerViewOK
<1>1. \A u \in Threads \ {t} : UNCHANGED <<op[u], pc[u], arg[u]>>
  BY OthersStay DEF TypeOK
<1>2. /\ UNCHANGED passed \/ passed' = [passed EXCEPT ![t] = 0]
      /\ Tasked(t) /\ pc'[t] = "idle" => passed'[t] = 0
  <2>1. CASE Enter(t) \/ Cancel(t) \/ Register(t)
    <3>1. UNCHANGED passed
      BY <2>1 DEF Enter, Create, Close, CloseConnection, CreateConnection, Connect, Read,
                  Write, Control, Lookup, Cancel, Register, history
    <3>2. ~Tasked(t)
      BY <2>1, OutOfTheWay, TaskedWorks DEF TypeOK, TaskPlaces
    <3> QED BY <3>1, <3>2
  <2>2. CASE Tasked(t)
    <3>1. (\E r : Return(t, r)) \/
          (UNCHANGED passed /\ \E p \in TaskPlaces : pc' = [pc EXCEPT ![t] = p])
      <4>1. pc = [pc EXCEPT ![t] = pc[t]] /\ pc[t] \in TaskPlaces
        BY <2>2, TaskedWorks DEF TypeOK, ThreadsOK
      <4> QED
        BY <2>2, <4>1
        DEF Tasked, Abort, Poll, Suspend, ConnectStart, Dialled, Connected, ReadStart,
            ReadLocked, AwaitMessage, ReadMessage, ReadNothing, ReadFlag, ReadAcknowledge,
            WriteStart, WriteLocked, ControlStart, NextFragment, SendFrame, SendRefused,
            Flushed, FlushFailed, Goto, TaskPlaces, history
    <3> QED BY <1>0, <3>1 DEF Return, Unlock, TypeOK, ThreadsOK, TaskPlaces
  <2> QED BY <2>1, <2>2
<1>3. ControlsComeNext'
  BY <1>0, <1>2 DEF ControlsComeNext
<1>4. ASSUME NEW u \in Threads, passed'[u] > 0
      PROVE  /\ passed[u] > 0
             /\ op[u] = "control" /\ pc[u] \in {"gate", "flush"} /\ arg[u] \in Ids
             /\ u = t => Tasked(t) /\ pc'[t] # "idle"
  <2>1. passed[u] > 0
    BY <1>0, <1>2, <1>4
  <2>2. op[u] = "control" /\ pc[u] \in {"gate", "flush"}
    BY <2>1 DEF PassedOnce
  <2>3. arg[u] \in Ids
    BY <2>2 DEF TypeOK, ThreadsOK
  <2>4. u = t => Tasked(t)
    BY <2>2, OutOfTheWay DEF TypeOK
  <2> QED BY <1>2, <1>4, <2>1, <2>2, <2>3, <2>4
<1>5. ASSUME passed'[t] > 0
      PROVE  /\ op'[t] = "control" /\ pc'[t] \in {"gate", "flush"}
             /\ \A v \in Threads :
                  pc'[t] = "gate" /\ Before(gate'[arg'[t]], v, t)
                    => ~(op'[v] = "write" /\ pc'[v] = "gate")
  <2>1. /\ Tasked(t) /\ op[t] = "control" /\ pc[t] \in {"gate", "flush"} /\ passed[t] > 0
        /\ pc'[t] # "idle"
    BY <1>4, <1>5
  <2>2. op'[t] = op[t] /\ arg'[t] = arg[t]
    BY <2>1, TaskStays
  <2>3. /\ UNCHANGED gate /\ pc'[t] \in {"gate", "flush"}
        /\ pc'[t] = "gate" => pc[t] = "gate"
    BY <2>1, GateTask
  <2>4. ASSUME NEW v \in Threads, pc'[t] = "gate", Before(gate[arg[t]], v, t)
        PROVE  ~(op'[v] = "write" /\ pc'[v] = "gate")
    <3>1. ~(op[v] = "write" /\ pc[v] = "gate")
      BY <2>1, <2>3, <2>4 DEF PassedOnce
    <3> QED BY <1>1, <2>1, <2>2, <3>1
  <2> QED BY <2>1, <2>2, <2>3, <2>4
<1>6. ASSUME NEW u \in Threads, u # t, passed'[u] > 0
      PROVE  /\ op'[u] = "control" /\ pc'[u] \in {"gate", "flush"}
             /\ \A v \in Threads :
                  pc'[u] = "gate" /\ Before(gate'[arg'[u]], v, u)
                    => ~(op'[v] = "write" /\ pc'[v] = "gate")
  <2>1. /\ passed[u] > 0 /\ op[u] = "control" /\ pc[u] \in {"gate", "flush"} /\ arg[u] \in Ids
        /\ op'[u] = op[u] /\ pc'[u] = pc[u] /\ arg'[u] = arg[u]
    BY <1>1, <1>4, <1>6
  <2>2. ASSUME NEW v \in Threads, pc[u] = "gate", Before(gate'[arg[u]], v, u)
        PROVE  ~(op'[v] = "write" /\ pc'[v] = "gate")
    <3>1. Before(gate[arg[u]], v, u)
      BY <1>6, <2>1, <2>2 DEF QueuesMove, Moved, Evolves
    <3>2. ~(op[v] = "write" /\ pc[v] = "gate")
      BY <2>1, <2>2, <3>1 DEF PassedOnce
    <3>3. CASE v = t
      <4>1. SUFFICES ASSUME op'[t] = "write", pc'[t] = "gate" PROVE FALSE
        BY <3>3
      <4>2. In(gate[arg[u]], t)
        <5>1. Distinct(gate[arg[u]]) /\ gate[arg[u]] \in Seq(Threads)
          BY <2>1 DEF Guarded, TypeOK, QueuesOK
        <5> QED BY <3>1, <3>3, <5>1, QueueOrder
      <4>3. pc[t] \in {"gate", "flush"}
        BY <2>1, <4>2 DEF Guarded, QueuedRight
      <4>4. Tasked(t)
        BY <4>3, OutOfTheWay DEF TypeOK
      <4>5. op[t] = "write" /\ pc[t] = "gate"
        BY <4>1, <4>3, <4>4, TaskStays, GateTask
      <4> QED BY <3>2, <3>3, <4>5
    <3>4. CASE v # t
      BY <1>1, <3>2, <3>4
    <3> QED BY <3>3, <3>4
  <2> QED BY <2>1, <2>2
<1> QED BY <1>3, <1>5, <1>6 DEF PassedOnce

-----------------------------------------------------------------------------
(* The invariant of a connection. *)

LEMMA ConnNothingYet ==
  ASSUME TypeOK, NothingYet
  PROVE  ConnInv
<1>0. TypeOK /\ Fragments \in Nat \ {0}
  BY WsAssumption
<1>1. \A t \in Threads : /\ pc[t] = "idle" /\ op[t] = "none" /\ sent[t] = 0 /\ passed[t] = 0
                         /\ t \notin awake
  BY DEF NothingYet
<1>2. \A k \in Ids : /\ readerQ[k] = <<>> /\ messageQ[k] = <<>> /\ gate[k] = <<>>
                     /\ dialled[k] = 0 /\ assembling[k] = NoThread
  BY DEF NothingYet
<1>3. Journeys
  <2>1. 0 < Fragments
    BY <1>0
  <2>2. ASSUME NEW t \in Threads PROVE OnItsWay(t) /\ HoldsWhatFits(t)
    BY <1>1, <2>1 DEF OnItsWay, HoldsWhatFits
  <2> QED BY <2>2 DEF Journeys
<1>4. Guarded
  <2>1. Distinct(<<>>) /\ \A t : ~In(<<>>, t)
    <3>1. 1 .. Len(<<>>) = {}
      BY EmptySeq
    <3> QED BY <3>1 DEF Distinct, In
  <2>2. \A k \in Ids : \A t \in Threads : QueuedRight(k, t)
    BY <1>1, <1>2, <2>1 DEF QueuedRight
  <2>3. \A t \in Threads : HoldsItsLocks(t)
    BY <1>1 DEF HoldsItsLocks
  <2> QED BY <1>2, <2>1, <2>2, <2>3 DEF Guarded
<1>5. DialledOnce /\ Undialled
  BY <1>2 DEF DialledOnce, Undialled
<1>6. NoReadPastClose /\ PassedOnce /\ ControlsComeNext
  BY <1>1 DEF NoReadPastClose, PassedOnce, ControlsComeNext
<1>7. Unfinished
  BY <1>1, <1>2 DEF Unfinished, MidMessage
<1>8. MessagesWhole
  BY DEF NothingYet, MessagesWhole
<1> QED BY <1>0, <1>3, <1>4, <1>5, <1>6, <1>7, <1>8 DEF ConnInv

LEMMA ConnInit == Init => ConnInv
BY TypeInit, ConnNothingYet DEF Init

(* The peer can only end the connection. *)
LEMMA ConnPeer ==
  ASSUME RegistryInv, ConnInv, TypeOK', Next, NEW p \in Ids, Peer(p)
  PROVE  ConnInv'
<1> USE DEF ConnInv
<1>1. /\ UNCHANGED <<nextId, pending, readerQ, messageQ, gate, peerClosed, pc, awake, op, arg,
                     held, sent, dialled, assembling, torn, passed>>
      /\ \A k \in Ids : IsCancelled(k) <=> IsCancelled(k)'
  BY DEF Peer, PeerSends, PeerVanishes, registryVars, connVars, lockVars, callVars, history,
         IsCancelled
<1>2. \A k \in Ids : (Finished(k) => Finished(k)') /\ (k \in writers => k \in writers')
  BY FinishedLasts
<1>3. Journeys'
  BY <1>1 DEF Journeys, OnItsWay, HoldsWhatFits
<1>4. Guarded'
  BY <1>1 DEF Guarded, QueuedRight, HoldsItsLocks, HasGate
<1>5. DialledOnce' /\ Undialled' /\ NoReadPastClose' /\ PassedOnce' /\ ControlsComeNext'
  BY <1>1 DEF DialledOnce, Undialled, NoReadPastClose, PassedOnce, ControlsComeNext, Issued
<1>6. Unfinished'
  <2>1. \A t : MidMessage(t)' <=> MidMessage(t)
    BY <1>1 DEF MidMessage
  <2>2. \A k \in Ids : MidMessage(assembling[k])' <=> MidMessage(assembling[k])
    BY <1>1 DEF MidMessage
  <2> QED BY <1>1, <1>2, <2>1, <2>2 DEF Unfinished
<1>7. MessagesWhole'
  BY <1>1 DEF MessagesWhole, TypeOK, PeerViewOK
<1> QED BY <1>3, <1>4, <1>5, <1>6, <1>7

LEMMA ConnNext ==
  ASSUME RegistryInv, ConnInv, [Next]_vars
  PROVE  ConnInv'
<1> USE DEF ConnInv
<1>0. TypeOK'
  BY TypeNext
<1>1. CASE UNCHANGED vars
  <2>1. UNCHANGED <<nextId, pending, writers, readerQ, messageQ, gate, sock, link, peerClosed,
                    pc, awake, op, arg, held, sent, dialled, assembling, torn, passed,
                    owner, cancelled>>
    BY <1>1 DEF vars, registryVars, connVars, lockVars, socketVars, callVars, history
  <2>2. Journeys' /\ Guarded'
    BY <2>1 DEF Journeys, OnItsWay, HoldsWhatFits, Guarded, QueuedRight, HoldsItsLocks, HasGate
  <2>3. DialledOnce' /\ Undialled' /\ NoReadPastClose' /\ PassedOnce' /\ ControlsComeNext'
    BY <2>1 DEF DialledOnce, Undialled, NoReadPastClose, PassedOnce, ControlsComeNext, Issued
  <2>4. Unfinished' /\ MessagesWhole'
    BY <2>1 DEF Unfinished, MidMessage, Finished, MessagesWhole, IsCancelled
  <2> QED BY <1>0, <2>2, <2>3, <2>4
<1>2. ASSUME NEW t \in Threads, Enter(t) \/ Cancel(t) \/ Register(t) \/ Tasked(t), Next
      PROVE  ConnInv'
  <2>1. Journeys'
    BY <1>2, JourneysNext
  <2>2. Guarded' /\ QueuesMove(t)
    BY <1>0, <1>2, <2>1, GuardedNext
  <2>3. DialledOnce' /\ Undialled'
    BY <1>2, DialledNext
  <2>4. NoReadPastClose'
    BY <1>2, NoReadPastCloseNext
  <2>5. Unfinished' /\ MessagesWhole'
    BY <1>2, UnfinishedNext, MessagesWholeNext
  <2>6. PassedOnce' /\ ControlsComeNext'
    BY <1>2, <2>2, PassedByFragment, PassedByOthers
  <2> QED BY <1>0, <2>1, <2>2, <2>3, <2>4, <2>5, <2>6
<1>3. ASSUME NEW k \in Ids, Peer(k), Next PROVE ConnInv'
  BY <1>0, <1>3, ConnPeer
<1> QED BY <1>1, <1>2, <1>3, NextSteps

(* Whatever calls race on a connection: it is dialled once, its locks have *)
(* the holders that rely on them, no read waits past the peer's Close.     *)
THEOREM ConnCorrect == Spec => []ConnInv
BY ConnInit, ConnNext, RegistryCorrect, PTL DEF Spec

(* However many threads write, in however many fragments, the peer never   *)
(* meets a fragment of one message inside another before the connection is *)
(* closed.                                                                 *)
THEOREM MessagesWholeAlways == Spec => []MessagesWhole
<1>1. ConnInv => MessagesWhole
  BY DEF ConnInv
<1> QED BY <1>1, ConnCorrect, PTL

(* A control frame in line is passed by one fragment at most, whoever      *)
(* writes and however long the messages are.                               *)
THEOREM ControlsComeNextAlways == Spec => []ControlsComeNext
<1>1. ConnInv => ControlsComeNext
  BY DEF ConnInv
<1> QED BY <1>1, ConnCorrect, PTL

-----------------------------------------------------------------------------
(* What a call that ends reports. *)

(* How a task comes to its end. *)
LEMMA Returns ==
  ASSUME TypeOK, Journeys, NEW t \in Threads, Tasked(t), pc'[t] = "idle"
  PROVE  \/ Abort(t) \/ Connected(t) \/ ReadMessage(t) \/ ReadNothing(t) \/ ReadAcknowledge(t)
         \/ ReadLocked(t) \/ ConnectStart(t) \/ Dialled(t)
         \/ SendRefused(t) \/ Flushed(t) \/ FlushFailed(t)
<1>1. "idle" \notin TaskPlaces /\ pc[t] \in TaskPlaces
  BY TaskedWorks DEF TaskPlaces
<1> QED
  BY <1>1 DEF Tasked, Poll, Suspend, ReadStart, ReadFlag, WriteStart, WriteLocked,
              ControlStart, NextFragment, SendFrame, Goto, TypeOK, ThreadsOK

(* A read that has taken the peer's Close is past the reader: it ends by   *)
(* acknowledging, or because the connection is closed under it.            *)
LEMMA CloseInHand ==
  ASSUME ConnInv, Next, NEW t \in Threads, Returning(t), op[t] = "read", held[t] = "close"
  PROVE  res'[t] = "close" \/ IsCancelled(arg[t])
<1>1. TypeOK /\ Journeys /\ pc[t] \in TaskPlaces /\ pc'[t] = "idle"
  BY DEF ConnInv, Returning
<1>2. pc[t] \in {"flag", "gate"}
  BY <1>1 DEF Journeys, OnItsWay, HoldsWhatFits
<1>3. Tasked(t)
  <2>1. ASSUME NEW u \in Threads, u # t, Enter(u) \/ Cancel(u) \/ Register(u) \/ Tasked(u)
        PROVE  FALSE
    BY <1>1, <1>2, <2>1, OthersStay DEF TypeOK
  <2>2. ASSUME NEW k \in Ids, Peer(k) PROVE FALSE
    BY <1>1, <1>2, <2>2 DEF Peer, PeerSends, PeerVanishes, callVars
  <2> QED BY <1>1, <1>2, <2>1, <2>2, NextSteps, OutOfTheWay DEF TypeOK
<1>4. Abort(t) \/ ReadAcknowledge(t)
  BY <1>1, <1>2, <1>3, Returns
  DEF Connected, ReadMessage, ReadNothing, ReadLocked, ConnectStart, Dialled, SendRefused,
      Flushed, FlushFailed, Runs
<1>5. CASE Abort(t)
  BY <1>5 DEF Abort
<1>6. CASE ReadAcknowledge(t)
  BY <1>1, <1>6 DEF ReadAcknowledge, Tolerated, Return, Answer, TypeOK, ThreadsOK
<1> QED BY <1>4, <1>5, <1>6

(* The peer's Close, once taken, is returned unless the connection is      *)
(* closed meanwhile.                                                       *)
THEOREM PeerCloseIsDelivered == Spec => PeerCloseDelivered
<1> DEFINE Delivered == \A t \in Threads :
             Returning(t) /\ op[t] = "read" /\ held[t] = "close"
               => res'[t] = "close" \/ IsCancelled(arg[t])
<1>1. ASSUME ConnInv, [Next]_vars PROVE [Delivered]_vars
  BY <1>1, CloseInHand
<1> QED BY <1>1, ConnCorrect, PTL DEF Spec, PeerCloseDelivered

(* No write ends in a socket failure once the peer's Close is in hand.     *)
THEOREM WritesSpareCloseAlways == Spec => WritesSpareClose
<1> DEFINE Spared == \A t \in Threads :
             Returning(t) /\ op[t] \in {"write", "control"} /\ arg[t] \in peerClosed
               => res'[t] # "websocket"
<1>1. ASSUME ConnInv, [Next]_vars PROVE [Spared]_vars
  <2>1. SUFFICES ASSUME Next, NEW t \in Threads, Returning(t), op[t] \in {"write", "control"},
                        arg[t] \in peerClosed
                 PROVE  res'[t] # "websocket"
    BY <1>1
  <2>2. TypeOK /\ Journeys /\ pc[t] \in TaskPlaces /\ pc'[t] = "idle"
    BY <1>1, <2>1 DEF ConnInv, Returning
  <2>3. pc[t] \notin {"idle", "cancel", "build"}
    BY <2>2 DEF TaskPlaces
  <2>4. Tasked(t)
    <3>1. ASSUME NEW u \in Threads, u # t, Enter(u) \/ Cancel(u) \/ Register(u) \/ Tasked(u)
          PROVE  FALSE
      BY <2>2, <2>3, <3>1, OthersStay DEF TypeOK
    <3>2. ASSUME NEW k \in Ids, Peer(k) PROVE FALSE
      BY <2>2, <2>3, <3>2 DEF Peer, PeerSends, PeerVanishes, callVars
    <3> QED BY <2>1, <2>2, <2>3, <3>1, <3>2, NextSteps, OutOfTheWay DEF TypeOK
  <2>5. Abort(t) \/ SendRefused(t) \/ Flushed(t) \/ FlushFailed(t)
    BY <2>1, <2>2, <2>4, Returns
    DEF Connected, ReadMessage, ReadNothing, ReadAcknowledge, ReadLocked, ConnectStart,
        Dialled, Runs
  <2>6. \E r : Return(t, r) /\ r # "websocket"
    <3>1. CASE Abort(t)
      BY <3>1 DEF Abort
    <3>2. CASE Flushed(t)
      BY <2>2, <3>2 DEF Flushed, TypeOK, ThreadsOK
    <3>3. CASE SendRefused(t) \/ FlushFailed(t)
      BY <2>1, <3>3 DEF SendRefused, FlushFailed, WriteErrors
    <3> QED BY <2>5, <3>1, <3>2, <3>3
  <2> QED BY <2>2, <2>6 DEF Return, Answer, TypeOK, ThreadsOK
<1> QED BY <1>1, ConnCorrect, PTL DEF Spec, WritesSpareClose
=============================================================================
