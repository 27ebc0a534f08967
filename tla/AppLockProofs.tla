--------------------------- MODULE AppLockProofs ---------------------------
(***************************************************************************)
(* Proofs about AppLock, for any number of connections and sessions.       *)
(*                                                                         *)
(* Both results rest on the same fact: a session that has validated a JWT  *)
(* holds a read guard, and its request for the write guard is in the queue *)
(* and stays there.  SessionInv says so for one session; every step is     *)
(* either a move of one task, which leaves the other tasks' places and     *)
(* guards alone (Moved), or a grant.                                       *)
(***************************************************************************)
EXTENDS AppLock, SequenceTheorems, TLAPS

Requests == [task : Tasks, mode : {"read", "write"}]

\* A step of task t that is not a grant.
Moved(t) ==
  /\ ~Waiting(t)
  /\ pc' \in [Tasks -> PCs]
  /\ message' \in [Sessions -> MessageKinds \cup {"none"}]
  /\ readers' \in [Tasks -> Nat]
  /\ \A u \in Tasks \ {t} : pc'[u] = pc[u] /\ readers'[u] = readers[u]
  /\ \A s \in Sessions \ {t} : message'[s] = message[s]
  /\ readers'[t] <= readers[t]
  /\ writer' \subseteq writer
  /\ \/ queue' = queue
     \/ \E mode \in {"read", "write"} : queue' = Append(queue, [task |-> t, mode |-> mode])

AuthKinds == {"good_jwt", "bad_jwt"}

\* What is known of a session: where an auth message may have brought it, which
\* guard it may be waiting for, and that it holds a read guard once granted.
SessionInv(s) ==
  /\ pc[s] = "open" => message[s] = "none"
  /\ pc[s] = "validate" => message[s] \in AuthKinds
  /\ message[s] \in AuthKinds => pc[s] \in {"validate", "answer"}
  /\ message[s] \notin AuthKinds => readers[s] = 0
  /\ \A i \in DOMAIN queue : queue[i].task = s =>
       \/ pc[s] = "validate" /\ queue[i].mode = "read"
       \/ pc[s] = "answer" /\ queue[i].mode = "write"
  /\ pc[s] = "validate" /\ ~Waiting(s) => readers[s] > 0
  /\ pc[s] = "answer" /\ message[s] \in AuthKinds => readers[s] > 0 /\ Waiting(s)

Excluded == writer # {} => \A t \in Tasks : readers[t] = 0

LockInv == TypeOK /\ Excluded /\ \A s \in Sessions : SessionInv(s)

-----------------------------------------------------------------------------
\* A command connection moves no task but itself (main.rs:547-627).
LEMMA ConnectionMoves ==
  ASSUME TypeOK, NEW c \in Connections, Connection(c)
  PROVE  Moved(c)
<1> USE TaskAssumption DEF Tasks
<1>1. ASSUME NEW from \in PCs, NEW to \in PCs, NEW mode \in {"read", "write"},
             Lock(c, from, to, mode)
      PROVE  Moved(c)
  BY <1>1 DEF TypeOK, Lock, Goto, Request, Moved
<1>2. ASSUME NEW from \in PCs, NEW to \in PCs, Unlock(c, from, to)
      PROVE  Moved(c)
  BY <1>2 DEF TypeOK, Unlock, Goto, DropInner, Moved
<1>3. ASSUME NEW from \in PCs, NEW to \in PCs, Goto(c, from, to),
             UNCHANGED <<message, readers, writer, queue>>
      PROVE  Moved(c)
  BY <1>3 DEF TypeOK, Goto, Moved
<1>4. CASE CountCommand(c)
  BY <1>1, <1>2, <1>4 DEF CountCommand, PCs
<1>5. CASE ProcessCommand(c)
  BY <1>1, <1>2, <1>3, <1>5 DEF ProcessCommand, PCs
<1>6. CASE CountError(c)
  BY <1>1, <1>2, <1>6 DEF CountError, PCs
<1>7. CASE Respond(c)
  BY <1>3, <1>7 DEF Respond, PCs
<1>8. CASE CountMalformed(c)
  BY <1>1, <1>2, <1>8 DEF CountMalformed, PCs
<1>9. CASE Leave(c)
  BY <1>3, <1>9 DEF Leave, PCs
<1> QED BY <1>4, <1>5, <1>6, <1>7, <1>8, <1>9 DEF Connection

\* Nor does a session (ws.rs:264-355).
LEMMA SessionMoves ==
  ASSUME TypeOK, NEW s \in Sessions, Session(s)
  PROVE  Moved(s)
<1> USE MessageAssumption DEF Tasks
<1>1. CASE ReceiveMalformed(s)
  BY <1>1 DEF TypeOK, ReceiveMalformed, Goto, Request, Moved, PCs, MessageKinds
<1>2. CASE ReceiveAuth(s)
  BY <1>2 DEF TypeOK, ReceiveAuth, Goto, Request, Moved, PCs
<1>3. CASE CountAuth(s)
  BY <1>3 DEF TypeOK, CountAuth, Lock, Goto, Request, Moved, PCs
<1>4. CASE Answer(s)
  <2>1. /\ ~Waiting(s) /\ pc' = [pc EXCEPT ![s] = "answered"]
        /\ message' = message /\ queue' = queue /\ writer' = writer \ {s}
        /\ \/ readers' = readers
           \/ readers' = [readers EXCEPT ![s] = 0]
           \/ readers[s] # 0 /\ readers' = [readers EXCEPT ![s] = @ - 1]
    BY <1>4 DEF Answer, Goto, DropInner, DropAll
  <2>2. readers \in [Tasks -> Nat]
    BY DEF TypeOK
  <2>3. /\ readers' \in [Tasks -> Nat] /\ readers'[s] <= readers[s]
        /\ \A u \in Tasks \ {s} : readers'[u] = readers[u]
    BY <2>1, <2>2
  <2>4. /\ pc' \in [Tasks -> PCs]
        /\ \A u \in Tasks \ {s} : pc'[u] = pc[u]
    BY <2>1 DEF TypeOK, PCs
  <2> QED BY <2>1, <2>3, <2>4 DEF Moved, TypeOK
<1> QED BY <1>1, <1>2, <1>3, <1>4 DEF Session

-----------------------------------------------------------------------------
LEMMA InitLockInv == Init => LockInv
<1> SUFFICES ASSUME Init PROVE LockInv
  OBVIOUS
<1>1. TypeOK
  BY DEF Init, TypeOK, PCs, Tasks
<1>2. Excluded
  BY DEF Init, Excluded
<1>3. ASSUME NEW s \in Sessions PROVE SessionInv(s)
  <2>1. pc[s] = "open" /\ message[s] = "none" /\ readers[s] = 0 /\ queue = << >>
    BY TaskAssumption DEF Init, Tasks
  <2> QED BY <2>1 DEF SessionInv, AuthKinds
<1> QED BY <1>1, <1>2, <1>3 DEF LockInv

\* A move keeps types and the exclusion of readers by the writer.
LEMMA MoveKeepsTypes ==
  ASSUME TypeOK, Excluded, NEW t \in Tasks, Moved(t)
  PROVE  TypeOK' /\ Excluded'
<1>1. /\ queue' \in Seq(Requests)
      /\ \A i, j \in DOMAIN queue' : queue'[i].task = queue'[j].task => i = j
  <2>1. CASE queue' = queue
    BY <2>1 DEF TypeOK, Requests
  <2>2. ASSUME NEW mode \in {"read", "write"},
               queue' = Append(queue, [task |-> t, mode |-> mode])
        PROVE  <1>1!1 /\ <1>1!2
    <3> DEFINE e == [task |-> t, mode |-> mode]
    <3>1. e \in Requests /\ e.task = t
      BY DEF Requests
    <3>2. queue \in Seq(Requests) /\ \A i \in DOMAIN queue : queue[i].task # t
      BY DEF TypeOK, Requests, Moved, Waiting
    <3> HIDE DEF e
    <3>3. /\ queue' \in Seq(Requests)
          /\ Len(queue') = Len(queue) + 1
          /\ queue'[Len(queue) + 1] = e
          /\ \A i \in 1..Len(queue) : queue'[i] = queue[i]
      BY <2>2, <3>1, <3>2 DEF e
    <3>4. ASSUME NEW i \in DOMAIN queue', NEW j \in DOMAIN queue',
                 queue'[i].task = queue'[j].task
          PROVE  i = j
      <4>1. /\ i \in 1..(Len(queue) + 1) /\ j \in 1..(Len(queue) + 1)
            /\ Len(queue) \in Nat /\ DOMAIN queue = 1..Len(queue)
        BY <3>2, <3>3
      <4>2. CASE i \in DOMAIN queue /\ j \in DOMAIN queue
        BY <3>3, <3>4, <4>1, <4>2 DEF TypeOK
      <4>3. i \in DOMAIN queue <=> j \in DOMAIN queue
        BY <3>1, <3>2, <3>3, <3>4, <4>1
      <4> QED BY <4>1, <4>2, <4>3
    <3> QED BY <3>3, <3>4
  <2> QED BY <2>1, <2>2 DEF Moved
<1>2. writer' \subseteq Tasks
  BY DEF Moved, TypeOK
<1>3. TypeOK'
  BY <1>1, <1>2 DEF TypeOK, Moved, Requests
<1>4. Excluded'
  <2> SUFFICES ASSUME writer' # {}, NEW u \in Tasks PROVE readers'[u] = 0
    BY DEF Excluded
  <2>1. readers[u] = 0 /\ readers'[u] \in Nat
    BY DEF Excluded, Moved
  <2> QED BY <2>1 DEF Moved
<1> QED BY <1>3, <1>4

\* So does a grant.
LEMMA GrantKeepsTypes ==
  ASSUME TypeOK, Excluded, NEW t \in Tasks, Grant(t)
  PROVE  TypeOK' /\ Excluded'
<1>1. /\ queue \in Seq(Requests) /\ queue # << >>
      /\ queue' = Tail(queue)
  BY DEF TypeOK, Grant, Requests
<1>2. /\ queue' \in Seq(Requests)
      /\ Len(queue') = Len(queue) - 1
      /\ \A i \in 1..Len(queue') : queue'[i] = queue[i + 1]
  BY <1>1
<1>3. \A i, j \in DOMAIN queue' : queue'[i].task = queue'[j].task => i = j
  <2> SUFFICES ASSUME NEW i \in DOMAIN queue', NEW j \in DOMAIN queue',
                      queue'[i].task = queue'[j].task
               PROVE  i = j
    OBVIOUS
  <2>1. /\ i \in Nat /\ j \in Nat
        /\ i + 1 \in DOMAIN queue /\ j + 1 \in DOMAIN queue
        /\ queue[i + 1].task = queue[j + 1].task
    BY <1>1, <1>2
  <2>2. i + 1 = j + 1
    BY <2>1 DEF TypeOK
  <2> QED BY <2>1, <2>2
<1>4. readers' \in [Tasks -> Nat] /\ writer' \subseteq Tasks
  <2>1. readers \in [Tasks -> Nat]
    BY DEF TypeOK
  <2>2. /\ \/ readers' = readers
           \/ readers' = [readers EXCEPT ![t] = @ + 1]
        /\ writer' \in {writer, {t}}
    BY DEF Grant
  <2>3. readers' \in [Tasks -> Nat]
    BY <2>1, <2>2
  <2> QED BY <2>2, <2>3 DEF TypeOK
<1>5. TypeOK'
  BY <1>2, <1>3, <1>4 DEF TypeOK, Grant, Requests
<1>6. Excluded'
  BY DEF Grant, Excluded, TypeOK
<1> QED BY <1>5, <1>6

-----------------------------------------------------------------------------
\* What another task does leaves a session where it is.
LEMMA OthersKeepSession ==
  ASSUME TypeOK, NEW s \in Sessions, SessionInv(s), NEW t \in Tasks, t # s, Moved(t)
  PROVE  SessionInv(s)'
<1>1. pc'[s] = pc[s] /\ message'[s] = message[s] /\ readers'[s] = readers[s]
  BY DEF Moved, Tasks
<1>2. /\ \A i \in DOMAIN queue' : queue'[i].task = s =>
           i \in DOMAIN queue /\ queue'[i] = queue[i]
      /\ \A i \in DOMAIN queue : i \in DOMAIN queue' /\ queue'[i] = queue[i]
  <2>1. CASE queue' = queue
    BY <2>1
  <2>2. ASSUME NEW mode \in {"read", "write"},
               queue' = Append(queue, [task |-> t, mode |-> mode])
        PROVE  <1>2!1 /\ <1>2!2
    <3> DEFINE e == [task |-> t, mode |-> mode]
    <3>1. e.task = t /\ e \in Requests /\ queue \in Seq(Requests)
      BY DEF TypeOK, Requests
    <3> HIDE DEF e
    <3>2. /\ DOMAIN queue' = 1..(Len(queue) + 1) /\ DOMAIN queue = 1..Len(queue)
          /\ Len(queue) \in Nat
          /\ queue'[Len(queue) + 1] = e
          /\ \A i \in 1..Len(queue) : queue'[i] = queue[i]
      BY <2>2, <3>1 DEF e
    <3> QED BY <3>1, <3>2
  <2> QED BY <2>1, <2>2 DEF Moved
<1>3. Waiting(s)' <=> Waiting(s)
  BY <1>2 DEF Waiting
<1> QED BY <1>1, <1>2, <1>3 DEF SessionInv

\* A session's own steps: the one that would answer an auth message needs the
\* request of CountAuth to be gone from the queue.
LEMMA OwnStepKeepsSession ==
  ASSUME TypeOK, NEW s \in Sessions, SessionInv(s), Session(s)
  PROVE  SessionInv(s)'
<1> USE DEF Tasks
<1>0. /\ pc \in [Tasks -> PCs] /\ readers \in [Tasks -> Nat]
      /\ message \in [Sessions -> MessageKinds \cup {"none"}]
      /\ queue \in Seq(Requests)
  BY DEF TypeOK, Requests
<1>r. ASSUME NEW mode \in {"read", "write"}, Request(s, mode), ~Waiting(s)
      PROVE  /\ Waiting(s)'
             /\ \A i \in DOMAIN queue' : queue'[i].task = s => queue'[i].mode = mode
  <2> DEFINE e == [task |-> s, mode |-> mode]
  <2>1. e.task = s /\ e.mode = mode /\ e \in Requests
    BY DEF Requests
  <2> HIDE DEF e
  <2>2. /\ DOMAIN queue' = 1..(Len(queue) + 1) /\ DOMAIN queue = 1..Len(queue)
        /\ Len(queue) \in Nat
        /\ queue'[Len(queue) + 1] = e
        /\ \A i \in 1..Len(queue) : queue'[i] = queue[i]
    BY <1>0, <1>r, <2>1 DEF Request, e
  <2> QED BY <1>r, <2>1, <2>2 DEF Waiting
<1>1. CASE ReceiveMalformed(s)
  <2>1. /\ pc'[s] = "answer" /\ message'[s] = "malformed" /\ readers'[s] = 0
        /\ Request(s, "write") /\ ~Waiting(s)
    BY <1>0, <1>1 DEF ReceiveMalformed, Goto, SessionInv, AuthKinds
  <2>2. Waiting(s)' /\ \A i \in DOMAIN queue' : queue'[i].task = s => queue'[i].mode = "write"
    BY <2>1, <1>r
  <2> QED BY <2>1, <2>2 DEF SessionInv, AuthKinds
<1>2. CASE ReceiveAuth(s)
  <2>1. /\ pc'[s] = "validate" /\ message'[s] \in AuthKinds
        /\ Request(s, "read") /\ ~Waiting(s)
    BY <1>0, <1>2, MessageAssumption
    DEF ReceiveAuth, Goto, AuthKinds, MessageKinds
  <2>2. Waiting(s)' /\ \A i \in DOMAIN queue' : queue'[i].task = s => queue'[i].mode = "read"
    BY <2>1, <1>r
  <2> QED BY <2>1, <2>2 DEF SessionInv
<1>3. CASE CountAuth(s)
  <2>1. /\ pc'[s] = "answer" /\ message'[s] = message[s] /\ message[s] \in AuthKinds
        /\ readers'[s] = readers[s] /\ readers[s] > 0
        /\ Request(s, "write") /\ ~Waiting(s)
    BY <1>0, <1>3 DEF CountAuth, Lock, Goto, SessionInv
  <2>2. Waiting(s)' /\ \A i \in DOMAIN queue' : queue'[i].task = s => queue'[i].mode = "write"
    BY <2>1, <1>r
  <2> QED BY <2>1, <2>2 DEF SessionInv
<1>4. CASE Answer(s)
  <2>1. /\ pc[s] = "answer" /\ ~Waiting(s) /\ pc'[s] = "answered"
        /\ message' = message /\ queue' = queue
    BY <1>0, <1>4 DEF Answer, Goto, DropInner, DropAll
  <2>2. message[s] \notin AuthKinds /\ readers[s] = 0
    BY <2>1 DEF SessionInv
  <2>3. readers'[s] = 0
    BY <1>0, <1>4, <2>2 DEF Answer, DropInner, DropAll
  <2>4. \A i \in DOMAIN queue' : queue'[i].task # s
    BY <2>1 DEF Waiting
  <2> QED BY <2>1, <2>2, <2>3, <2>4 DEF SessionInv
<1> QED BY <1>1, <1>2, <1>3, <1>4 DEF Session

\* A grant gives a session the guard it asked for, never the write guard that
\* would let an auth message be answered.
LEMMA GrantKeepsSession ==
  ASSUME TypeOK, NEW s \in Sessions, SessionInv(s), NEW t \in Tasks, Grant(t)
  PROVE  SessionInv(s)'
<1>1. /\ queue \in Seq(Requests) /\ queue # << >>
      /\ readers \in [Tasks -> Nat] /\ s \in Tasks
      /\ pc' = pc /\ message' = message /\ queue' = Tail(queue)
  BY DEF TypeOK, Grant, Requests, Tasks
<1>2. /\ Head(queue) = queue[1] /\ 1 \in DOMAIN queue
      /\ \A i \in DOMAIN queue' : i + 1 \in DOMAIN queue /\ queue'[i] = queue[i + 1]
      /\ \A i \in DOMAIN queue : i # 1 => i - 1 \in DOMAIN queue' /\ queue'[i - 1] = queue[i]
  BY <1>1
<1>3. \A i \in DOMAIN queue' : queue'[i].task = s =>
        \/ pc[s] = "validate" /\ queue'[i].mode = "read"
        \/ pc[s] = "answer" /\ queue'[i].mode = "write"
  BY <1>2 DEF SessionInv
<1>4. CASE t = s
  <2>1. Head(queue).task = s
    BY <1>4 DEF Grant
  <2>2. CASE pc[s] = "validate"
    <3>1. Head(queue).mode = "read"
      BY <1>2, <2>1, <2>2 DEF SessionInv
    <3>2. readers'[s] = readers[s] + 1 /\ readers[s] \in Nat
      BY <1>1, <1>4, <3>1 DEF Grant
    <3>3. message[s] \in AuthKinds
      BY <2>2 DEF SessionInv
    <3> QED BY <1>1, <1>3, <2>2, <3>2, <3>3 DEF SessionInv
  <2>3. CASE pc[s] = "answer"
    <3>1. Head(queue).mode = "write"
      BY <1>2, <2>1, <2>3 DEF SessionInv
    <3>2. readers[s] = 0 /\ readers' = readers
      BY <1>1, <3>1 DEF Grant
    <3>3. message[s] \notin AuthKinds
      BY <2>3, <3>2 DEF SessionInv
    <3> QED BY <1>1, <1>3, <2>3, <3>2, <3>3 DEF SessionInv
  <2> QED BY <1>2, <2>1, <2>2, <2>3 DEF SessionInv
<1>5. CASE t # s
  <2>1. readers'[s] = readers[s]
    BY <1>1, <1>5 DEF Grant
  <2>2. Waiting(s)' <=> Waiting(s)
    <3>1. queue[1].task # s
      BY <1>2, <1>5 DEF Grant
    <3> QED BY <1>2, <3>1 DEF Waiting
  <2> QED BY <1>1, <1>3, <2>1, <2>2 DEF SessionInv
<1> QED BY <1>4, <1>5

-----------------------------------------------------------------------------
LEMMA NextLockInv == LockInv /\ [Next]_vars => LockInv'
<1> SUFFICES ASSUME LockInv, [Next]_vars PROVE LockInv'
  OBVIOUS
<1> USE DEF LockInv
<1>1. ASSUME NEW c \in Connections, Connection(c) PROVE LockInv'
  <2>1. Moved(c) /\ c \in Tasks
    BY <1>1, ConnectionMoves DEF Tasks
  <2>2. ASSUME NEW s \in Sessions PROVE SessionInv(s)'
    BY <2>1, OthersKeepSession, TaskAssumption
  <2> QED BY <2>1, <2>2, MoveKeepsTypes
<1>2. ASSUME NEW s \in Sessions, Session(s) PROVE LockInv'
  <2>1. Moved(s) /\ s \in Tasks
    BY <1>2, SessionMoves DEF Tasks
  <2>2. ASSUME NEW r \in Sessions PROVE SessionInv(r)'
    BY <1>2, <2>1, OthersKeepSession, OwnStepKeepsSession
  <2> QED BY <2>1, <2>2, MoveKeepsTypes
<1>3. ASSUME NEW t \in Tasks, Grant(t) PROVE LockInv'
  <2>1. ASSUME NEW s \in Sessions PROVE SessionInv(s)'
    BY <1>3, GrantKeepsSession
  <2> QED BY <1>3, <2>1, GrantKeepsTypes
<1>4. CASE UNCHANGED vars
  BY <1>4 DEF vars, TypeOK, Excluded, SessionInv, Waiting
<1> QED BY <1>1, <1>2, <1>3, <1>4 DEF Next

LEMMA LockInvariant == Spec => []LockInv
BY InitLockInv, NextLockInv, PTL DEF Spec

\* The variables keep their types and no task waits twice, whatever the tasks
\* of main.rs and ws.rs do with the lock.
THEOREM LockTypeCorrect == Spec => []TypeOK
<1>1. LockInv => TypeOK
  BY DEF LockInv
<1> QED BY <1>1, LockInvariant, PTL

\* With any number of clients and controllers, no auth message is answered
\* (ws.rs:298-312).
THEOREM AuthMessagesUnanswered == Spec => []AuthNeverAnswered
<1>1. LockInv => AuthNeverAnswered
  BY DEF LockInv, AuthNeverAnswered, SessionInv, AuthKinds
<1> QED BY <1>1, LockInvariant, PTL

\* A session stuck with its read guard stays stuck, and nobody writes again.
LEMMA StuckStep == LockInv /\ [Next]_vars => (Stuck # {} => Stuck' # {} /\ writer' = {})
<1> SUFFICES ASSUME LockInv, [Next]_vars, NEW s \in Stuck
             PROVE  s \in Stuck' /\ writer' = {}
  BY DEF Stuck
<1>1. /\ TypeOK /\ Excluded /\ SessionInv(s) /\ s \in Sessions /\ s \in Tasks
      /\ readers[s] \in Nat /\ readers[s] > 0 /\ pc[s] = "answer"
  BY DEF LockInv, Stuck, TypeOK, Tasks
<1>2. Waiting(s)
  BY <1>1 DEF SessionInv
<1>3. writer = {}
  BY <1>1 DEF Excluded
<1>4. ASSUME NEW t \in Tasks, Moved(t) PROVE s \in Stuck' /\ writer' = {}
  <2>1. t # s
    BY <1>2, <1>4 DEF Moved
  <2> QED BY <1>1, <1>3, <1>4, <2>1 DEF Moved, Stuck
<1>5. ASSUME NEW t \in Tasks, Grant(t) PROVE s \in Stuck' /\ writer' = {}
  <2>1. /\ pc' = pc /\ writer' = writer
        /\ readers' = [readers EXCEPT ![t] = @ + 1]
    BY <1>1, <1>5 DEF Grant
  <2>2. readers'[s] > 0
    BY <1>1, <2>1 DEF TypeOK
  <2> QED BY <1>1, <1>3, <2>1, <2>2 DEF Stuck
<1>6. CASE UNCHANGED vars
  BY <1>1, <1>3, <1>6 DEF vars, Stuck
<1>7. ASSUME NEW c \in Connections, Connection(c) PROVE s \in Stuck' /\ writer' = {}
  BY <1>1, <1>4, <1>7, ConnectionMoves DEF Tasks
<1>8. ASSUME NEW r \in Sessions, Session(r) PROVE s \in Stuck' /\ writer' = {}
  BY <1>1, <1>4, <1>8, SessionMoves DEF Tasks
<1> QED BY <1>5, <1>6, <1>7, <1>8 DEF Next

\* One auth message stops every writer of the server for good.
THEOREM AuthStopsTheServer == Spec => OneAuthStopsTheServer
<1>1. LockInv /\ [Next]_vars => [Stuck # {} => Stuck' # {} /\ writer' = {}]_vars
  BY StuckStep
<1> QED BY <1>1, LockInvariant, PTL DEF Spec, OneAuthStopsTheServer
=============================================================================
