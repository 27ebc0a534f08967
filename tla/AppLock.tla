------------------------------ MODULE AppLock ------------------------------
(***************************************************************************)
(* Who holds, and who waits for, the application lock: the                 *)
(* Arc<RwLock<AppState>> that every task of the server shares.             *)
(*                                                                         *)
(* The lock is tokio's: a writer excludes everyone, requests are granted   *)
(* in the order they were made, and a request of a task that already holds *)
(* a guard waits like any other.  The tasks are the command connections    *)
(* (main.rs:547-627), each a loop that takes and drops the lock two or     *)
(* three times a command, and the websocket sessions up to their answer to *)
(* the first message (ws.rs:264-313).  A session keeps the read guard of   *)
(* ws.rs:298 in a variable of the function, so it is dropped when the      *)
(* function returns and not where it was last used.                        *)
(***************************************************************************)
EXTENDS Naturals, Sequences, FiniteSets

CONSTANTS
  Connections,   \* command connections
  Sessions,      \* websocket connections
  AuthMessages   \* the first messages the clients may send

MessageKinds == {"malformed", "bad_jwt", "good_jwt"}

ASSUME MessageAssumption == AuthMessages \subseteq MessageKinds
ASSUME TaskAssumption == Connections \cap Sessions = {}

VARIABLES
  pc,       \* where each task is
  message,  \* the first message of each session, once received
  readers,  \* how many read guards each task holds
  writer,   \* the tasks that hold the write guard, at most one
  queue     \* the requests not granted yet, oldest first

vars == <<pc, message, readers, writer, queue>>

Tasks == Connections \cup Sessions

-----------------------------------------------------------------------------
(* The lock *)

Waiting(t) == \E i \in DOMAIN queue : queue[i].task = t

\* state.read().await and state.write().await up to where they suspend.
Request(t, mode) == queue' = Append(queue, [task |-> t, mode |-> mode])

\* The oldest request is granted as soon as the guards held allow it.
Grant(t) ==
  /\ queue # << >>
  /\ Head(queue).task = t
  /\ writer = {}
  /\ \/ /\ Head(queue).mode = "read"
        /\ readers' = [readers EXCEPT ![t] = @ + 1]
        /\ UNCHANGED writer
     \/ /\ Head(queue).mode = "write"
        /\ \A u \in Tasks : readers[u] = 0
        /\ writer' = {t}
        /\ UNCHANGED readers
  /\ queue' = Tail(queue)
  /\ UNCHANGED <<pc, message>>

\* Mutant of DropInner: a read guard goes together with the write guard.
DropTwo(t) ==
  /\ writer' = writer \ {t}
  /\ readers' = [readers EXCEPT ![t] = @ - 1]
  /\ UNCHANGED queue

\* The guard taken last is dropped: the write guard, or else a read guard.
DropInner(t) ==
  /\ writer' = writer \ {t}
  /\ readers' = IF t \in writer \/ readers[t] = 0 THEN readers
                ELSE [readers EXCEPT ![t] = @ - 1]
  /\ UNCHANGED queue

DropAll(t) ==
  /\ writer' = writer \ {t}
  /\ readers' = [readers EXCEPT ![t] = 0]
  /\ UNCHANGED queue

Goto(t, from, to) ==
  /\ pc[t] = from
  /\ ~Waiting(t)
  /\ pc' = [pc EXCEPT ![t] = to]

\* A step that asks for the lock, and one that drops the guard it got.
Lock(t, from, to, mode) ==
  /\ Goto(t, from, to)
  /\ Request(t, mode)
  /\ UNCHANGED <<message, readers, writer>>

Unlock(t, from, to) ==
  /\ Goto(t, from, to)
  /\ DropInner(t)
  /\ UNCHANGED message

-----------------------------------------------------------------------------
(* A command connection *)

\* A line arrived: the request counter is raised under a guard of its own.
CountCommand(c) ==
  \/ Lock(c, "idle", "count", "write")
  \/ Unlock(c, "count", "process")

\* Mutant of ProcessCommand: the guard is kept until the reply is counted.
ProcessKeepsGuard(c) ==
  \/ \E mode \in {"read", "write"} : Lock(c, "process", "execute", mode)
  \/ /\ \/ Goto(c, "process", "respond_error")
        \/ \E outcome \in {"respond_ok", "respond_error"} : Goto(c, "execute", outcome)
     /\ UNCHANGED <<message, readers, writer, queue>>

\* process_command holds one guard, read or write as the command needs, or
\* none when the arguments are refused before it asks for one.
ProcessCommand(c) ==
  \/ \E mode \in {"read", "write"} : Lock(c, "process", "execute", mode)
  \/ /\ Goto(c, "process", "respond_error")
     /\ UNCHANGED <<message, readers, writer, queue>>
  \/ \E outcome \in {"respond_ok", "respond_error"} : Unlock(c, "execute", outcome)

\* An error reply is counted under a third guard before it is written.
CountError(c) ==
  \/ Lock(c, "respond_error", "count_error", "write")
  \/ Unlock(c, "count_error", "respond_ok")

\* The reply is written, or cannot be, which ends the connection.
Respond(c) ==
  /\ \E to \in {"idle", "ended"} : Goto(c, "respond_ok", to)
  /\ UNCHANGED <<message, readers, writer, queue>>

\* A line that is too long is answered first and counted then, which is the last
\* that the connection does.
CountMalformed(c) ==
  \/ Lock(c, "idle", "count_malformed", "write")
  \/ Unlock(c, "count_malformed", "ended")

\* The peer is gone, or cannot be told that its line was too long.
Leave(c) ==
  /\ Goto(c, "idle", "ended")
  /\ UNCHANGED <<message, readers, writer, queue>>

Connection(c) ==
  CountCommand(c) \/ ProcessCommand(c) \/ CountError(c) \/ Respond(c)
    \/ CountMalformed(c) \/ Leave(c)

-----------------------------------------------------------------------------
(* A websocket session *)

\* Not a text, not JSON or not an auth message: auth_error under a write guard.
ReceiveMalformed(s) ==
  /\ "malformed" \in AuthMessages
  /\ Goto(s, "open", "answer")
  /\ message' = [message EXCEPT ![s] = "malformed"]
  /\ Request(s, "write")
  /\ UNCHANGED <<readers, writer>>

\* An auth message: the read guard under which the JWT is validated.
ReceiveAuth(s) ==
  /\ Goto(s, "open", "validate")
  /\ \E m \in AuthMessages \ {"malformed"} : message' = [message EXCEPT ![s] = m]
  /\ Request(s, "read")
  /\ UNCHANGED <<readers, writer>>

\* Mutants of CountAuth: the read guard is dropped first; the count is made
\* under a read guard.
CountAuthReleased(s) ==
  /\ Goto(s, "validate", "answer")
  /\ readers' = [readers EXCEPT ![s] = 0]
  /\ Request(s, "write")
  /\ UNCHANGED <<message, writer>>

CountAuthShared(s) == Lock(s, "validate", "answer", "read")

\* Both outcomes of the validation are counted under a write guard, which is
\* asked for while the read guard of ReceiveAuth is still held.
CountAuth(s) == Lock(s, "validate", "answer", "write")

\* Mutant of Answer: the guard outlives the session.
AnswerKeepsGuard(s) ==
  /\ Goto(s, "answer", "answered")
  /\ UNCHANGED <<message, readers, writer, queue>>

\* The outcome is counted and the client gets auth_error or auth_ok.  After an
\* error the function returns and every guard goes; after a success it goes on,
\* through two more reads, with the guard of ReceiveAuth in hand.
Answer(s) ==
  /\ Goto(s, "answer", "answered")
  /\ \/ message[s] \in {"malformed", "bad_jwt"} /\ DropAll(s)
     \/ message[s] = "good_jwt" /\ DropInner(s)
  /\ UNCHANGED message

Session(s) ==
  ReceiveMalformed(s) \/ ReceiveAuth(s) \/ CountAuth(s) \/ Answer(s)

-----------------------------------------------------------------------------
Init ==
  /\ pc = [t \in Tasks |-> IF t \in Connections THEN "idle" ELSE "open"]
  /\ message = [s \in Sessions |-> "none"]
  /\ readers = [t \in Tasks |-> 0]
  /\ writer = {}
  /\ queue = << >>

Next ==
  \/ \E c \in Connections : Connection(c)
  \/ \E s \in Sessions : Session(s)
  \/ \E t \in Tasks : Grant(t)

Spec == Init /\ [][Next]_vars

\* The runtime polls every task that can go on and the lock wakes the oldest
\* waiter.  Whether another line or first message arrives is up to the peers.
Fairness ==
  /\ \A t \in Tasks : WF_vars(Grant(t))
  /\ \A c \in Connections : WF_vars(pc[c] # "idle" /\ Connection(c))
  /\ \A s \in Sessions : WF_vars(pc[s] # "open" /\ Session(s))

FairSpec == Spec /\ Fairness

-----------------------------------------------------------------------------
(* Properties *)

PCs == {"idle", "count", "process", "execute", "respond_error", "count_error",
        "respond_ok", "count_malformed", "ended", "open", "validate", "answer", "answered"}

\* Types; a task has at most one request in the queue.
TypeOK ==
  /\ pc \in [Tasks -> PCs]
  /\ message \in [Sessions -> MessageKinds \cup {"none"}]
  /\ readers \in [Tasks -> Nat]
  /\ writer \subseteq Tasks
  /\ queue \in Seq([task : Tasks, mode : {"read", "write"}])
  /\ \A i, j \in DOMAIN queue : queue[i].task = queue[j].task => i = j

\* No auth message is ever answered: the session that validated its JWT waits
\* for the write guard of ws.rs:302 or 307 behind its own guard of ws.rs:298.
AuthNeverAnswered ==
  \A s \in Sessions : message[s] \in {"good_jwt", "bad_jwt"} => pc[s] # "answered"

Stuck == {s \in Sessions : pc[s] = "answer" /\ readers[s] > 0}

\* One auth message stops the server: from then on nobody gets the write guard
\* again, so no connection applies a command (each is counted under one first)
\* and no other session is answered.
OneAuthStopsTheServer == [][Stuck # {} => Stuck' # {} /\ writer' = {}]_vars

AuthReceived == \E s \in Sessions : message[s] \in {"good_jwt", "bad_jwt"}

\* A command line that was read gets its reply, if one can be written: as long as
\* no auth message arrives no connection waits for ever for the lock, however
\* connections and sessions compete for it.
CommandsAnswered ==
  \A c \in Connections :
    pc[c] \notin {"idle", "ended"} ~> pc[c] \in {"idle", "ended"} \/ AuthReceived

\* And a malformed first message is answered, as long as no auth message arrives.
MalformedAnswered ==
  \A s \in Sessions : message[s] = "malformed" ~> pc[s] = "answered" \/ AuthReceived

\* A first message that was received is answered, whatever it is.
FirstMessagesAnswered ==
  \A s \in Sessions : message[s] # "none" ~> pc[s] = "answered"
=============================================================================
