----------------------------- MODULE SyncServer -----------------------------
(***************************************************************************)
(* The path of a change from a command connection to the websocket         *)
(* clients: the loop of handle_command_connection (main.rs), the WsHub and *)
(* the session of an authenticated client (ws.rs), over the rooms of       *)
(* RoomStore.                                                              *)
(*                                                                         *)
(* Two locks protect the shared state, the application lock around the     *)
(* rooms and the mutex around the hub, and no handler holds both.  Each    *)
(* critical section is one action; everything may happen between two of    *)
(* them.  In particular a change is applied in one section and broadcast   *)
(* in a later one, and a session reads its snapshot in one section and is  *)
(* registered for events in a later one.                                   *)
(*                                                                         *)
(* A session is modelled from the point where its claims are known         *)
(* (ws.rs:314); AppLock models what comes before.  The read guard of       *)
(* ws.rs:298 is taken as dropped by then: as AppLock shows, a session      *)
(* that keeps it gets no further.  Whether a rate limiter refuses is left  *)
(* open, and so is whether a client reads its socket: no send has a time   *)
(* limit, and one to a client that does not read may never complete.  One  *)
(* that completes late is a step of its session that comes late.           *)
(***************************************************************************)
EXTENDS RoomStore

CONSTANTS
  Connections,   \* command connections, each one controller
  Sessions,      \* websocket sessions
  Public,        \* the container every session may see
  Granted,       \* the containers each session's token names
  Star,          \* the name "*", which broadcast_update takes for every container
  MaxClients,    \* MAX_WS_CLIENTS_PER_ROOM
  MaxPending,    \* MAX_WS_PENDING_MESSAGES
  Transactions   \* bound: whether the controllers use transactions

ASSUME SessionAssumption ==
  /\ Granted \in [Sessions -> SUBSET Containers]
  /\ MaxClients \in Nat /\ MaxPending \in Nat
  /\ Transactions \in BOOLEAN

VARIABLES
  conn,    \* each command connection: where it is and what it still has to do
  hub,     \* WsHub.rooms: the pairs of a room and a session registered for it
  state,   \* where each session is
  room,    \* the room of each session's token, 0 before it is looked at
  view,    \* the snapshot sent to the client, with the events sent since
  queue,   \* each session's channel of events
  total_ws_connections,
  lost     \* history: the fragments of which a session's client was not told

sessionVars == <<state, room, view, queue, total_ws_connections>>
serverVars == <<rooms, next_room_id, conn, hub, sessionVars, lost>>

-----------------------------------------------------------------------------
(* Events *)

WholeRoom == <<Star, Star>>

\* RoomUpdate, and the event the clients get.  Del sends Null as its value; an
\* event about WholeRoom has none, also when it tells of a fragment of that name.
Update(r, f, v) ==
  [room_id |-> r, fragment |-> f, room_counter |-> rooms'[r].room_counter,
   value |-> IF f = WholeRoom THEN Absent ELSE v]

Idle == [pc |-> "idle", updates |-> {}, deleted |-> {}]

Visible(s) == {f \in FragmentIds : f[1] = Public \/ f[1] \in Granted[s]}

\* Mutant of Concerns: containers are not looked at.
ConcernsAll(u, s) == u.fragment \in FragmentIds \cup {WholeRoom}

\* Events in a container called "*" go to every client.
Concerns(u, s) == u.fragment[1] = Star \/ u.fragment \in Visible(s)

Clients(r) == {s \in Sessions : <<r, s>> \in hub}

\* A session keeps the hub's mutex until its client has taken the refusal.
HubFree == \A s \in Sessions : state[s] # "refused"

\* What the client shows once it has applied the events in a sequence; one about
\* WholeRoom tells it no value.
Apply(values, events) ==
  [f \in FragmentIds |->
     LET about == {i \in DOMAIN events : events[i].fragment = f} IN
     IF about = {} \/ f = WholeRoom THEN values[f]
     ELSE events[CHOOSE i \in about : \A j \in about : j <= i].value]

\* The session has a snapshot and its client has not been sent away.
Following(s) ==
  state[s] \in {"snapshot", "accepted", "registered", "active", "stalled"}

\* The sessions of a room will not be told what became of some fragments.
PassBy(r, fragments) ==
  lost' = [s \in Sessions |->
             IF room[s] = r /\ Following(s) THEN lost[s] \cup fragments ELSE lost[s]]

Buffered(r) == {f \in FragmentIds : WritesTo(rooms[r].tx_buffer, f) # {}}

Touched(u) == {u.fragment} \cap FragmentIds

-----------------------------------------------------------------------------
(* A command connection *)

\* process_command: one command, its reply and the updates it returns.  The
\* room id of a ROOM.DELETE in quotes is not recognised by the cleanup.
Finish(c, updates, deleted) ==
  /\ conn[c].pc = "idle"
  /\ conn' = [conn EXCEPT ![c] = [pc |-> "respond", updates |-> updates, deleted |-> deleted]]
  /\ UNCHANGED <<hub, sessionVars>>

Create(c) == RoomCreate /\ Finish(c, {}, {}) /\ UNCHANGED lost

Delete(c) ==
  /\ \E r \in RoomIds, quoted \in BOOLEAN :
       RoomDelete(r) /\ Finish(c, {}, IF quoted THEN {} ELSE {r})
  /\ UNCHANGED lost

Write(c) ==
  /\ \E r \in RoomIds, f \in FragmentIds :
       \/ \E v \in Values : Set(r, f[1], f[2], v) /\ Finish(c, {Update(r, f, v)}, {})
       \/ Del(r, f[1], f[2]) /\ Finish(c, {Update(r, f, Null)}, {})
  /\ UNCHANGED lost

\* The writes of an aborted transaction were broadcast and are not taken back.
Transact(c) ==
  /\ Transactions
  /\ \E r \in RoomIds :
       \/ TxBegin(r) /\ Finish(c, {}, {}) /\ UNCHANGED lost
       \/ TxEnd(r) /\ Finish(c, {Update(r, WholeRoom, Absent)}, {}) /\ UNCHANGED lost
       \/ TxAbort(r) /\ Finish(c, {}, {}) /\ PassBy(r, Buffered(r))

\* A query, or an error reply: the line was malformed, its arguments were not
\* accepted or the store refused it.  Nothing was changed, nothing is to be told.
AnswerOnly(c) ==
  /\ Finish(c, {}, {})
  /\ UNCHANGED <<vars, lost>>

\* The reply is written.  When that fails the connection ends, and with it the
\* cleanup and the broadcast of what was applied; the controller reconnects.
Respond(c) ==
  /\ conn[c].pc = "respond"
  /\ \/ /\ conn' = [conn EXCEPT ![c].pc = "publish"]
        /\ UNCHANGED lost
     \/ /\ conn' = [conn EXCEPT ![c] = Idle]
        /\ \/ conn[c].updates = {} /\ UNCHANGED lost
           \/ \E u \in conn[c].updates : PassBy(u.room_id, Touched(u))
  /\ UNCHANGED <<vars, hub, sessionVars>>

\* Nothing to publish, or the hub's entry of a deleted room goes, and with it
\* the senders of its sessions.
Cleanup(c) ==
  /\ conn[c].pc = "publish"
  /\ conn[c].updates = {}
  /\ conn[c].deleted = {} \/ HubFree
  /\ conn' = [conn EXCEPT ![c] = Idle]
  /\ hub' = {p \in hub : p[1] \notin conn[c].deleted}
  /\ UNCHANGED <<vars, sessionVars, lost>>

\* Mutants of BroadcastUpdate: a client whose queue is full misses the event and
\* is kept; queues have no limit.
BroadcastSkipsFull(u) ==
  LET reached == {s \in Clients(u.room_id) :
                    Concerns(u, s) /\ Len(queue[s]) < MaxPending} IN
  /\ queue' = [s \in Sessions |->
                 IF s \in reached THEN Append(queue[s], u) ELSE queue[s]]
  /\ UNCHANGED <<hub, lost>>

BroadcastUnlimited(u) ==
  /\ queue' = [s \in Sessions |->
                 IF s \in Clients(u.room_id) /\ Concerns(u, s)
                 THEN Append(queue[s], u) ELSE queue[s]]
  /\ UNCHANGED <<hub, lost>>

\* broadcast_update: every client concerned gets the event or, when its rate
\* limit or its queue does not allow it, is dropped from the hub.
BroadcastUpdate(u) ==
  LET concerned == {s \in Clients(u.room_id) : Concerns(u, s)} IN
  /\ HubFree
  /\ \E limited \in SUBSET concerned :
       LET full == {s \in concerned : Len(queue[s]) >= MaxPending}
           reached == concerned \ (limited \cup full) IN
       /\ hub' = hub \ {<<u.room_id, s>> : s \in concerned \ reached}
       /\ queue' = [s \in Sessions |->
                      IF s \in reached THEN Append(queue[s], u) ELSE queue[s]]
       /\ lost' = [s \in Sessions |->
                     IF s \in reached THEN lost[s] \ {u.fragment}
                     ELSE IF state[s] \in {"snapshot", "accepted"} /\ room[s] = u.room_id
                     THEN lost[s] \cup Touched(u) ELSE lost[s]]

\* The update is broadcast, or dropped for everyone by the limit of the room.
Broadcast(c) ==
  /\ conn[c].pc = "publish"
  /\ \E u \in conn[c].updates :
       \/ BroadcastUpdate(u)
       \/ PassBy(u.room_id, Touched(u)) /\ UNCHANGED <<hub, queue>>
  /\ conn' = [conn EXCEPT ![c] = Idle]
  /\ UNCHANGED <<vars, state, room, view, total_ws_connections>>

Connection(c) ==
  \/ Create(c) \/ Delete(c) \/ Write(c) \/ Transact(c) \/ AnswerOnly(c)
  \/ Respond(c) \/ Cleanup(c) \/ Broadcast(c)

-----------------------------------------------------------------------------
(* A session *)

Move(s, from, to) ==
  /\ state[s] \in from
  /\ state' = [state EXCEPT ![s] = to]

NoValues == [f \in FragmentIds |-> Absent]

\* handle_ws_connection returns: its end of the channel and the client go.
Close(s) ==
  /\ view' = [view EXCEPT ![s] = NoValues]
  /\ queue' = [queue EXCEPT ![s] = << >>]
  /\ lost' = [lost EXCEPT ![s] = {}]

\* Mutant of SnapshotFor: the containers are not looked at.
SnapshotOfAll(s, r) == [f \in FragmentIds |-> rooms[r].fragments[f].value]

SnapshotFor(s, r) ==
  [f \in FragmentIds |-> IF f \in Visible(s) THEN rooms[r].fragments[f].value ELSE Absent]

\* The snapshot of the room the token names, or auth_error: room_not_found.
\* It shows nothing of an open transaction, whose writes were broadcast before.
TakeSnapshot(s) ==
  /\ \E r \in RoomIds :
       \/ /\ r \in Live
          /\ Move(s, {"new"}, "snapshot")
          /\ room' = [room EXCEPT ![s] = r]
          /\ view' = [view EXCEPT ![s] = SnapshotFor(s, r)]
          /\ lost' = [lost EXCEPT ![s] = Buffered(r)]
       \/ /\ r \notin Live
          /\ Move(s, {"new"}, "closed")
          /\ UNCHANGED <<room, view, lost>>
  /\ UNCHANGED <<vars, conn, hub, queue, total_ws_connections>>

\* The counter is read and auth_ok sent; the client may be gone by then.
SendAuthOk(s) ==
  /\ \/ Move(s, {"snapshot"}, "accepted") /\ UNCHANGED <<view, queue, lost>>
     \/ Move(s, {"snapshot"}, "closed") /\ Close(s)
  /\ UNCHANGED <<vars, conn, hub, room, total_ws_connections>>

\* add_client, whether or not the room still exists; a full room is refused, in
\* a message under the hub's mutex that the client takes or never takes.
Register(s) ==
  /\ HubFree
  /\ \/ /\ Cardinality(Clients(room[s])) < MaxClients
        /\ Move(s, {"accepted"}, "registered")
        /\ hub' = hub \cup {<<room[s], s>>}
        /\ UNCHANGED <<view, queue, lost>>
     \/ /\ Cardinality(Clients(room[s])) >= MaxClients
        /\ \/ Move(s, {"accepted"}, "closed") /\ Close(s)
           \/ Move(s, {"accepted"}, "refused") /\ UNCHANGED <<view, queue, lost>>
        /\ UNCHANGED hub
  /\ UNCHANGED <<vars, conn, room, total_ws_connections>>

CountUp(s) ==
  /\ Move(s, {"registered"}, "active")
  /\ total_ws_connections' = total_ws_connections + 1
  /\ UNCHANGED <<vars, conn, hub, room, view, queue, lost>>

\* One turn of the select loop: an event is sent to the client and applied, or
\* the client never takes it.
Deliver(s) ==
  /\ queue[s] # << >>
  /\ Move(s, {"active"}, "active") \/ Move(s, {"active"}, "stalled")
  /\ view' = [view EXCEPT ![s] = Apply(@, <<Head(queue[s])>>)]
  /\ queue' = [queue EXCEPT ![s] = Tail(@)]
  /\ UNCHANGED <<vars, conn, hub, room, total_ws_connections, lost>>

\* The client never takes the answer to its ping, its message or its close frame.
Stall(s) ==
  /\ Move(s, {"active"}, "stalled")
  /\ UNCHANGED <<vars, conn, hub, room, view, queue, total_ws_connections, lost>>

\* The hub has dropped the sender and the channel is drained.
Dropped(s) == <<room[s], s>> \notin hub

\* Mutant of EndOfEvents: the end of the events is taken for a pause.
EventsPause(s) ==
  /\ state[s] = "active" /\ queue[s] = << >> /\ Dropped(s)
  /\ UNCHANGED serverVars

EndOfEvents(s) ==
  /\ queue[s] = << >>
  /\ Dropped(s)
  /\ Move(s, {"active"}, "leaving")
  /\ UNCHANGED <<vars, conn, hub, room, view, queue, total_ws_connections, lost>>

\* The client has gone, or an event cannot be sent.
ClientEnds(s) ==
  /\ Move(s, {"active"}, "leaving")
  /\ UNCHANGED <<vars, conn, hub, room, view, queue, total_ws_connections, lost>>

\* Mutant of Deregister: the session stays in the hub.
LeaveHubAlone(s) ==
  /\ Move(s, {"leaving"}, "left")
  /\ UNCHANGED <<vars, conn, hub, room, view, queue, total_ws_connections, lost>>

Deregister(s) ==
  /\ HubFree
  /\ Move(s, {"leaving"}, "left")
  /\ hub' = hub \ {<<room[s], s>>}
  /\ UNCHANGED <<vars, conn, room, view, queue, total_ws_connections, lost>>

\* Mutant of CountDown: the count only goes up.
CountForgotten(s) ==
  /\ Move(s, {"left"}, "closed")
  /\ Close(s)
  /\ UNCHANGED <<vars, conn, hub, room, total_ws_connections>>

CountDown(s) ==
  /\ Move(s, {"left"}, "closed")
  /\ total_ws_connections' = IF total_ws_connections = 0 THEN 0 ELSE total_ws_connections - 1
  /\ Close(s)
  /\ UNCHANGED <<vars, conn, hub, room>>

Session(s) ==
  \/ TakeSnapshot(s) \/ SendAuthOk(s) \/ Register(s) \/ CountUp(s) \/ Deliver(s)
  \/ Stall(s) \/ EndOfEvents(s) \/ ClientEnds(s) \/ Deregister(s) \/ CountDown(s)

-----------------------------------------------------------------------------
ServerInit ==
  /\ Init
  /\ conn = [c \in Connections |-> Idle]
  /\ hub = {}
  /\ state = [s \in Sessions |-> "new"]
  /\ room = [s \in Sessions |-> 0]
  /\ view = [s \in Sessions |-> NoValues]
  /\ queue = [s \in Sessions |-> << >>]
  /\ total_ws_connections = 0
  /\ lost = [s \in Sessions |-> {}]

ServerNext ==
  \/ \E c \in Connections : Connection(c)
  \/ \E s \in Sessions : Session(s)

ServerSpec == ServerInit /\ [][ServerNext]_serverVars

\* The runtime polls a session that has an event or has lost its sender, and the
\* hub's mutex is fair.  Nothing is assumed of the controllers, nor of a client: it
\* may stay for ever, and it may never take what it is sent.
Fairness ==
  \A s \in Sessions :
    /\ WF_serverVars(CountUp(s))
    /\ WF_serverVars(Deliver(s))
    /\ WF_serverVars(EndOfEvents(s))
    /\ WF_serverVars(Deregister(s))
    /\ WF_serverVars(CountDown(s))

FairServerSpec == ServerSpec /\ Fairness

-----------------------------------------------------------------------------
(* Properties *)

ServerTypeOK ==
  /\ TypeOK
  /\ hub \subseteq (RoomIds \X Sessions)
  /\ state \in [Sessions -> {"new", "snapshot", "accepted", "refused", "registered",
                             "active", "stalled", "leaving", "left", "closed"}]
  /\ room \in [Sessions -> 0..MaxRooms]
  /\ view \in [Sessions -> [FragmentIds -> Values \cup {Absent}]]
  /\ \A s \in Sessions : Len(queue[s]) <= MaxPending
  /\ total_ws_connections \in Nat
  /\ lost \in [Sessions -> SUBSET FragmentIds]
  /\ \A c \in Connections :
       /\ conn[c].pc \in {"idle", "respond", "publish"}
       /\ Cardinality(conn[c].updates) <= 1
       /\ conn[c].deleted \subseteq RoomIds

Quiet == \A c \in Connections : conn[c].pc = "idle"

\* A client that is still served shows the room as it is once no change is on
\* its way: for every fragment it may see (but WholeRoom, of whose value no
\* event tells), its snapshot with the events sent
\* and queued gives the value in the store, also when transactions were
\* committed in between.  A client that could not be reached is dropped, never
\* left behind.  The exceptions are the fragments in lost: an event broadcast
\* between the snapshot and the registration of the session, refused by the
\* room's rate limit or given up with a reply that could not be written, the
\* writes of an aborted transaction, and those of one that was open when the
\* snapshot was taken.  With one controller.
ReplicaUpToDate ==
  \A s \in Sessions :
    /\ Quiet
    /\ state[s] \in {"registered", "active", "stalled"}
    /\ ~Dropped(s)
    /\ room[s] \in Live
    /\ ~rooms[room[s]].tx_open
    => \A f \in Visible(s) \ (lost[s] \cup {WholeRoom}) :
         Apply(view[s], queue[s])[f] = rooms[room[s]].fragments[f].value

Announcing == UNION {conn[c].updates : c \in Connections}
Queued == UNION {{queue[s][i] : i \in DOMAIN queue[s]} : s \in Sessions}

\* The events that are on their way to clients, or queued for them.
Told == Announcing \cup Queued

\* Several controllers' changes may be broadcast in another order than they were
\* applied (main.rs:605-626); a client can tell by their counters, as long as
\* there are no transactions: no event about a fragment, on its way or queued,
\* is ahead of the version the fragment has, the one with that version tells its
\* value, and two with one counter tell the same.
CountersTellTheOrder ==
  \A u \in Told :
    u.fragment # WholeRoom =>
      /\ u.room_id \in Live =>
           LET entry == rooms[u.room_id].fragments[u.fragment] IN
           /\ u.room_counter <= entry.key_version
           /\ u.room_counter = entry.key_version => u.value = entry.value
      /\ \A w \in Told :
           /\ w.room_id = u.room_id /\ w.fragment = u.fragment
           /\ w.room_counter = u.room_counter
           => w.value = u.value

\* The hub holds no client whose session is over or has another room, whatever
\* the order in which clients leave, are dropped and rooms are deleted; and no
\* room has more clients than it may.
HubHoldsSessions ==
  /\ \A r \in RoomIds : \A s \in Clients(r) :
       room[s] = r /\ state[s] \in {"registered", "active", "stalled", "leaving"}
  /\ \A r \in RoomIds : Cardinality(Clients(r)) <= MaxClients

\* Of the containers a session was not granted its client gets nothing with its
\* snapshot, and later nothing but the events in a container that is itself
\* called "*", which broadcast_update lets through to everyone (ws.rs:109).
OnlyGrantedReach ==
  \A s \in Sessions :
    /\ \A f \in FragmentIds \ Visible(s) :
         f[1] # Star \/ state[s] \in {"snapshot", "accepted"} => view[s][f] = Absent
    /\ \A i \in DOMAIN queue[s] :
         queue[s][i].fragment \in Visible(s) \/ queue[s][i].fragment[1] = Star

\* ws_connections counts the sessions between their registration and the end of
\* their clean-up, and is back at zero when all have gone.
ConnectionsCounted ==
  total_ws_connections =
    Cardinality({s \in Sessions : state[s] \in {"active", "stalled", "leaving", "left"}})

\* A client dropped from the hub (limit, full queue, room deleted) is not left
\* hanging: its session drains the queue and closes.  No send has a time limit, so
\* this holds for clients that take what they are sent (ws.rs:411), and as long as
\* none stops at its refusal, which is sent under the hub's mutex (ws.rs:361-373)
\* and then keeps everyone from it.
DroppedSessionsClose ==
  \A s \in Sessions :
    state[s] = "active" /\ Dropped(s) ~> state[s] \in {"closed", "stalled"} \/ ~HubFree

\* The client protocol says of an update that room_counter is the version of
\* the room after the change: what it tells has been applied by then.
UpdatesAreApplied ==
  \A c \in Connections : \A u \in conn[c].updates :
    u.room_id \in Live /\ u.fragment # WholeRoom =>
      rooms[u.room_id].fragments[u.fragment].key_version >= u.room_counter
=============================================================================
