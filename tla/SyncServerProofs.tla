-------------------------- MODULE SyncServerProofs --------------------------
(***************************************************************************)
(* The hub and the sessions for every number of connections, sessions,     *)
(* rooms and clients of a room, and queues of every length.  A command     *)
(* connection only takes clients out of the hub and appends events to      *)
(* queues; a session changes its own state and its own pair in the hub.    *)
(* With one connection that sends commands, what a queue is still to bring *)
(* is what its session's copy of the room still lacks; with any number, and *)
(* without transactions, the counters of events tell their order.          *)
(***************************************************************************)
EXTENDS SyncServer, RoomStoreProofs, FiniteSetTheorems

-----------------------------------------------------------------------------
(* Types *)

Event ==
  [room_id : RoomIds, fragment : FragmentIds \cup {WholeRoom},
   value : Values \cup {Absent}, room_counter : Nat]

States == {"new", "snapshot", "accepted", "refused", "registered", "active", "stalled",
           "leaving", "left", "closed"}

AtMostOne(updates) == updates = {} \/ \E u \in Event : updates = {u}

ConnectionState ==
  [pc : {"idle", "respond", "publish"}, updates : SUBSET Event, deleted : SUBSET RoomIds]

\* ServerTypeOK with the types of the events.
ServerTypes ==
  /\ TypeOK
  /\ hub \subseteq RoomIds \X Sessions
  /\ state \in [Sessions -> States]
  /\ room \in [Sessions -> 0..MaxRooms]
  /\ \A s \in Sessions : state[s] \notin {"new", "closed"} => room[s] \in RoomIds
  /\ view \in [Sessions -> [FragmentIds -> Values \cup {Absent}]]
  /\ queue \in [Sessions -> Seq(Event)]
  /\ \A s \in Sessions : Len(queue[s]) <= MaxPending
  /\ total_ws_connections \in Nat
  /\ lost \in [Sessions -> SUBSET FragmentIds]
  /\ conn \in [Connections -> ConnectionState]
  /\ \A c \in Connections : AtMostOne(conn[c].updates)

LEMMA TypesSuffice == ServerTypes => ServerTypeOK
<1> SUFFICES ASSUME ServerTypes PROVE ServerTypeOK
  OBVIOUS
<1>1. ASSUME NEW c \in Connections
      PROVE  /\ conn[c].pc \in {"idle", "respond", "publish"}
             /\ Cardinality(conn[c].updates) <= 1
             /\ conn[c].deleted \subseteq RoomIds
  <2>1. conn[c] \in ConnectionState /\ AtMostOne(conn[c].updates)
    BY DEF ServerTypes
  <2>2. Cardinality(conn[c].updates) <= 1
    <3>1. conn[c].updates = {} \/ \E u \in Event : conn[c].updates = {u}
      BY <2>1 DEF AtMostOne
    <3>2. Cardinality(conn[c].updates) = 0 \/ Cardinality(conn[c].updates) = 1
      BY <3>1, FS_EmptySet, FS_Singleton, Zenon
    <3> QED BY <3>2
  <2> QED BY <2>1, <2>2 DEF ConnectionState
<1> QED BY <1>1 DEF ServerTypes, ServerTypeOK, States

LEMMA InitTypes == ServerInit => ServerTypes
<1> SUFFICES ASSUME ServerInit PROVE ServerTypes
  OBVIOUS
<1> USE DEF ServerInit
<1>1. TypeOK
  BY InitType
<1>2. /\ hub \subseteq RoomIds \X Sessions
      /\ state \in [Sessions -> States]
      /\ \A s \in Sessions : state[s] \in {"new", "closed"}
      /\ total_ws_connections \in Nat
      /\ lost \in [Sessions -> SUBSET FragmentIds]
  BY DEF States
<1>3. room \in [Sessions -> 0..MaxRooms]
  BY BoundAssumption
<1>4. view \in [Sessions -> [FragmentIds -> Values \cup {Absent}]]
  BY DEF NoValues
<1>5. queue \in [Sessions -> Seq(Event)] /\ \A s \in Sessions : Len(queue[s]) <= MaxPending
  BY SessionAssumption
<1>6. conn \in [Connections -> ConnectionState] /\ \A c \in Connections : AtMostOne(conn[c].updates)
  BY DEF Idle, ConnectionState, AtMostOne
<1> QED BY <1>1, <1>2, <1>3, <1>4, <1>5, <1>6 DEF ServerTypes

-----------------------------------------------------------------------------
(* What a command connection does *)

Commands(c) == Create(c) \/ Delete(c) \/ Write(c) \/ Transact(c) \/ AnswerOnly(c)

\* A command is a step of the store and leaves hub and sessions alone.
LEMMA CommandStep ==
  ASSUME NEW c \in Connections, Commands(c)
  PROVE  [Next]_vars /\ UNCHANGED <<hub, sessionVars>>
<1>1. CASE Create(c)
  BY <1>1 DEF Create, Finish, Next
<1>2. CASE Delete(c)
  BY <1>2 DEF Delete, Finish, Next
<1>3. CASE Write(c)
  <2>1. PICK r \in RoomIds, f \in FragmentIds :
          /\ (\E v \in Values : Set(r, f[1], f[2], v)) \/ Del(r, f[1], f[2])
          /\ UNCHANGED <<hub, sessionVars>>
    BY <1>3 DEF Write, Finish
  <2>2. f[1] \in Containers /\ f[2] \in Keys
    BY DEF FragmentIds
  <2> QED BY <2>1, <2>2 DEF Next
<1>4. CASE Transact(c)
  BY <1>4 DEF Transact, Finish, Next
<1>5. CASE AnswerOnly(c)
  BY <1>5 DEF AnswerOnly, Finish
<1> QED BY <1>1, <1>2, <1>3, <1>4, <1>5 DEF Commands

LEMMA ConnectionStep ==
  ASSUME NEW c \in Connections, Connection(c)
  PROVE  /\ [Next]_vars
         /\ UNCHANGED <<state, room, view, total_ws_connections>>
         /\ hub' \subseteq hub
<1>1. CASE Commands(c)
  BY <1>1, CommandStep DEF sessionVars
<1>2. CASE Respond(c)
  BY <1>2 DEF Respond, sessionVars
<1>3. CASE Cleanup(c)
  BY <1>3 DEF Cleanup, sessionVars
<1>4. CASE Broadcast(c)
  BY <1>4 DEF Broadcast, BroadcastUpdate
<1> QED BY <1>1, <1>2, <1>3, <1>4 DEF Connection, Commands

\* An event goes to sessions it concerns and that have room for it.
LEMMA ConnectionQueues ==
  ASSUME ServerTypes, NEW c \in Connections, Connection(c)
  PROVE  /\ DOMAIN queue' = Sessions
         /\ \A s \in Sessions :
              \/ queue'[s] = queue[s]
              \/ \E u \in conn[c].updates :
                   /\ Concerns(u, s) /\ Len(queue[s]) < MaxPending
                   /\ queue'[s] = Append(queue[s], u)
         /\ queue' = [s \in Sessions |-> queue'[s]]
<1>0. queue = [s \in Sessions |-> queue[s]] /\ \A s \in Sessions : Len(queue[s]) \in Nat
  BY DEF ServerTypes
<1>1. CASE UNCHANGED queue
  BY <1>0, <1>1
<1>2. CASE \E u \in conn[c].updates : BroadcastUpdate(u)
  <2>1. PICK u \in conn[c].updates : BroadcastUpdate(u)
    BY <1>2
  <2>2. PICK reached \in SUBSET Sessions :
          /\ \A s \in reached : Concerns(u, s) /\ ~ (Len(queue[s]) >= MaxPending)
          /\ queue' = [s \in Sessions |->
                         IF s \in reached THEN Append(queue[s], u) ELSE queue[s]]
    BY <2>1 DEF BroadcastUpdate, Clients
  <2>3. DOMAIN queue' = Sessions /\ queue' = [s \in Sessions |-> queue'[s]]
    BY <2>2
  <2>4. ASSUME NEW s \in Sessions
        PROVE  \/ queue'[s] = queue[s]
               \/ \E v \in conn[c].updates :
                    /\ Concerns(v, s) /\ Len(queue[s]) < MaxPending
                    /\ queue'[s] = Append(queue[s], v)
    <3>1. CASE s \in reached
      <4>1. Len(queue[s]) < MaxPending
        <5>1. ~ (Len(queue[s]) >= MaxPending)
          BY <2>2, <3>1, Zenon
        <5>2. Len(queue[s]) \in Nat
          BY <1>0
        <5> QED BY <5>1, <5>2, SessionAssumption
      <4>2. Concerns(u, s) /\ queue'[s] = Append(queue[s], u)
        BY <2>2, <3>1
      <4> QED BY <4>1, <4>2
    <3>2. CASE s \notin reached
      BY <2>2, <3>2
    <3> QED BY <3>1, <3>2
  <2> QED BY <2>3, <2>4, Zenon
<1>3. UNCHANGED queue \/ \E u \in conn[c].updates : BroadcastUpdate(u)
  <2>1. CASE Commands(c)
    BY <2>1, CommandStep DEF sessionVars
  <2>2. CASE Respond(c)
    BY <2>2 DEF Respond, sessionVars
  <2>3. CASE Cleanup(c)
    BY <2>3 DEF Cleanup, sessionVars
  <2>4. CASE Broadcast(c)
    BY <2>4 DEF Broadcast
  <2> QED BY <2>1, <2>2, <2>3, <2>4 DEF Connection, Commands
<1> QED BY <1>1, <1>2, <1>3

-----------------------------------------------------------------------------
(* What a session does *)

\* The steps of a session through its states, with what they do to the hub, the
\* count of sessions and the room of the session.
Path(s, to) ==
  \/ /\ state[s] = "new" /\ UNCHANGED <<hub, total_ws_connections>>
     /\ to = "snapshot" /\ (\E r \in RoomIds : room' = [room EXCEPT ![s] = r])
  \/ /\ UNCHANGED <<room, hub, total_ws_connections>>
     /\ \/ to = state[s]
        \/ state[s] = "new" /\ to = "closed"
        \/ state[s] = "snapshot" /\ to \in {"accepted", "closed"}
        \/ state[s] = "accepted" /\ to \in {"closed", "refused"}
        \/ state[s] = "active" /\ to \in {"leaving", "stalled"}
  \/ /\ state[s] = "accepted" /\ to = "registered"
     /\ hub' = hub \cup {<<room[s], s>>} /\ Cardinality(Clients(room[s])) < MaxClients
     /\ UNCHANGED <<room, total_ws_connections>>
  \/ /\ state[s] = "registered" /\ to = "active" /\ UNCHANGED <<room, hub>>
     /\ total_ws_connections' = total_ws_connections + 1
  \/ /\ state[s] = "leaving" /\ to = "left" /\ hub' = hub \ {<<room[s], s>>}
     /\ UNCHANGED <<room, total_ws_connections>>
  \/ /\ state[s] = "left" /\ to = "closed" /\ UNCHANGED <<room, hub>>
     /\ total_ws_connections' =
          IF total_ws_connections = 0 THEN 0 ELSE total_ws_connections - 1

LEMMA SessionStep ==
  ASSUME ServerTypes, NEW s \in Sessions, Session(s)
  PROVE  /\ UNCHANGED <<vars, conn>>
         /\ \E to \in States : state' = [state EXCEPT ![s] = to] /\ Path(s, to)
<1>1. CASE TakeSnapshot(s)
  BY <1>1 DEF TakeSnapshot, Move, Path, States
<1>2. CASE SendAuthOk(s)
  BY <1>2 DEF SendAuthOk, Move, Path, States
<1>3. CASE Register(s)
  BY <1>3 DEF Register, Move, Path, States
<1>4. CASE CountUp(s)
  BY <1>4 DEF CountUp, Move, Path, States
<1>5. CASE Deliver(s)
  BY <1>5 DEF Deliver, Move, Path, States
<1>6. CASE Stall(s) \/ EndOfEvents(s) \/ ClientEnds(s)
  BY <1>6 DEF Stall, EndOfEvents, ClientEnds, Move, Path, States
<1>7. CASE Deregister(s)
  BY <1>7 DEF Deregister, Move, Path, States
<1>8. CASE CountDown(s)
  BY <1>8 DEF CountDown, Move, Path, States
<1> QED BY <1>1, <1>2, <1>3, <1>4, <1>5, <1>6, <1>7, <1>8 DEF Session

\* What a session step does to the view of its client and its queue, and where
\* that leaves the session.
LEMMA SessionData ==
  ASSUME ServerTypes, NEW s \in Sessions, Session(s)
  PROVE  \/ /\ \E r \in Live : view' = [view EXCEPT ![s] = SnapshotFor(s, r)]
            /\ UNCHANGED queue
         \/ /\ UNCHANGED <<view, queue>>
            /\ state'[s] \in {"snapshot", "accepted"} => state[s] \in {"snapshot", "accepted"}
         \/ /\ view' = [view EXCEPT ![s] = NoValues]
            /\ queue' = [queue EXCEPT ![s] = << >>]
         \/ /\ queue[s] # << >>
            /\ state'[s] \notin {"snapshot", "accepted"}
            /\ view' = [view EXCEPT ![s] = Apply(view[s], <<Head(queue[s])>>)]
            /\ queue' = [queue EXCEPT ![s] = Tail(queue[s])]
<1>0. state \in [Sessions -> States]
  BY DEF ServerTypes
<1> USE <1>0 DEF Move
<1>1. CASE TakeSnapshot(s)
  BY <1>1 DEF TakeSnapshot
<1>2. CASE SendAuthOk(s)
  BY <1>2 DEF SendAuthOk, Close
<1>3. CASE Register(s)
  BY <1>3 DEF Register, Close
<1>4. CASE CountUp(s)
  BY <1>4 DEF CountUp
<1>5. CASE Deliver(s)
  BY <1>5 DEF Deliver
<1>6. CASE Stall(s) \/ EndOfEvents(s) \/ ClientEnds(s)
  BY <1>6 DEF Stall, EndOfEvents, ClientEnds
<1>7. CASE Deregister(s)
  BY <1>7 DEF Deregister
<1>8. CASE CountDown(s)
  BY <1>8 DEF CountDown, Close
<1> QED BY <1>1, <1>2, <1>3, <1>4, <1>5, <1>6, <1>7, <1>8 DEF Session

-----------------------------------------------------------------------------
(* The hub and the count *)

Counted == {s \in Sessions : state[s] \in {"active", "stalled", "leaving", "left"}}

\* The clients of a room, and the sessions counted, are finitely many because
\* they come one by one.
HubInv ==
  /\ ServerTypes
  /\ \A p \in hub :
       room[p[2]] = p[1] /\ state[p[2]] \in {"registered", "active", "stalled", "leaving"}
  /\ \A r \in RoomIds :
       IsFiniteSet(Clients(r)) /\ Cardinality(Clients(r)) <= MaxClients
  /\ IsFiniteSet(Counted) /\ total_ws_connections = Cardinality(Counted)

\* Clients may only leave.
LEMMA FewerClients ==
  ASSUME HubInv, hub' \subseteq hub, NEW r \in RoomIds
  PROVE  IsFiniteSet(Clients(r)') /\ Cardinality(Clients(r)') <= MaxClients
<1>1. Clients(r)' \subseteq Clients(r)
  BY DEF Clients
<1>2. /\ IsFiniteSet(Clients(r)') /\ IsFiniteSet(Clients(r))
      /\ Cardinality(Clients(r)') <= Cardinality(Clients(r))
      /\ Cardinality(Clients(r)) <= MaxClients
  BY <1>1, FS_Subset DEF HubInv
<1>3. Cardinality(Clients(r)') \in Nat /\ Cardinality(Clients(r)) \in Nat
  BY <1>2, FS_CardinalityType
<1> QED BY <1>2, <1>3, SessionAssumption

\* A client more, of a room with fewer than MaxClients.
LEMMA OneMoreClient ==
  ASSUME HubInv, NEW s \in Sessions, NEW q \in RoomIds, NEW r \in RoomIds,
         hub' = hub \cup {<<q, s>>}, Cardinality(Clients(q)) < MaxClients
  PROVE  IsFiniteSet(Clients(r)') /\ Cardinality(Clients(r)') <= MaxClients
<1>1. IsFiniteSet(Clients(r)) /\ Cardinality(Clients(r)) <= MaxClients
  BY DEF HubInv
<1>2. CASE r = q
  <2>1. Clients(r)' = Clients(r) \cup {s}
    BY <1>2 DEF Clients
  <2>2. /\ IsFiniteSet(Clients(r)')
        /\ \/ Cardinality(Clients(r)') = Cardinality(Clients(r))
           \/ Cardinality(Clients(r)') = Cardinality(Clients(r)) + 1
    BY <2>1, <1>1, FS_AddElement
  <2>3. Cardinality(Clients(r)) \in Nat
    BY <1>1, FS_CardinalityType
  <2> QED BY <2>2, <2>3, <1>2, SessionAssumption
<1>3. CASE r # q
  <2>1. Clients(r)' = Clients(r)
    BY <1>3 DEF Clients
  <2> QED BY <2>1, <1>1
<1> QED BY <1>2, <1>3

LEMMA ConnectionKeepsHub ==
  ASSUME HubInv, ServerTypes', NEW c \in Connections, Connection(c)
  PROVE  HubInv'
<1>1. UNCHANGED <<state, room, total_ws_connections>> /\ hub' \subseteq hub
  BY ConnectionStep
<1>2. \A r \in RoomIds : IsFiniteSet(Clients(r)') /\ Cardinality(Clients(r)') <= MaxClients
  BY <1>1, FewerClients
<1>3. Counted' = Counted
  BY <1>1 DEF Counted
<1> QED BY <1>1, <1>2, <1>3 DEF HubInv

\* A session in the hub has the room and one of the states it has there.
LEMMA SessionKeepsPairs ==
  ASSUME HubInv, NEW s \in Sessions, NEW to \in States,
         state' = [state EXCEPT ![s] = to], Path(s, to), NEW p \in hub'
  PROVE  room'[p[2]] = p[1] /\ state'[p[2]] \in {"registered", "active", "stalled", "leaving"}
<1>1. hub \subseteq RoomIds \X Sessions /\ state \in [Sessions -> States]
      /\ room \in [Sessions -> 0..MaxRooms] /\ room[s] \in 0..MaxRooms
  BY DEF HubInv, ServerTypes
<1>2. CASE p \in hub /\ p[2] # s
  <2>1. room'[p[2]] = room[p[2]] /\ state'[p[2]] = state[p[2]]
    BY <1>1, <1>2 DEF Path
  <2> QED BY <2>1, <1>2 DEF HubInv
<1>3. CASE p \in hub /\ p[2] = s
  <2>1. room[s] = p[1] /\ state[s] \in {"registered", "active", "stalled", "leaving"}
    BY <1>3 DEF HubInv
  <2>2. p = <<room[s], s>>
    BY <2>1, <1>1, <1>3
  <2>3. state[s] = "leaving" => to = "leaving"
    BY <2>2 DEF Path
  <2>4. room' = room /\ to \in {"registered", "active", "stalled", "leaving"}
    BY <2>1, <2>3 DEF Path
  <2>5. state'[s] = to
    BY <1>1
  <2> QED BY <2>1, <2>4, <2>5, <1>3
<1>4. CASE p \notin hub
  <2>1. p = <<room[s], s>> /\ to = "registered" /\ room' = room
    BY <1>4 DEF Path
  <2> QED BY <2>1, <1>1
<1> QED BY <1>2, <1>3, <1>4

LEMMA SessionKeepsCount ==
  ASSUME HubInv, NEW s \in Sessions, NEW to \in States,
         state' = [state EXCEPT ![s] = to], Path(s, to)
  PROVE  IsFiniteSet(Counted') /\ total_ws_connections' = Cardinality(Counted')
<1>1. /\ state \in [Sessions -> States] /\ IsFiniteSet(Counted)
      /\ total_ws_connections = Cardinality(Counted) /\ Cardinality(Counted) \in Nat
  BY FS_CardinalityType DEF HubInv, ServerTypes
<1>2. /\ \A t \in Sessions \ {s} : state'[t] = state[t]
      /\ state'[s] = to
  BY <1>1
<1>3. CASE to = "active" /\ state[s] = "registered"
  <2>1. Counted' = Counted \cup {s} /\ s \notin Counted
    BY <1>2, <1>3 DEF Counted
  <2>2. total_ws_connections' = total_ws_connections + 1
    BY <1>3 DEF Path
  <2> QED BY <2>1, <2>2, <1>1, FS_AddElement
<1>4. CASE to = "closed" /\ state[s] = "left"
  <2>1. Counted' = Counted \ {s} /\ s \in Counted
    BY <1>2, <1>4 DEF Counted
  <2>2. IsFiniteSet(Counted') /\ Cardinality(Counted') = Cardinality(Counted) - 1
    BY <2>1, <1>1, FS_RemoveElement
  <2>3. Cardinality(Counted') \in Nat
    BY <2>2, FS_CardinalityType
  <2>4. total_ws_connections' = total_ws_connections - 1
    <3>1. total_ws_connections # 0
      BY <2>2, <2>3, <1>1
    <3> QED BY <3>1, <1>4 DEF Path
  <2> QED BY <2>2, <2>4, <1>1
<1>5. CASE ~ (to = "active" /\ state[s] = "registered") /\ ~ (to = "closed" /\ state[s] = "left")
  <2>1. total_ws_connections' = total_ws_connections
    BY <1>5 DEF Path
  <2>2. to \in {"active", "stalled", "leaving", "left"}
          <=> state[s] \in {"active", "stalled", "leaving", "left"}
    BY <1>5 DEF Path
  <2>3. Counted' = Counted
    BY <2>2, <1>2 DEF Counted
  <2> QED BY <2>1, <2>3, <1>1
<1> QED BY <1>3, <1>4, <1>5

LEMMA SessionKeepsHub ==
  ASSUME HubInv, ServerTypes', NEW s \in Sessions, Session(s)
  PROVE  HubInv'
<1>1. ServerTypes
  BY DEF HubInv
<1>2. PICK to \in States : state' = [state EXCEPT ![s] = to] /\ Path(s, to)
  BY <1>1, SessionStep
<1>3. \A p \in hub' :
        room'[p[2]] = p[1] /\ state'[p[2]] \in {"registered", "active", "stalled", "leaving"}
  BY <1>2, SessionKeepsPairs
<1>4. IsFiniteSet(Counted') /\ total_ws_connections' = Cardinality(Counted')
  BY <1>2, SessionKeepsCount
<1>5. ASSUME NEW r \in RoomIds
      PROVE  IsFiniteSet(Clients(r)') /\ Cardinality(Clients(r)') <= MaxClients
  <2>1. CASE hub' \subseteq hub
    BY <2>1, FewerClients
  <2>2. CASE ~ (hub' \subseteq hub)
    <3>1. /\ state[s] = "accepted" /\ hub' = hub \cup {<<room[s], s>>}
          /\ Cardinality(Clients(room[s])) < MaxClients
      BY <1>2, <2>2 DEF Path
    <3>2. room[s] \in RoomIds
      BY <3>1, <1>1 DEF ServerTypes
    <3> QED BY <3>1, <3>2, OneMoreClient
  <2> QED BY <2>1, <2>2
<1> QED BY <1>3, <1>4, <1>5 DEF HubInv

-----------------------------------------------------------------------------
(* The types, step by step *)

\* The event of a change: the counter is the one of the room afterwards.
LEMMA UpdateType ==
  ASSUME TypeOK', NEW r \in RoomIds, r \in Live',
         NEW f \in FragmentIds \cup {WholeRoom}, NEW v \in Values \cup {Absent}
  PROVE  Update(r, f, v) \in Event
<1>1. rooms'[r].room_counter \in Nat
  BY DEF TypeOK, Live, RoomState
<1> QED BY <1>1 DEF Update, Event

LEMMA FinishType ==
  ASSUME ServerTypes, NEW c \in Connections, NEW updates \in SUBSET Event,
         AtMostOne(updates), NEW deleted \in SUBSET RoomIds, Finish(c, updates, deleted)
  PROVE  /\ conn' \in [Connections -> ConnectionState]
         /\ \A d \in Connections : AtMostOne(conn'[d].updates)
<1> DEFINE done == [pc |-> "respond", updates |-> updates, deleted |-> deleted]
<1>1. conn \in [Connections -> ConnectionState] /\ \A d \in Connections : AtMostOne(conn[d].updates)
  BY DEF ServerTypes
<1>2. conn' = [conn EXCEPT ![c] = done]
  BY DEF Finish
<1>3. done \in ConnectionState /\ done.updates = updates
  BY DEF ConnectionState
<1> HIDE DEF done
<1>4. conn' \in [Connections -> ConnectionState]
  BY <1>1, <1>2, <1>3
<1>5. ASSUME NEW d \in Connections PROVE AtMostOne(conn'[d].updates)
  BY <1>1, <1>2, <1>3
<1> QED BY <1>4, <1>5

LEMMA CommandConnType ==
  ASSUME ServerTypes, TypeOK', NEW c \in Connections, Commands(c)
  PROVE  /\ conn' \in [Connections -> ConnectionState]
         /\ \A d \in Connections : AtMostOne(conn'[d].updates)
<1>1. CASE Finish(c, {}, {})
  BY <1>1, FinishType DEF AtMostOne
<1>2. CASE Delete(c)
  <2>1. PICK r \in RoomIds, quoted \in BOOLEAN : Finish(c, {}, IF quoted THEN {} ELSE {r})
    BY <1>2 DEF Delete
  <2> QED BY <2>1, FinishType DEF AtMostOne
<1>3. ASSUME NEW r \in RoomIds, r \in Live', NEW f \in FragmentIds \cup {WholeRoom},
             NEW v \in Values \cup {Absent}, Finish(c, {Update(r, f, v)}, {})
      PROVE  /\ conn' \in [Connections -> ConnectionState]
             /\ \A d \in Connections : AtMostOne(conn'[d].updates)
  <2>1. Update(r, f, v) \in Event
    BY <1>3, UpdateType
  <2>2. AtMostOne({Update(r, f, v)})
    BY <2>1 DEF AtMostOne
  <2> QED BY <1>3, <2>1, <2>2, FinishType
<1>4. \A r : rooms' = [rooms EXCEPT ![r] = rooms'[r]] => Live' = Live
  BY DEF Live, ServerTypes, TypeOK
<1>5. CASE Write(c)
  <2>1. PICK r \in RoomIds, f \in FragmentIds :
          \/ \E v \in Values : Set(r, f[1], f[2], v) /\ Finish(c, {Update(r, f, v)}, {})
          \/ Del(r, f[1], f[2]) /\ Finish(c, {Update(r, f, Null)}, {})
    BY <1>5 DEF Write
  <2>2. r \in Live'
    BY <2>1 DEF Set, CanSet, Del, CanDel, WriteOrBuffer, Live, ServerTypes, TypeOK
  <2> QED BY <2>1, <2>2, <1>3, ValueAssumption
<1>6. CASE Transact(c)
  <2>1. PICK r \in RoomIds :
          \/ Finish(c, {}, {})
          \/ TxEnd(r) /\ Finish(c, {Update(r, WholeRoom, Absent)}, {})
    BY <1>6 DEF Transact
  <2>2. TxEnd(r) => r \in Live'
    BY DEF TxEnd, CanTxEnd, Live, ServerTypes, TypeOK
  <2> QED BY <2>1, <2>2, <1>1, <1>3
<1> QED BY <1>1, <1>2, <1>5, <1>6 DEF Commands, Create, AnswerOnly

LEMMA ConnectionConnType ==
  ASSUME ServerTypes, TypeOK', NEW c \in Connections, Connection(c)
  PROVE  /\ conn' \in [Connections -> ConnectionState]
         /\ \A d \in Connections : AtMostOne(conn'[d].updates)
<1>1. conn \in [Connections -> ConnectionState] /\ \A d \in Connections : AtMostOne(conn[d].updates)
  BY DEF ServerTypes
<1>2. CASE Commands(c)
  BY <1>2, CommandConnType
<1>3. CASE conn' = [conn EXCEPT ![c] = Idle]
  <2>1. Idle \in ConnectionState /\ AtMostOne(Idle.updates)
    BY DEF Idle, ConnectionState, AtMostOne
  <2>2. conn' \in [Connections -> ConnectionState]
    BY <1>1, <1>3, <2>1
  <2>3. ASSUME NEW d \in Connections PROVE AtMostOne(conn'[d].updates)
    BY <1>1, <1>3, <2>1
  <2> QED BY <2>2, <2>3
<1>4. CASE conn' = [conn EXCEPT ![c].pc = "publish"]
  <2>1. conn' \in [Connections -> ConnectionState]
    BY <1>1, <1>4 DEF ConnectionState
  <2>2. ASSUME NEW d \in Connections PROVE conn'[d].updates = conn[d].updates
    BY <1>1, <1>4 DEF ConnectionState
  <2> QED BY <1>1, <2>1, <2>2
<1> QED BY <1>2, <1>3, <1>4 DEF Connection, Commands, Respond, Cleanup, Broadcast

LEMMA ConnectionLostType ==
  ASSUME ServerTypes, NEW c \in Connections, Connection(c)
  PROVE  lost' \in [Sessions -> SUBSET FragmentIds]
<1>1. lost \in [Sessions -> SUBSET FragmentIds]
  BY DEF ServerTypes
<1>2. ASSUME NEW r, NEW fragments \in SUBSET FragmentIds, PassBy(r, fragments)
      PROVE  lost' \in [Sessions -> SUBSET FragmentIds]
  BY <1>1, <1>2 DEF PassBy
<1>3. /\ \A r : Buffered(r) \subseteq FragmentIds
      /\ \A u : Touched(u) \subseteq FragmentIds
  BY DEF Buffered, Touched
<1>4. ASSUME NEW u, BroadcastUpdate(u)
      PROVE  lost' \in [Sessions -> SUBSET FragmentIds]
  BY <1>1, <1>3, <1>4 DEF BroadcastUpdate
<1>5. CASE UNCHANGED lost
  BY <1>1, <1>5
<1>6. CASE Transact(c)
  BY <1>2, <1>3, <1>5, <1>6 DEF Transact
<1>7. CASE Respond(c)
  BY <1>2, <1>3, <1>5, <1>7 DEF Respond
<1>8. CASE Broadcast(c)
  BY <1>2, <1>3, <1>4, <1>8 DEF Broadcast
<1> QED BY <1>5, <1>6, <1>7, <1>8
        DEF Connection, Create, Delete, Write, AnswerOnly, Cleanup

LEMMA ConnectionKeepsTypes ==
  ASSUME ServerTypes, NEW c \in Connections, Connection(c)
  PROVE  ServerTypes'
<1>1. TypeOK'
  BY ConnectionStep, NextType DEF ServerTypes
<1>2. /\ UNCHANGED <<state, room, view, total_ws_connections>>
      /\ hub' \subseteq hub
  BY ConnectionStep
<1>3. ASSUME NEW s \in Sessions
      PROVE  queue'[s] \in Seq(Event) /\ Len(queue'[s]) <= MaxPending
  <2>1. queue[s] \in Seq(Event) /\ Len(queue[s]) <= MaxPending
    BY DEF ServerTypes
  <2>2. CASE queue'[s] = queue[s]
    BY <2>1, <2>2
  <2>3. ASSUME NEW u \in conn[c].updates, Len(queue[s]) < MaxPending,
               queue'[s] = Append(queue[s], u)
        PROVE  queue'[s] \in Seq(Event) /\ Len(queue'[s]) <= MaxPending
    <3>1. u \in Event
      BY DEF ServerTypes, ConnectionState
    <3> QED BY <2>1, <2>3, <3>1, SessionAssumption
  <2> QED BY <2>2, <2>3, ConnectionQueues
<1>4. queue' \in [Sessions -> Seq(Event)]
  BY <1>3, ConnectionQueues
<1> QED BY <1>1, <1>2, <1>3, <1>4, ConnectionConnType, ConnectionLostType DEF ServerTypes

\* An event changes what the client shows in the fragment it is about and in no
\* other; one about WholeRoom changes nothing.
LEMMA ApplyOne ==
  ASSUME NEW e, NEW f \in FragmentIds, NEW values
  PROVE  Apply(values, <<e>>)[f] =
           IF e.fragment = f /\ f # WholeRoom THEN e.value ELSE values[f]
<1> DEFINE about == {i \in DOMAIN <<e>> : <<e>>[i].fragment = f}
<1>1. Apply(values, <<e>>)[f] =
        IF about = {} \/ f = WholeRoom THEN values[f]
        ELSE <<e>>[CHOOSE i \in about : \A j \in about : j <= i].value
  BY DEF Apply
<1>2. DOMAIN <<e>> = {1} /\ <<e>>[1] = e
  OBVIOUS
<1>3. CASE e.fragment = f /\ f # WholeRoom
  <2>1. about = {1}
    BY <1>2, <1>3
  <2>2. (CHOOSE i \in about : \A j \in about : j <= i) = 1
    BY <2>1
  <2> HIDE DEF about
  <2> QED BY <1>1, <1>2, <1>3, <2>1, <2>2
<1>4. CASE e.fragment # f
  <2>1. about = {}
    BY <1>2, <1>4
  <2> HIDE DEF about
  <2> QED BY <1>1, <1>4, <2>1
<1>5. CASE f = WholeRoom
  BY <1>1, <1>5
<1> QED BY <1>3, <1>4, <1>5

LEMMA ApplyType ==
  ASSUME NEW values, NEW events, NEW T, \A f \in FragmentIds : Apply(values, events)[f] \in T
  PROVE  Apply(values, events) \in [FragmentIds -> T]
<1> DEFINE about(f) == {i \in DOMAIN events : events[i].fragment = f}
           shown(f) == IF about(f) = {} \/ f = WholeRoom THEN values[f]
                       ELSE events[CHOOSE i \in about(f) : \A j \in about(f) : j <= i].value
<1>1. Apply(values, events) = [f \in FragmentIds |-> shown(f)]
  BY DEF Apply
<1> HIDE DEF shown
<1> QED BY <1>1

LEMMA SessionDataType ==
  ASSUME ServerTypes, NEW s \in Sessions, Session(s)
  PROVE  /\ view' \in [Sessions -> [FragmentIds -> Values \cup {Absent}]]
         /\ queue' \in [Sessions -> Seq(Event)]
         /\ \A t \in Sessions : Len(queue'[t]) <= MaxPending
<1>1. /\ view \in [Sessions -> [FragmentIds -> Values \cup {Absent}]]
      /\ queue \in [Sessions -> Seq(Event)]
      /\ \A t \in Sessions : Len(queue[t]) <= MaxPending
  BY DEF ServerTypes
<1>2. ASSUME NEW r \in Live
      PROVE  SnapshotFor(s, r) \in [FragmentIds -> Values \cup {Absent}]
  <2>1. rooms[r].fragments \in [FragmentIds -> FragmentEntry]
    BY DEF ServerTypes, TypeOK, RoomState
  <2> QED BY <2>1 DEF FragmentEntry, SnapshotFor
<1>3. NoValues \in [FragmentIds -> Values \cup {Absent}]
  BY DEF NoValues
<1>4. ASSUME queue[s] # << >>
      PROVE  /\ Apply(view[s], <<Head(queue[s])>>) \in [FragmentIds -> Values \cup {Absent}]
             /\ Tail(queue[s]) \in Seq(Event) /\ Len(Tail(queue[s])) <= MaxPending
  <2>1. queue[s] \in Seq(Event) /\ Len(queue[s]) <= MaxPending
    BY <1>1
  <2>2. Head(queue[s]) \in Event
    BY <1>4, <2>1
  <2>3. Head(queue[s]).value \in Values \cup {Absent}
    BY <2>2 DEF Event
  <2>4. \A f \in FragmentIds :
          Apply(view[s], <<Head(queue[s])>>)[f] \in Values \cup {Absent}
    BY <1>1, <2>3, ApplyOne
  <2>5. Apply(view[s], <<Head(queue[s])>>) \in [FragmentIds -> Values \cup {Absent}]
    BY <2>4, ApplyType
  <2>6. Tail(queue[s]) \in Seq(Event) /\ Len(Tail(queue[s])) <= MaxPending
    BY <1>4, <2>1, SessionAssumption
  <2> QED BY <2>5, <2>6
<1>5. << >> \in Seq(Event) /\ Len(<< >>) <= MaxPending
  BY SessionAssumption
<1>6. CASE UNCHANGED <<view, queue>>
  BY <1>1, <1>6
<1>7. ASSUME NEW r \in Live,
             view' = [view EXCEPT ![s] = SnapshotFor(s, r)],
             UNCHANGED queue
      PROVE  /\ view' \in [Sessions -> [FragmentIds -> Values \cup {Absent}]]
             /\ queue' \in [Sessions -> Seq(Event)]
             /\ \A t \in Sessions : Len(queue'[t]) <= MaxPending
  BY <1>1, <1>2, <1>7
<1>8. ASSUME NEW shown \in [FragmentIds -> Values \cup {Absent}], NEW left \in Seq(Event),
             Len(left) <= MaxPending,
             view' = [view EXCEPT ![s] = shown], queue' = [queue EXCEPT ![s] = left]
      PROVE  /\ view' \in [Sessions -> [FragmentIds -> Values \cup {Absent}]]
             /\ queue' \in [Sessions -> Seq(Event)]
             /\ \A t \in Sessions : Len(queue'[t]) <= MaxPending
  BY <1>1, <1>8
<1> QED BY <1>3, <1>4, <1>5, <1>6, <1>7, <1>8, SessionData

LEMMA SessionLostType ==
  ASSUME ServerTypes, NEW s \in Sessions, Session(s)
  PROVE  lost' \in [Sessions -> SUBSET FragmentIds]
<1>1. lost \in [Sessions -> SUBSET FragmentIds]
  BY DEF ServerTypes
<1>2. \A r : Buffered(r) \subseteq FragmentIds
  BY DEF Buffered
<1>3. UNCHANGED lost \/ \E l \in SUBSET FragmentIds : lost' = [lost EXCEPT ![s] = l]
  BY <1>2 DEF Session, TakeSnapshot, SendAuthOk, Register, CountUp, Deliver, Stall,
              EndOfEvents, ClientEnds, Deregister, CountDown, Close
<1> QED BY <1>1, <1>3

LEMMA SessionKeepsTypes ==
  ASSUME ServerTypes, NEW s \in Sessions, Session(s)
  PROVE  ServerTypes'
<1>1. PICK to \in States : state' = [state EXCEPT ![s] = to] /\ Path(s, to)
  BY SessionStep
<1>2. UNCHANGED <<vars, conn>>
  BY SessionStep
<1>3. TypeOK'
  BY <1>2, NextType DEF ServerTypes
<1>4. /\ hub \subseteq RoomIds \X Sessions /\ state \in [Sessions -> States]
      /\ room \in [Sessions -> 0..MaxRooms] /\ total_ws_connections \in Nat
      /\ \A t \in Sessions : state[t] \notin {"new", "closed"} => room[t] \in RoomIds
  BY DEF ServerTypes
<1>5. state' \in [Sessions -> States]
  BY <1>1, <1>4
<1>6. \A t \in Sessions \ {s} : state'[t] = state[t]
  BY <1>1
<1>7. state'[s] = to
  BY <1>1, <1>4
<1>8. /\ room' \in [Sessions -> 0..MaxRooms]
      /\ \A t \in Sessions : state'[t] \notin {"new", "closed"} => room'[t] \in RoomIds
  <2>1. ASSUME NEW r \in RoomIds, room' = [room EXCEPT ![s] = r]
        PROVE  /\ room' \in [Sessions -> 0..MaxRooms]
               /\ \A t \in Sessions : state'[t] \notin {"new", "closed"} => room'[t] \in RoomIds
    <3>1. r \in 0..MaxRooms
      BY BoundAssumption DEF RoomIds
    <3> QED BY <1>4, <1>6, <2>1, <3>1
  <2>2. CASE room' = room /\ (to \in {"new", "closed"} \/ state[s] \notin {"new", "closed"})
    BY <1>4, <1>6, <1>7, <2>2
  <2> QED BY <1>1, <2>1, <2>2 DEF Path
<1>9. hub' \subseteq RoomIds \X Sessions
  <2>1. state[s] = "accepted" => room[s] \in RoomIds
    BY <1>4
  <2> QED BY <1>1, <1>4, <2>1 DEF Path
<1>10. total_ws_connections' \in Nat
  BY <1>1, <1>4 DEF Path
<1>11. conn' \in [Connections -> ConnectionState] /\ \A c \in Connections : AtMostOne(conn'[c].updates)
  BY <1>2 DEF ServerTypes
<1> QED BY <1>3, <1>5, <1>8, <1>9, <1>10, <1>11, SessionDataType, SessionLostType
        DEF ServerTypes

-----------------------------------------------------------------------------
(* Grants *)

\* What a client may show that was not granted: once it is registered, the
\* fragments of a container called "*".
Shown(s, f) == f \in Visible(s) \/ (f[1] = Star /\ state[s] \notin {"snapshot", "accepted"})

Allowed(s, f) == f \in Visible(s) \/ f[1] = Star

GrantInv ==
  \A s \in Sessions :
    /\ \A f \in FragmentIds : Shown(s, f) \/ view[s][f] = Absent
    /\ \A i \in 1..Len(queue[s]) : Allowed(s, queue[s][i].fragment)

LEMMA ConnectionKeepsGrants ==
  ASSUME ServerTypes, GrantInv, NEW c \in Connections, Connection(c)
  PROVE  GrantInv'
<1>1. view' = view /\ state' = state
  BY ConnectionStep
<1>2. ASSUME NEW s \in Sessions, NEW i \in 1..Len(queue'[s])
      PROVE  Allowed(s, queue'[s][i].fragment)
  <2>1. CASE queue'[s] = queue[s]
    BY <1>2, <2>1 DEF GrantInv
  <2>2. ASSUME NEW u \in conn[c].updates, Concerns(u, s), queue'[s] = Append(queue[s], u)
        PROVE  Allowed(s, queue'[s][i].fragment)
    <3>1. queue[s] \in Seq(Event) /\ u \in Event
      BY DEF ServerTypes, ConnectionState
    <3>2. Allowed(s, u.fragment)
      BY <2>2 DEF Concerns, Allowed
    <3>3. (i \in 1..Len(queue[s]) /\ queue'[s][i] = queue[s][i]) \/ queue'[s][i] = u
      BY <1>2, <2>2, <3>1
    <3> QED BY <3>2, <3>3 DEF GrantInv
  <2> QED BY <2>1, <2>2, ConnectionQueues
<1> QED BY <1>1, <1>2 DEF GrantInv, Shown, Allowed, Visible

LEMMA SessionKeepsGrants ==
  ASSUME ServerTypes, GrantInv, NEW s \in Sessions, Session(s)
  PROVE  GrantInv'
<1> DEFINE Within(t, v, q) ==
      /\ \A f \in FragmentIds : Shown(t, f)' \/ v[f] = Absent
      /\ \A i \in 1..Len(q) : Allowed(t, q[i].fragment)
<1>1. \A t \in Sessions :
        /\ \A f \in FragmentIds : Shown(t, f) \/ view[t][f] = Absent
        /\ \A i \in 1..Len(queue[t]) : Allowed(t, queue[t][i].fragment)
  BY DEF GrantInv
<1>2. /\ view \in [Sessions -> [FragmentIds -> Values \cup {Absent}]]
      /\ queue \in [Sessions -> Seq(Event)]
  BY DEF ServerTypes
<1>3. \A t \in Sessions \ {s} : state'[t] = state[t]
  <2>1. state \in [Sessions -> States]
    BY DEF ServerTypes
  <2> QED BY <2>1, SessionStep
<1>4. \A t \in Sessions \ {s} : Within(t, view[t], queue[t])
  BY <1>1, <1>3 DEF Shown, Visible
<1>5. ASSUME NEW v, NEW q, Within(s, v, q), view' = [view EXCEPT ![s] = v],
             queue' = [queue EXCEPT ![s] = q]
      PROVE  \A t \in Sessions : Within(t, view'[t], queue'[t])
  <2> HIDE DEF Within
  <2> QED BY <1>2, <1>4, <1>5
<1>6. ASSUME UNCHANGED <<view, queue>>,
             state'[s] \in {"snapshot", "accepted"} => state[s] \in {"snapshot", "accepted"}
      PROVE  \A t \in Sessions : Within(t, view'[t], queue'[t])
  <2>1. Within(s, view[s], queue[s])
    BY <1>1, <1>6 DEF Shown, Visible
  <2> HIDE DEF Within
  <2> QED BY <1>4, <1>6, <2>1
<1>7. ASSUME NEW r \in Live, view' = [view EXCEPT ![s] = SnapshotFor(s, r)],
             UNCHANGED queue
      PROVE  \A t \in Sessions : Within(t, view'[t], queue'[t])
  <2>1. Within(s, SnapshotFor(s, r), queue[s])
    BY <1>1 DEF SnapshotFor, Shown, Visible
  <2>2. queue' = [queue EXCEPT ![s] = queue[s]]
    BY <1>2, <1>7
  <2> HIDE DEF Within
  <2> QED BY <1>5, <1>7, <2>1, <2>2
<1>8. Within(s, NoValues, << >>)
  BY DEF NoValues
<1>9. ASSUME queue[s] # << >>, state'[s] \notin {"snapshot", "accepted"}
      PROVE  Within(s, Apply(view[s], <<Head(queue[s])>>), Tail(queue[s]))
  <2>1. queue[s] \in Seq(Event)
    BY <1>2
  <2>2. Allowed(s, Head(queue[s]).fragment)
    BY <1>1, <1>9, <2>1
  <2>3. ASSUME NEW f \in FragmentIds
        PROVE  Shown(s, f)' \/ Apply(view[s], <<Head(queue[s])>>)[f] = Absent
    <3>1. CASE Head(queue[s]).fragment = f
      BY <1>9, <2>2, <3>1 DEF Shown, Allowed, Visible
    <3>2. CASE Head(queue[s]).fragment # f
      <4>1. Apply(view[s], <<Head(queue[s])>>)[f] = view[s][f]
        BY <3>2, ApplyOne
      <4>2. Shown(s, f) \/ view[s][f] = Absent
        BY <1>1
      <4> QED BY <1>9, <4>1, <4>2 DEF Shown, Visible
    <3> QED BY <3>1, <3>2
  <2>4. ASSUME NEW i \in 1..Len(Tail(queue[s]))
        PROVE  Allowed(s, Tail(queue[s])[i].fragment)
    <3>1. i + 1 \in 1..Len(queue[s]) /\ Tail(queue[s])[i] = queue[s][i + 1]
      BY <1>9, <2>1, <2>4
    <3> QED BY <1>1, <3>1
  <2> QED BY <2>3, <2>4
<1> HIDE DEF Within
<1>10. \A t \in Sessions : Within(t, view'[t], queue'[t])
  BY <1>5, <1>6, <1>7, <1>8, <1>9, SessionData
<1> QED BY <1>10 DEF Within, GrantInv, Shown, Allowed, Visible

-----------------------------------------------------------------------------
(* Theorems *)

ServerInv == HubInv /\ GrantInv

LEMMA InitServerInv == ServerInit => ServerInv
<1> SUFFICES ASSUME ServerInit PROVE ServerInv
  OBVIOUS
<1>1. ServerTypes
  BY InitTypes
<1>2. \A r \in RoomIds : Clients(r) = {}
  BY DEF ServerInit, Clients
<1>3. Counted = {}
  BY DEF ServerInit, Counted
<1>4. HubInv
  <2>1. IsFiniteSet({}) /\ Cardinality({}) = 0 /\ 0 <= MaxClients
    BY FS_EmptySet, SessionAssumption
  <2>2. \A r \in RoomIds : IsFiniteSet(Clients(r)) /\ Cardinality(Clients(r)) <= MaxClients
    BY <2>1, <1>2
  <2>3. IsFiniteSet(Counted) /\ total_ws_connections = Cardinality(Counted)
    BY <2>1, <1>3 DEF ServerInit
  <2>4. hub = {}
    BY DEF ServerInit
  <2> QED BY <1>1, <2>2, <2>3, <2>4 DEF HubInv
<1>5. GrantInv
  BY DEF GrantInv, ServerInit, NoValues
<1> QED BY <1>4, <1>5 DEF ServerInv

LEMMA NextServerInv == ServerInv /\ [ServerNext]_serverVars => ServerInv'
<1> SUFFICES ASSUME ServerInv, [ServerNext]_serverVars PROVE ServerInv'
  OBVIOUS
<1>1. HubInv /\ GrantInv /\ ServerTypes
  BY DEF ServerInv, HubInv
<1>2. ASSUME NEW c \in Connections, Connection(c) PROVE ServerInv'
  BY <1>1, <1>2, ConnectionKeepsTypes, ConnectionKeepsHub, ConnectionKeepsGrants DEF ServerInv
<1>3. ASSUME NEW s \in Sessions, Session(s) PROVE ServerInv'
  BY <1>1, <1>3, SessionKeepsTypes, SessionKeepsHub, SessionKeepsGrants DEF ServerInv
<1>4. ASSUME UNCHANGED serverVars PROVE ServerInv'
  <2>1. UNCHANGED <<vars, conn, hub, state, room, view, queue, total_ws_connections, lost>>
    BY <1>4 DEF serverVars, sessionVars, vars
  <2>2. TypeOK'
    BY <1>1, <2>1, NextType DEF ServerTypes
  <2>3. ServerTypes'
    BY <1>1, <2>1, <2>2 DEF ServerTypes
  <2>4. HubInv'
    BY <1>1, <2>1, <2>3 DEF HubInv, Clients, Counted
  <2>5. GrantInv'
    BY <1>1, <2>1 DEF GrantInv, Shown, Allowed, Visible
  <2> QED BY <2>4, <2>5 DEF ServerInv
<1> QED BY <1>2, <1>3, <1>4 DEF ServerNext

LEMMA ServerInvariant == ServerSpec => []ServerInv
BY InitServerInv, NextServerInv, PTL DEF ServerSpec

\* The types of the server's state: queues within MAX_WS_PENDING_MESSAGES, at
\* most one event of a command under way, hub entries of rooms and sessions.
THEOREM ServerTypeCorrect == ServerSpec => []ServerTypeOK
<1>1. ServerInv => ServerTypeOK
  BY TypesSuffice DEF ServerInv, HubInv
<1> QED BY <1>1, ServerInvariant, PTL

\* The hub holds running sessions under their own room only, and never more of a
\* room than MAX_WS_CLIENTS_PER_ROOM.
THEOREM HubIsSound == ServerSpec => []HubHoldsSessions
<1>1. ServerInv => HubHoldsSessions
  BY DEF ServerInv, HubInv, HubHoldsSessions, Clients
<1> QED BY <1>1, ServerInvariant, PTL

\* ws_connections is the number of sessions registered and not yet cleaned up.
THEOREM CountIsRight == ServerSpec => []ConnectionsCounted
<1>1. ServerInv => ConnectionsCounted
  BY DEF ServerInv, HubInv, ConnectionsCounted, Counted
<1> QED BY <1>1, ServerInvariant, PTL

\* Of a container that its token does not name a client never gets a value in its
\* snapshot; what broadcast_update sends it beside its grants is in a container
\* called "*" and nothing else, however many controllers write (ws.rs:105-113).
THEOREM GrantsAreKept == ServerSpec => []OnlyGrantedReach
<1>1. ServerInv => OnlyGrantedReach
  <2> SUFFICES ASSUME ServerInv, NEW s \in Sessions
               PROVE  /\ \A f \in FragmentIds \ Visible(s) :
                           f[1] # Star \/ state[s] \in {"snapshot", "accepted"}
                             => view[s][f] = Absent
                      /\ \A i \in DOMAIN queue[s] :
                           queue[s][i].fragment \in Visible(s) \/ queue[s][i].fragment[1] = Star
    BY DEF OnlyGrantedReach
  <2>1. DOMAIN queue[s] = 1..Len(queue[s])
    BY DEF ServerInv, HubInv, ServerTypes
  <2> QED BY <2>1 DEF ServerInv, GrantInv, Shown, Allowed
<1> QED BY <1>1, ServerInvariant, PTL

-----------------------------------------------------------------------------
(* The server keeps what the store promises *)

\* Hub, sessions and connections do nothing to the rooms but what commands do:
\* broadcasts, registrations and the ends of connections leave AppState alone.
THEOREM ServerRunsTheStore == ServerSpec => Spec
<1>1. ServerInit => Init
  BY DEF ServerInit
<1>2. ServerTypes /\ [ServerNext]_serverVars => [Next]_vars
  BY ConnectionStep, SessionStep DEF ServerNext, serverVars, vars
<1>3. ServerInv => ServerTypes
  BY DEF ServerInv, HubInv
<1> QED BY <1>1, <1>2, <1>3, ServerInvariant, PTL DEF ServerSpec, Spec

\* So the rooms of a running server are versioned rooms, with versions in order
\* and transactions that are atomic to readers.
THEOREM ServerKeepsTheStore ==
  ServerSpec => []VersionOrder /\ TxIsAtomic /\ RefinesVersionedRooms
BY ServerRunsTheStore, VersionsOrdered, TransactionsAreAtomic, StoreRefinesVersionedRooms, PTL

-----------------------------------------------------------------------------
(* The content of what the clients are told, with one command connection    *)

\* Between applying a change and broadcasting it nothing else is applied: what
\* other connections would do in that window is what two controllers can break.
OneController == \A c, d \in Connections : c = d

\* The value of a fragment once the open transaction of its room is committed; a
\* client is told of buffered writes at once.
Promised(old, f) == CommittedEntry(old, f).value

OnTheWay(r, f) ==
  \E c \in Connections : \E u \in conn[c].updates : u.room_id = r /\ u.fragment = f

\* The sessions that will be told of changes, or have what they missed in lost.
Addressed(s) ==
  \/ state[s] \in {"snapshot", "accepted"}
  \/ state[s] \in {"registered", "active", "stalled"} /\ ~Dropped(s)

BuffersClosed == \A r \in Live : ~rooms[r].tx_open => rooms[r].tx_buffer = << >>

\* What is on its way was applied last.
UpdatesCurrent ==
  \A c \in Connections : \A u \in conn[c].updates :
    /\ conn[c].pc # "idle"
    /\ u.room_id \in Live
    /\ u.fragment # WholeRoom => u.value = Promised(rooms[u.room_id], u.fragment)

\* A session's room was created, and its queue is empty unless it is registered.
Settled(s) ==
  /\ state[s] \in {"new", "snapshot", "accepted", "closed"} => queue[s] = << >>
  /\ state[s] \notin {"new", "closed"} => room[s] < next_room_id

\* The fragments whose values events tell the client.
Tellable(s) == Visible(s) \ {WholeRoom}

\* What a client shows, or is about to be told, is what the room promises.
ReplicaKept(s) ==
  Addressed(s) /\ room[s] \in Live =>
    \A f \in Tellable(s) \ lost[s] :
      OnTheWay(room[s], f)
        \/ Apply(view[s], queue[s])[f] = Promised(rooms[room[s]], f)

ReplicaInv ==
  /\ ServerInv
  /\ BuffersClosed
  /\ UpdatesCurrent
  /\ \A s \in Sessions : Settled(s) /\ ReplicaKept(s)

\* The sequences that Apply is about.
LEMMA ApplyCases ==
  ASSUME NEW events \in Seq(Event), NEW f \in FragmentIds, f # WholeRoom, NEW values
  PROVE  \/ /\ \A i \in 1..Len(events) : events[i].fragment # f
            /\ Apply(values, events)[f] = values[f]
         \/ \E i \in 1..Len(events) :
              /\ events[i].fragment = f
              /\ \A j \in 1..Len(events) : events[j].fragment = f => j <= i
              /\ Apply(values, events)[f] = events[i].value
<1> DEFINE about == {i \in DOMAIN events : events[i].fragment = f}
           last == CHOOSE i \in about : \A j \in about : j <= i
<1>1. DOMAIN events = 1..Len(events) /\ Len(events) \in Nat
  OBVIOUS
<1>2. Apply(values, events)[f] = IF about = {} THEN values[f] ELSE events[last].value
  BY DEF Apply
<1>3. CASE about = {}
  BY <1>1, <1>2, <1>3
<1>4. CASE about # {}
  <2>1. about \in SUBSET (1..Len(events))
    BY <1>1
  <2>2. \E i \in about : \A j \in about : j <= i
    <3> HIDE DEF about
    <3> QED BY <1>1, <1>4, <2>1, LastIndex
  <2>3. last \in about /\ \A j \in about : j <= last
    BY <2>2
  <2> HIDE DEF last
  <2> QED BY <1>1, <1>2, <1>4, <2>3
<1> QED BY <1>3, <1>4

\* An event more is applied last.
Extends(longer, events, u) == longer = Append(events, u)

LEMMA ApplyAppend ==
  ASSUME NEW events \in Seq(Event), NEW u \in Event, NEW f \in FragmentIds,
         f # WholeRoom, NEW longer, Extends(longer, events, u), NEW values
  PROVE  Apply(values, longer)[f] =
           IF u.fragment = f THEN u.value ELSE Apply(values, events)[f]
<1>1. /\ longer \in Seq(Event) /\ Len(longer) = Len(events) + 1 /\ Len(events) \in Nat
      /\ longer[Len(events) + 1] = u
      /\ \A i \in 1..Len(events) : longer[i] = events[i]
  BY DEF Extends
<1>2. ASSUME NEW i \in 1..Len(longer), longer[i].fragment = f,
             \A j \in 1..Len(longer) : longer[j].fragment = f => j <= i
      PROVE  longer[i].value = IF u.fragment = f THEN u.value ELSE Apply(values, events)[f]
  <2>1. CASE u.fragment = f
    BY <1>1, <1>2, <2>1
  <2>2. CASE u.fragment # f
    <3>1. i \in 1..Len(events) /\ events[i].fragment = f
      BY <1>1, <1>2, <2>2
    <3>2. PICK k \in 1..Len(events) :
            /\ events[k].fragment = f
            /\ \A j \in 1..Len(events) : events[j].fragment = f => j <= k
            /\ Apply(values, events)[f] = events[k].value
      BY <3>1, ApplyCases
    <3>3. k = i
      BY <1>1, <1>2, <3>1, <3>2
    <3> QED BY <1>1, <2>2, <3>1, <3>2, <3>3
  <2> QED BY <2>1, <2>2
<1>3. ASSUME \A i \in 1..Len(longer) : longer[i].fragment # f
      PROVE  values[f] = IF u.fragment = f THEN u.value ELSE Apply(values, events)[f]
  <2>1. u.fragment # f /\ \A i \in 1..Len(events) : events[i].fragment # f
    BY <1>1, <1>3
  <2> QED BY <2>1, ApplyCases
<1>4. \/ /\ \A i \in 1..Len(longer) : longer[i].fragment # f
         /\ Apply(values, longer)[f] = values[f]
      \/ \E i \in 1..Len(longer) :
           /\ longer[i].fragment = f
           /\ \A j \in 1..Len(longer) : longer[j].fragment = f => j <= i
           /\ Apply(values, longer)[f] = longer[i].value
  BY <1>1, ApplyCases
<1> QED BY <1>2, <1>3, <1>4

\* Applying the first event and then the others is applying all.
LEMMA ApplyDeliver ==
  ASSUME NEW events \in Seq(Event), events # << >>, NEW f \in FragmentIds, f # WholeRoom,
         NEW values
  PROVE  Apply(Apply(values, <<Head(events)>>), Tail(events))[f] = Apply(values, events)[f]
<1> DEFINE first == Apply(values, <<Head(events)>>)
           rest == Tail(events)
<1>1. /\ rest \in Seq(Event) /\ Len(events) = Len(rest) + 1 /\ Len(rest) \in Nat
      /\ \A i \in 1..Len(rest) : rest[i] = events[i + 1]
      /\ Head(events) = events[1]
  OBVIOUS
<1>2. first[f] = IF events[1].fragment = f THEN events[1].value ELSE values[f]
  BY <1>1, ApplyOne
<1> HIDE DEF first, rest
<1>3. ASSUME NEW i \in 1..Len(rest), rest[i].fragment = f,
             \A j \in 1..Len(rest) : rest[j].fragment = f => j <= i
      PROVE  rest[i].value = Apply(values, events)[f]
  <2>1. i + 1 \in 1..Len(events) /\ events[i + 1].fragment = f
    BY <1>1, <1>3
  <2>2. PICK k \in 1..Len(events) :
          /\ events[k].fragment = f
          /\ \A j \in 1..Len(events) : events[j].fragment = f => j <= k
          /\ Apply(values, events)[f] = events[k].value
    BY <2>1, ApplyCases
  <2>3. k - 1 \in 1..Len(rest) /\ rest[k - 1] = events[k]
    BY <1>1, <2>1, <2>2
  <2>4. k = i + 1
    BY <1>1, <1>3, <2>1, <2>2, <2>3
  <2> QED BY <1>1, <2>2, <2>4
<1>4. ASSUME \A i \in 1..Len(rest) : rest[i].fragment # f
      PROVE  first[f] = Apply(values, events)[f]
  <2>1. \A i \in 2..Len(events) : events[i].fragment # f
    <3> TAKE i \in 2..Len(events)
    <3>1. i - 1 \in 1..Len(rest) /\ rest[i - 1] = events[i]
      BY <1>1
    <3> QED BY <1>4, <3>1
  <2>2. CASE events[1].fragment = f
    <3>1. PICK k \in 1..Len(events) :
            /\ events[k].fragment = f
            /\ Apply(values, events)[f] = events[k].value
      <4>1. 1 \in 1..Len(events) /\ ~ \A i \in 1..Len(events) : events[i].fragment # f
        BY <1>1, <2>2
      <4> QED BY <4>1, ApplyCases
    <3>2. k = 1
      BY <1>1, <2>1, <3>1
    <3> QED BY <1>2, <2>2, <3>1, <3>2
  <2>3. CASE events[1].fragment # f
    <3>1. \A i \in 1..Len(events) : events[i].fragment # f
      BY <1>1, <2>1, <2>3
    <3> QED BY <1>2, <2>3, <3>1, ApplyCases
  <2> QED BY <2>2, <2>3
<1>5. \/ /\ \A i \in 1..Len(rest) : rest[i].fragment # f
         /\ Apply(first, rest)[f] = first[f]
      \/ \E i \in 1..Len(rest) :
           /\ rest[i].fragment = f
           /\ \A j \in 1..Len(rest) : rest[j].fragment = f => j <= i
           /\ Apply(first, rest)[f] = rest[i].value
  BY <1>1, ApplyCases
<1> QED BY <1>3, <1>4, <1>5 DEF first, rest

-----------------------------------------------------------------------------
(* What the commands do to what a room promises *)

LEMMA PromisedWithout ==
  ASSUME NEW old \in RoomState, NEW f \in FragmentIds, WritesTo(old.tx_buffer, f) = {}
  PROVE  Promised(old, f) = old.fragments[f].value
BY DEF Promised, CommittedEntry

LEMMA EmptyBuffer ==
  ASSUME NEW old \in RoomState, old.tx_buffer = << >>, NEW f \in FragmentIds
  PROVE  WritesTo(old.tx_buffer, f) = {}
BY DEF WritesTo

\* A buffered write is the last one of its fragment.
LEMMA PromisedBuffered ==
  ASSUME NEW old \in RoomState, NEW op \in RoomCommand, NEW f \in FragmentIds
  PROVE  Promised(BufferWrite(old, op), f) =
           IF f = Target(op) THEN op.value ELSE Promised(old, f)
BY CommittedAppend DEF Promised

\* A write promises its value, now or at the commit, and nothing else.
LEMMA PromisedWrite ==
  ASSUME NEW old \in RoomState, ~old.tx_open => old.tx_buffer = << >>,
         NEW op \in RoomCommand, NEW f \in FragmentIds, NEW new,
         \/ old.tx_open /\ new = BufferWrite(old, op)
         \/ ~old.tx_open /\ new = ApplyWrite(old, op)
  PROVE  Promised(new, f) = IF f = Target(op) THEN op.value ELSE Promised(old, f)
<1>1. CASE new = BufferWrite(old, op)
  BY <1>1, PromisedBuffered
<1>2. CASE ~old.tx_open /\ new = ApplyWrite(old, op)
  <2>1. new.tx_buffer = << >>
    BY <1>2 DEF ApplyWrite, RoomState
  <2>2. new \in RoomState
    BY <1>2, ApplyWriteType
  <2>3. Promised(old, f) = old.fragments[f].value
    BY <1>2, EmptyBuffer, PromisedWithout
  <2>4. Promised(new, f) = new.fragments[f].value
    BY <2>1, <2>2, EmptyBuffer, PromisedWithout
  <2>5. new.fragments[f] = IF f = Target(op)
                           THEN [value |-> op.value, key_version |-> old.room_counter + 1]
                           ELSE old.fragments[f]
    BY <1>2, ApplyWriteEntries
  <2> QED BY <2>3, <2>4, <2>5
<1> QED BY <1>1, <1>2

LEMMA PromisedBegin ==
  ASSUME NEW old \in RoomState, old.tx_buffer = << >>, NEW f \in FragmentIds, NEW new,
         new = [old EXCEPT !.tx_open = TRUE, !.tx_buffer = << >>]
  PROVE  Promised(new, f) = Promised(old, f)
<1>1. new.tx_buffer = old.tx_buffer /\ new.fragments = old.fragments
      /\ new.room_counter = old.room_counter
  BY DEF RoomState
<1> QED BY <1>1 DEF Promised, CommittedEntry

\* A commit keeps what was promised.
LEMMA PromisedCommit ==
  ASSUME NEW old \in RoomState, NEW f \in FragmentIds
  PROVE  Promised(CommitBuffer(old), f) = Promised(old, f)
<1>1. CommitBuffer(old).tx_buffer = << >> /\ CommitBuffer(old) \in RoomState
  BY CommitBufferType DEF CommitBuffer
<1>2. Promised(CommitBuffer(old), f) = CommitBuffer(old).fragments[f].value
  BY <1>1, EmptyBuffer, PromisedWithout
<1> QED BY <1>2, CommitBufferEntries DEF Promised

\* An abort breaks the promises of the buffer, no other.
LEMMA PromisedDiscard ==
  ASSUME NEW old \in RoomState, NEW f \in FragmentIds, WritesTo(old.tx_buffer, f) = {}
  PROVE  Promised(DiscardBuffer(old), f) = Promised(old, f)
<1>1. DiscardBuffer(old).tx_buffer = << >> /\ DiscardBuffer(old).fragments = old.fragments
  BY DEF DiscardBuffer, RoomState
<1>2. DiscardBuffer(old) \in RoomState
  BY RoomStepType DEF RoomStep
<1>3. Promised(DiscardBuffer(old), f) = DiscardBuffer(old).fragments[f].value
  BY <1>1, <1>2, EmptyBuffer, PromisedWithout
<1> QED BY <1>1, <1>3, PromisedWithout

\* A buffer is emptied with its transaction.
LEMMA RoomStepBuffer ==
  ASSUME NEW old \in RoomState, NEW new, RoomStep(old, new),
         ~old.tx_open => old.tx_buffer = << >>
  PROVE  ~new.tx_open => new.tx_buffer = << >>
<1>1. ASSUME NEW op \in RoomCommand, ~old.tx_open, new = ApplyWrite(old, op)
      PROVE  new.tx_buffer = << >>
  BY <1>1 DEF ApplyWrite, RoomState
<1>2. ASSUME NEW op \in RoomCommand, old.tx_open, new = BufferWrite(old, op)
      PROVE  new.tx_open
  BY <1>2 DEF BufferWrite, RoomState
<1>3. CASE new = [old EXCEPT !.tx_open = TRUE, !.tx_buffer = << >>]
  BY <1>3 DEF RoomState
<1>4. CASE new = CommitBuffer(old)
  BY <1>4 DEF CommitBuffer
<1>5. CASE new = DiscardBuffer(old)
  BY <1>5 DEF DiscardBuffer, RoomState
<1> QED BY <1>1, <1>2, <1>3, <1>4, <1>5 DEF RoomStep

\* What any command does to the rooms: a new one has an id of its own.
LEMMA StoreStep ==
  ASSUME TypeOK, BuffersClosed, [Next]_vars
  PROVE  /\ next_room_id' >= next_room_id
         /\ Live' \subseteq Live \cup {next_room_id}
         /\ BuffersClosed'
<1>0. next_room_id \in Nat /\ \A r \in Live : rooms[r] \in RoomState
  BY DEF TypeOK
<1>1. CASE RoomCreate
  <2>1. Live' = Live \cup {next_room_id} /\ next_room_id \notin Live
    BY <1>1 DEF RoomCreate, Live, TypeOK
  <2>2. \A r \in Live : rooms'[r] = rooms[r]
    BY <1>1, <2>1 DEF RoomCreate
  <2>3. rooms'[next_room_id] = NewRoom
    BY <1>1 DEF RoomCreate
  <2>4. BuffersClosed'
    BY <2>1, <2>2, <2>3 DEF BuffersClosed, NewRoom
  <2> QED BY <1>0, <1>1, <2>1, <2>2, <2>4 DEF RoomCreate
<1>2. ASSUME NEW r \in Live, RoomDelete(r)
      PROVE  /\ next_room_id' >= next_room_id
             /\ Live' \subseteq Live \cup {next_room_id}
             /\ BuffersClosed'
  <2>1. Live' = Live \ {r} /\ \A q \in Live' : rooms'[q] = rooms[q]
    BY <1>2 DEF RoomDelete, Live
  <2>2. next_room_id' = next_room_id
    BY <1>2 DEF RoomDelete
  <2> QED BY <1>0, <2>1, <2>2 DEF BuffersClosed
<1>3. ASSUME NEW r \in Live, NEW new, RoomStep(rooms[r], new),
             rooms' = [rooms EXCEPT ![r] = new], next_room_id' = next_room_id
      PROVE  /\ next_room_id' >= next_room_id
             /\ Live' \subseteq Live \cup {next_room_id}
             /\ BuffersClosed'
  <2>1. Live' = Live /\ rooms'[r] = new /\ \A q \in Live \ {r} : rooms'[q] = rooms[q]
    BY <1>3 DEF Live
  <2>2. ~new.tx_open => new.tx_buffer = << >>
    BY <1>0, <1>3, RoomStepBuffer DEF BuffersClosed
  <2> QED BY <1>0, <1>3, <2>1, <2>2 DEF BuffersClosed
<1>4. CASE UNCHANGED vars
  BY <1>0, <1>4 DEF vars, Live, BuffersClosed
<1> QED BY <1>1, <1>2, <1>3, <1>4, StepCases

-----------------------------------------------------------------------------
(* Commands *)

\* With one controller the updates of a connection are the only ones.
LEMMA OnlyUpdate ==
  ASSUME OneController, ServerTypes, NEW c \in Connections, NEW u \in conn[c].updates
  PROVE  /\ u \in Event
         /\ \A r, f : OnTheWay(r, f) <=> r = u.room_id /\ f = u.fragment
<1>1. conn[c].updates \subseteq Event /\ AtMostOne(conn[c].updates)
  BY DEF ServerTypes, ConnectionState
<1>2. conn[c].updates = {u}
  BY <1>1 DEF AtMostOne
<1> QED BY <1>1, <1>2 DEF OnTheWay, OneController

\* When a connection has none, nothing is on its way.
LEMMA NoUpdate ==
  ASSUME OneController, NEW c \in Connections, conn[c].updates = {}
  PROVE  \A r, f : ~OnTheWay(r, f)
BY DEF OnTheWay, OneController

\* What the rooms promise is as before, or is announced, or is noted as lost.
Announced(r, f) ==
  \/ Promised(rooms'[r], f) = Promised(rooms[r], f)
  \/ OnTheWay(r, f)'
  \/ \A s \in Sessions : room[s] = r /\ Following(s) => f \in lost'[s]

\* A command that announces what it does keeps the invariant.
CommandAnnounced ==
  /\ UpdatesCurrent'
  /\ \A r \in Live \cap Live' : \A f \in FragmentIds : Announced(r, f)
  /\ \A s \in Sessions : lost[s] \subseteq lost'[s]

\* What is to be shown of a session for its copy to be kept.
LEMMA ReplicaWillBe ==
  ASSUME NEW s \in Sessions, NEW r, room'[s] = r,
         NEW v, view'[s] = v, NEW q, queue'[s] = q,
         \A f \in Tellable(s) \ lost'[s] : Addressed(s)' /\ r \in Live' =>
           OnTheWay(r, f)' \/ Apply(v, q)[f] = Promised(rooms'[r], f)
  PROVE  ReplicaKept(s)'
<1> SUFFICES ASSUME Addressed(s)', room'[s] \in Live', NEW f \in (Tellable(s) \ lost[s])'
             PROVE  (OnTheWay(room[s], f)
                      \/ Apply(view[s], queue[s])[f] = Promised(rooms[room[s]], f))'
  BY DEF ReplicaKept
<1> SUFFICES OnTheWay(r, f)' \/ Apply(v, q)[f] = Promised(rooms'[r], f)
  BY DEF OnTheWay, Apply, Promised, CommittedEntry
<1> QED BY DEF Tellable, Visible

LEMMA AnnouncedKeeps ==
  ASSUME OneController, ReplicaInv, NEW c \in Connections, Commands(c), CommandAnnounced,
         conn[c].pc = "idle", NEW s \in Sessions
  PROVE  Settled(s)' /\ ReplicaKept(s)'
<1>1. /\ [Next]_vars /\ hub' = hub
      /\ state' = state /\ room' = room /\ view' = view /\ queue' = queue
  BY CommandStep DEF sessionVars
<1>2. /\ ServerTypes /\ TypeOK /\ Settled(s) /\ ReplicaKept(s)
      /\ BuffersClosed /\ UpdatesCurrent
  BY DEF ReplicaInv, ServerInv, HubInv, ServerTypes
<1>3. /\ next_room_id' >= next_room_id
      /\ Live' \subseteq Live \cup {next_room_id}
  BY <1>1, <1>2, StoreStep
<1>4. /\ next_room_id \in Nat /\ next_room_id' \in Nat /\ room[s] \in 0..MaxRooms
      /\ queue[s] \in Seq(Event) /\ MaxRooms \in Nat
  BY <1>1, <1>2, NextType, BoundAssumption DEF ServerTypes, TypeOK
<1>5. \A r, f : ~OnTheWay(r, f)
  BY <1>2, NoUpdate DEF UpdatesCurrent
<1>6. Settled(s)'
  BY <1>1, <1>2, <1>3, <1>4 DEF Settled
<1>7. state[s] \notin {"new", "closed"} /\ room[s] \in Live' => room[s] \in Live
  BY <1>2, <1>3, <1>4 DEF Settled
<1>8. ASSUME NEW f \in Tellable(s) \ lost'[s], Addressed(s)', room[s] \in Live'
      PROVE  OnTheWay(room[s], f)' \/ Apply(view[s], queue[s])[f] = Promised(rooms'[room[s]], f)
  <2> PICK r : r = room[s]
    OBVIOUS
  <2>1. Addressed(s) /\ Following(s) /\ r \in Live \cap Live'
    BY <1>1, <1>7, <1>8 DEF Addressed, Dropped, Following
  <2>2. f \in FragmentIds /\ f \notin lost[s]
    BY DEF CommandAnnounced, Tellable, Visible
  <2>3. Apply(view[s], queue[s])[f] = Promised(rooms[r], f)
    BY <1>2, <1>5, <2>1, <2>2 DEF ReplicaKept
  <2>4. Announced(r, f)
    BY <2>1, <2>2 DEF CommandAnnounced
  <2>5. OnTheWay(r, f)' \/ Apply(view[s], queue[s])[f] = Promised(rooms'[r], f)
    BY <1>8, <2>1, <2>3, <2>4 DEF Announced
  <2>6. OnTheWay(r, f)' => OnTheWay(room[s], f)'
    BY <1>1 DEF OnTheWay
  <2> QED BY <2>5, <2>6
<1>9. ReplicaKept(s)'
  BY <1>1, <1>8, ReplicaWillBe
<1> QED BY <1>6, <1>9

\* What the connection has to tell after the command is current when it is so at
\* that moment.
LEMMA FinishCurrent ==
  ASSUME OneController, ServerTypes, NEW c \in Connections, NEW updates, NEW deleted,
         Finish(c, updates, deleted),
         \A u \in updates :
           /\ u.room_id \in Live'
           /\ u.fragment # WholeRoom => u.value = Promised(rooms'[u.room_id], u.fragment)
  PROVE  /\ UpdatesCurrent'
         /\ \A u \in updates : OnTheWay(u.room_id, u.fragment)'
<1>1. conn' = [conn EXCEPT ![c] = [pc |-> "respond", updates |-> updates, deleted |-> deleted]]
      /\ conn \in [Connections -> ConnectionState]
  BY DEF Finish, ServerTypes
<1>2. conn'[c].pc = "respond" /\ conn'[c].updates = updates
  BY <1>1
<1>3. \A d \in Connections : d = c
  BY DEF OneController
<1> QED BY <1>2, <1>3 DEF UpdatesCurrent, OnTheWay, Promised, CommittedEntry

\* A command without an update, which changes no promise of a room that stays.
LEMMA SilentAnnounced ==
  ASSUME OneController, ServerTypes, NEW c \in Connections, NEW deleted, Finish(c, {}, deleted),
         UNCHANGED lost,
         \A r \in Live \cap Live' : \A f \in FragmentIds :
           Promised(rooms'[r], f) = Promised(rooms[r], f)
  PROVE  CommandAnnounced
<1>1. UpdatesCurrent'
  BY FinishCurrent
<1> QED BY <1>1 DEF CommandAnnounced, Announced

LEMMA WriteAnnounced ==
  ASSUME OneController, ServerTypes, BuffersClosed, NEW c \in Connections, Write(c)
  PROVE  CommandAnnounced
<1>1. PICK r \in RoomIds, f \in FragmentIds, v \in Values :
        /\ r \in Live
        /\ WriteOrBuffer(r, [container |-> f[1], key |-> f[2], value |-> v])
        /\ Finish(c, {Update(r, f, v)}, {})
        /\ UNCHANGED lost
  BY ValueAssumption DEF Write, Set, CanSet, Del, CanDel
<1> DEFINE op == [container |-> f[1], key |-> f[2], value |-> v]
           u == Update(r, f, v)
<1>2. op \in RoomCommand /\ Target(op) = f /\ op.value = v
  BY DEF RoomCommand, FragmentIds, Target
<1>3. /\ Live' = Live
      /\ \A q \in Live \ {r} : rooms'[q] = rooms[q]
      /\ \/ rooms[r].tx_open /\ rooms'[r] = BufferWrite(rooms[r], op)
         \/ ~rooms[r].tx_open /\ rooms'[r] = ApplyWrite(rooms[r], op)
  BY <1>1 DEF WriteOrBuffer, Live
<1>4. rooms[r] \in RoomState /\ (~rooms[r].tx_open => rooms[r].tx_buffer = << >>)
  BY <1>1 DEF ServerTypes, TypeOK, BuffersClosed
<1> HIDE DEF op
<1>5. \A g \in FragmentIds :
        Promised(rooms'[r], g) = IF g = f THEN v ELSE Promised(rooms[r], g)
  BY <1>2, <1>3, <1>4, PromisedWrite
<1>6. u.room_id = r /\ u.fragment = f /\ (f # WholeRoom => u.value = v)
  BY DEF Update
<1> HIDE DEF u
<1>7. /\ UpdatesCurrent'
      /\ \A w \in {u} : OnTheWay(w.room_id, w.fragment)'
  <2>1. Finish(c, {u}, {})
    BY <1>1 DEF u
  <2>2. \A w \in {u} :
          /\ w.room_id \in Live'
          /\ w.fragment # WholeRoom => w.value = Promised(rooms'[w.room_id], w.fragment)
    BY <1>1, <1>3, <1>5, <1>6
  <2> QED BY <2>1, <2>2, FinishCurrent
<1>8. OnTheWay(r, f)'
  BY <1>6, <1>7
<1>9. ASSUME NEW q \in Live \cap Live', NEW g \in FragmentIds
      PROVE  Announced(q, g)
  <2>1. CASE q # r
    BY <1>3, <2>1 DEF Announced
  <2>2. CASE q = r /\ g # f
    BY <1>5, <2>2 DEF Announced
  <2>3. CASE q = r /\ g = f
    BY <1>8, <2>3 DEF Announced
  <2> QED BY <2>1, <2>2, <2>3
<1> QED BY <1>1, <1>7, <1>9 DEF CommandAnnounced

LEMMA TransactAnnounced ==
  ASSUME OneController, ServerTypes, BuffersClosed, NEW c \in Connections, Transact(c)
  PROVE  CommandAnnounced
<1>0. \A r \in Live : rooms[r] \in RoomState
  BY DEF ServerTypes, TypeOK
<1>1. ASSUME NEW r \in RoomIds, TxBegin(r), Finish(c, {}, {}), UNCHANGED lost
      PROVE  CommandAnnounced
  <2>1. /\ r \in Live /\ ~rooms[r].tx_open /\ Live' = Live
        /\ \A q \in Live \ {r} : rooms'[q] = rooms[q]
        /\ rooms'[r] = [rooms[r] EXCEPT !.tx_open = TRUE, !.tx_buffer = << >>]
    BY <1>1 DEF TxBegin, CanTxBegin, Live
  <2>2. \A f \in FragmentIds : Promised(rooms'[r], f) = Promised(rooms[r], f)
    BY <1>0, <2>1, PromisedBegin DEF BuffersClosed
  <2>3. \A q \in Live \cap Live' : \A f \in FragmentIds :
          Promised(rooms'[q], f) = Promised(rooms[q], f)
    BY <2>1, <2>2
  <2> QED BY <1>1, <2>3, SilentAnnounced
<1>2. ASSUME NEW r \in RoomIds, TxEnd(r), Finish(c, {Update(r, WholeRoom, Absent)}, {}),
             UNCHANGED lost
      PROVE  CommandAnnounced
  <2> DEFINE u == Update(r, WholeRoom, Absent)
  <2>1. /\ r \in Live /\ Live' = Live
        /\ \A q \in Live \ {r} : rooms'[q] = rooms[q]
        /\ rooms'[r] = CommitBuffer(rooms[r])
    BY <1>2 DEF TxEnd, CanTxEnd, Live
  <2>2. \A f \in FragmentIds : Promised(rooms'[r], f) = Promised(rooms[r], f)
    BY <1>0, <2>1, PromisedCommit
  <2>3. u.room_id = r /\ u.fragment = WholeRoom
    BY DEF Update
  <2> HIDE DEF u
  <2>4. UpdatesCurrent'
    <3>1. Finish(c, {u}, {})
      BY <1>2 DEF u
    <3>2. \A w \in {u} :
            /\ w.room_id \in Live'
            /\ w.fragment # WholeRoom => w.value = Promised(rooms'[w.room_id], w.fragment)
      BY <2>1, <2>3
    <3> QED BY <3>1, <3>2, FinishCurrent
  <2>5. \A q \in Live \cap Live' : \A f \in FragmentIds : Announced(q, f)
    BY <2>1, <2>2 DEF Announced
  <2> QED BY <1>2, <2>4, <2>5 DEF CommandAnnounced
<1>3. ASSUME NEW r \in RoomIds, TxAbort(r), Finish(c, {}, {}), PassBy(r, Buffered(r))
      PROVE  CommandAnnounced
  <2>1. /\ r \in Live /\ Live' = Live
        /\ \A q \in Live \ {r} : rooms'[q] = rooms[q]
        /\ rooms'[r] = DiscardBuffer(rooms[r])
    BY <1>3 DEF TxAbort, CanTxAbort, Live
  <2>2. UpdatesCurrent'
    BY <1>3, FinishCurrent
  <2>3. \A s \in Sessions : lost[s] \subseteq lost'[s]
    BY <1>3 DEF PassBy
  <2>4. ASSUME NEW f \in FragmentIds
        PROVE  Announced(r, f)
    <3>1. CASE WritesTo(rooms[r].tx_buffer, f) = {}
      BY <1>0, <2>1, <3>1, PromisedDiscard DEF Announced
    <3>2. CASE f \in Buffered(r)
      BY <1>3, <3>2 DEF PassBy, Announced
    <3> QED BY <3>1, <3>2 DEF Buffered
  <2>5. \A q \in Live \cap Live' : \A f \in FragmentIds : Announced(q, f)
    BY <2>1, <2>4 DEF Announced
  <2> QED BY <2>2, <2>3, <2>5 DEF CommandAnnounced
<1> QED BY <1>1, <1>2, <1>3 DEF Transact

LEMMA CommandsAnnounced ==
  ASSUME OneController, ServerTypes, BuffersClosed, NEW c \in Connections, Commands(c)
  PROVE  CommandAnnounced
<1>1. ASSUME NEW deleted, Finish(c, {}, deleted), UNCHANGED lost,
             \A r \in Live \cap Live' : rooms'[r] = rooms[r]
      PROVE  CommandAnnounced
  BY <1>1, SilentAnnounced
<1>2. CASE Create(c)
  <2>1. \A r \in Live \cap Live' : rooms'[r] = rooms[r]
    BY <1>2 DEF Create, RoomCreate, ServerTypes, TypeOK, Live
  <2> QED BY <1>1, <1>2, <2>1 DEF Create
<1>3. CASE Delete(c)
  <2>1. PICK r \in RoomIds, quoted \in BOOLEAN :
          RoomDelete(r) /\ Finish(c, {}, IF quoted THEN {} ELSE {r}) /\ UNCHANGED lost
    BY <1>3 DEF Delete
  <2>2. \A q \in Live \cap Live' : rooms'[q] = rooms[q]
    BY <2>1 DEF RoomDelete, Live
  <2> QED BY <1>1, <2>1, <2>2
<1>4. CASE AnswerOnly(c)
  BY <1>1, <1>4 DEF AnswerOnly, vars, Live
<1> QED BY <1>2, <1>3, <1>4, WriteAnnounced, TransactAnnounced DEF Commands

LEMMA CommandIdle ==
  ASSUME NEW c \in Connections, Commands(c)
  PROVE  conn[c].pc = "idle"
BY DEF Commands, Create, Delete, Write, Transact, AnswerOnly, Finish

-----------------------------------------------------------------------------
(* Replies and broadcasts *)

\* The same when the rooms stay as they are.
LEMMA ReplicaStays ==
  ASSUME UNCHANGED rooms, NEW s \in Sessions, NEW r, room'[s] = r,
         NEW v, view'[s] = v, NEW q, queue'[s] = q,
         \A f \in Tellable(s) \ lost'[s] : Addressed(s)' /\ r \in Live =>
           OnTheWay(r, f)' \/ Apply(v, q)[f] = Promised(rooms[r], f)
  PROVE  ReplicaKept(s)'
<1>1. Live' = Live
  BY DEF Live
<1> QED BY <1>1, ReplicaWillBe

\* A session of which only the state changes, and which will not be told of more
\* than before.
LEMMA SameKeeps ==
  ASSUME ReplicaInv, UNCHANGED vars, NEW s \in Sessions,
         room'[s] = room[s], view'[s] = view[s], queue'[s] = queue[s],
         Addressed(s)' => Addressed(s),
         \A r, f : r = room[s] /\ f \in Tellable(s) \ lost'[s] /\ Addressed(s)' =>
                     f \notin lost[s] /\ (OnTheWay(r, f) => OnTheWay(r, f)')
  PROVE  ReplicaKept(s)'
<1>1. ReplicaKept(s) /\ rooms' = rooms
  BY DEF ReplicaInv, vars
<1>2. \A r, f : r = room[s] /\ r \in Live /\ f \in Tellable(s) \ lost'[s] /\ Addressed(s)' =>
        OnTheWay(r, f)' \/ Apply(view[s], queue[s])[f] = Promised(rooms[r], f)
  BY <1>1 DEF ReplicaKept
<1> QED BY <1>1, <1>2, ReplicaStays

\* The update of a connection is given up: nothing is on its way any more.
LEMMA GoneCurrent ==
  ASSUME OneController, NEW c \in Connections, conn \in [Connections -> ConnectionState],
         conn' = [conn EXCEPT ![c] = Idle]
  PROVE  UpdatesCurrent' /\ \A r, f : ~OnTheWay(r, f)'
<1>1. conn'[c].updates = {}
  BY DEF Idle
<1>2. \A d \in Connections : d = c
  BY DEF OneController
<1> QED BY <1>1, <1>2 DEF UpdatesCurrent, OnTheWay

\* Updates passed by are noted.
LEMMA PassByKeeps ==
  ASSUME OneController, ReplicaInv, vars' = vars, state' = state, room' = room,
         view' = view, queue' = queue,
         hub' \subseteq hub, NEW c \in Connections, NEW u \in conn[c].updates,
         PassBy(u.room_id, Touched(u)), NEW s \in Sessions
  PROVE  ReplicaKept(s)'
<1>1. \A r, f : OnTheWay(r, f) => r = u.room_id /\ f = u.fragment
  BY OnlyUpdate DEF ReplicaInv, ServerInv, HubInv
<1>2. Addressed(s)' => Addressed(s) /\ Following(s)
  BY DEF Addressed, Dropped, Following
<1>3. lost[s] \subseteq lost'[s]
  BY DEF PassBy
<1>4. ASSUME NEW f \in Tellable(s) \ lost'[s], Addressed(s)'
      PROVE  ~OnTheWay(room[s], f)
  <2>1. f \in FragmentIds
    BY DEF Tellable, Visible
  <2> QED BY <1>1, <1>2, <1>4, <2>1 DEF PassBy, Touched
<1>5. \A r, f : r = room[s] /\ f \in Tellable(s) \ lost'[s] /\ Addressed(s)' =>
                  f \notin lost[s] /\ (OnTheWay(r, f) => OnTheWay(r, f)')
  BY <1>3, <1>4
<1> QED BY <1>2, <1>5, SameKeeps

\* The other updates of a broadcast: sessions that do not get the event were
\* not concerned, are dropped, or are not registered yet.
LEMMA UnreachedKeeps ==
  ASSUME OneController, ReplicaInv, vars' = vars, state' = state, room' = room, view' = view,
         hub' \subseteq hub, NEW c \in Connections, NEW u \in conn[c].updates,
         NEW s \in Sessions, queue'[s] = queue[s],
         \/ state[s] \in {"snapshot", "accepted"} /\ room[s] = u.room_id
              /\ lost'[s] = lost[s] \cup Touched(u)
         \/ lost'[s] = lost[s] /\ room[s] # u.room_id
         \/ /\ lost'[s] = lost[s] /\ state[s] \notin {"snapshot", "accepted"}
            /\ ~Concerns(u, s) \/ <<room[s], s>> \notin hub'
  PROVE  ReplicaKept(s)'
<1>1. \A r, f : OnTheWay(r, f) => r = u.room_id /\ f = u.fragment
  BY OnlyUpdate DEF ReplicaInv, ServerInv, HubInv
<1>2. Addressed(s)' => Addressed(s)
  BY DEF Addressed, Dropped
<1>3. ASSUME NEW f \in Tellable(s) \ lost'[s], Addressed(s)'
      PROVE  f \notin lost[s] /\ ~OnTheWay(room[s], f)
  <2>1. f \in FragmentIds /\ f \notin lost[s]
    BY DEF Tellable, Visible
  <2>2. CASE lost'[s] = lost[s] \cup Touched(u)
    BY <1>1, <1>3, <2>1, <2>2 DEF Touched
  <2>3. CASE room[s] # u.room_id
    BY <1>1, <2>1, <2>3
  <2>4. CASE /\ state[s] \notin {"snapshot", "accepted"}
             /\ ~Concerns(u, s) \/ <<room[s], s>> \notin hub'
    <3>1. <<room[s], s>> \in hub'
      BY <1>3, <2>4 DEF Addressed, Dropped
    <3>2. ~Concerns(u, s)
      BY <2>4, <3>1
    <3>3. f # u.fragment
      BY <3>2, <1>3 DEF Concerns, Tellable
    <3> QED BY <1>1, <2>1, <3>3
  <2> QED BY <2>2, <2>3, <2>4
<1>4. \A r, f : r = room[s] /\ f \in Tellable(s) \ lost'[s] /\ Addressed(s)' =>
                  f \notin lost[s] /\ (OnTheWay(r, f) => OnTheWay(r, f)')
  BY <1>3
<1> QED BY <1>2, <1>4, SameKeeps

\* The event is put into the queue of a session, which is told of its fragment.
Gets(s, u) ==
  /\ queue'[s] = Append(queue[s], u)
  /\ lost'[s] = lost[s] \ {u.fragment}

LEMMA GetsApplied ==
  ASSUME NEW s \in Sessions, NEW u \in Event, Gets(s, u), queue[s] \in Seq(Event),
         NEW f \in FragmentIds, f # WholeRoom
  PROVE  Apply(view[s], queue'[s])[f] =
           IF u.fragment = f THEN u.value ELSE Apply(view[s], queue[s])[f]
<1>1. Extends(queue'[s], queue[s], u)
  BY DEF Gets, Extends
<1> QED BY <1>1, ApplyAppend

\* A session that gets the event knows the newest change of its room.
LEMMA ReachedKeeps ==
  ASSUME OneController, ReplicaInv, vars' = vars, state' = state, room' = room, view' = view,
         hub' \subseteq hub, NEW c \in Connections, NEW u \in conn[c].updates,
         NEW s \in Sessions, room[s] = u.room_id, Gets(s, u)
  PROVE  ReplicaKept(s)'
<1>1. /\ u \in Event
      /\ \A r, f : OnTheWay(r, f) => r = u.room_id /\ f = u.fragment
  BY OnlyUpdate DEF ReplicaInv, ServerInv, HubInv
<1>2. /\ ReplicaKept(s) /\ rooms' = rooms
      /\ room[s] \in Live
      /\ u.fragment # WholeRoom => u.value = Promised(rooms[room[s]], u.fragment)
  BY DEF ReplicaInv, UpdatesCurrent, vars
<1>3. queue[s] \in Seq(Event)
  BY DEF ReplicaInv, ServerInv, HubInv, ServerTypes
<1>4. Addressed(s)' => Addressed(s)
  BY DEF Addressed, Dropped
<1>5. ReplicaKept(s)'
  <2> PICK q : q = queue'[s]
    OBVIOUS
  <2>1. \A f \in FragmentIds \ {WholeRoom} : Apply(view[s], q)[f] =
          IF u.fragment = f THEN u.value ELSE Apply(view[s], queue[s])[f]
    <3>1. u \in Event /\ queue[s] \in Seq(Event)
      BY <1>1, <1>3
    <3> QED BY <3>1, GetsApplied
  <2>2. ASSUME NEW f \in Tellable(s) \ lost'[s], Addressed(s)'
        PROVE  Apply(view[s], q)[f] = Promised(rooms[room[s]], f)
    <3>1. f \in FragmentIds /\ f # WholeRoom
      BY DEF Tellable, Visible
    <3>2. CASE u.fragment = f
      BY <1>2, <2>1, <3>1, <3>2
    <3>3. CASE u.fragment # f
      <4>1. f \notin lost[s] /\ ~OnTheWay(room[s], f)
        BY <1>1, <3>3 DEF Gets
      <4>2. Apply(view[s], queue[s])[f] = Promised(rooms[room[s]], f)
        BY <1>2, <1>4, <2>2, <4>1 DEF ReplicaKept
      <4> QED BY <2>1, <3>1, <3>3, <4>2
    <3> QED BY <3>2, <3>3
  <2>3. UNCHANGED rooms /\ room'[s] = room[s] /\ view'[s] = view[s] /\ queue'[s] = q
    BY <1>2 DEF Gets
  <2> PICK r : r = room[s]
    OBVIOUS
  <2>4. \A f \in Tellable(s) \ lost'[s] : Addressed(s)' /\ r \in Live =>
          OnTheWay(r, f)' \/ Apply(view[s], q)[f] = Promised(rooms[r], f)
    BY <2>2
  <2>5. room'[s] = r
    BY <2>3
  <2> QED BY <2>3, <2>4, <2>5, ReplicaStays
<1> QED BY <1>5

LEMMA BroadcastKeeps ==
  ASSUME OneController, ReplicaInv, NEW c \in Connections, Broadcast(c),
         NEW u \in conn[c].updates, BroadcastUpdate(u), NEW s \in Sessions
  PROVE  ReplicaKept(s)'
<1>1. UNCHANGED <<vars, state, room, view>>
  BY DEF Broadcast
<1>2. PICK reached \in SUBSET Clients(u.room_id) :
        /\ hub' = hub \ {<<u.room_id, t>> :
                           t \in {q \in Clients(u.room_id) : Concerns(u, q)} \ reached}
        /\ queue' = [t \in Sessions |->
                       IF t \in reached THEN Append(queue[t], u) ELSE queue[t]]
        /\ lost' = [t \in Sessions |->
                      IF t \in reached THEN lost[t] \ {u.fragment}
                      ELSE IF state[t] \in {"snapshot", "accepted"} /\ room[t] = u.room_id
                      THEN lost[t] \cup Touched(u) ELSE lost[t]]
  BY DEF BroadcastUpdate
<1>3. hub' \subseteq hub
  BY <1>2
<1>4. CASE s \in reached
  <2>1. room[s] = u.room_id
    BY <1>4 DEF ReplicaInv, ServerInv, HubInv, Clients
  <2>2. Gets(s, u)
    BY <1>2, <1>4 DEF Gets
  <2> QED BY <1>1, <1>3, <2>1, <2>2, ReachedKeeps
<1>5. CASE s \notin reached
  <2>1. queue'[s] = queue[s]
    BY <1>2, <1>5
  <2>2. CASE state[s] \in {"snapshot", "accepted"} /\ room[s] = u.room_id
    <3>1. lost'[s] = lost[s] \cup Touched(u)
      BY <1>2, <1>5, <2>2
    <3> QED BY <1>1, <1>3, <2>1, <2>2, <3>1, UnreachedKeeps
  <2>3. CASE room[s] # u.room_id
    <3>1. lost'[s] = lost[s]
      BY <1>2, <1>5, <2>3
    <3> QED BY <1>1, <1>3, <2>1, <2>3, <3>1, UnreachedKeeps
  <2>4. CASE state[s] \notin {"snapshot", "accepted"} /\ room[s] = u.room_id
    <3>1. lost'[s] = lost[s]
      BY <1>2, <1>5, <2>4
    <3>2. ~Concerns(u, s) \/ <<room[s], s>> \notin hub'
      BY <1>2, <1>5, <2>4 DEF Clients
    <3> QED BY <1>1, <1>3, <2>1, <2>4, <3>1, <3>2, UnreachedKeeps
  <2> QED BY <2>2, <2>3, <2>4
<1> QED BY <1>4, <1>5

\* Events go to registered sessions, so a connection keeps sessions settled.
LEMMA ConnectionSettled ==
  ASSUME ServerInv, NEW c \in Connections, Respond(c) \/ Cleanup(c) \/ Broadcast(c),
         NEW s \in Sessions, Settled(s)
  PROVE  Settled(s)'
<1>1. UNCHANGED <<vars, state, room>>
  BY DEF Respond, Cleanup, Broadcast, sessionVars
<1>2. queue'[s] = queue[s] \/ \E r \in RoomIds : s \in Clients(r)
  <2>1. CASE UNCHANGED queue
    BY <2>1
  <2>2. ASSUME NEW u \in conn[c].updates, BroadcastUpdate(u)
        PROVE  queue'[s] = queue[s] \/ \E r \in RoomIds : s \in Clients(r)
    <3>1. u.room_id \in RoomIds
      BY DEF ServerInv, HubInv, ServerTypes, ConnectionState, Event
    <3> QED BY <2>2, <3>1 DEF BroadcastUpdate
  <2> QED BY <2>1, <2>2 DEF Respond, Cleanup, Broadcast, sessionVars
<1>3. CASE queue'[s] = queue[s]
  BY <1>1, <1>3 DEF Settled, vars
<1>4. CASE \E r \in RoomIds : s \in Clients(r)
  <2>1. state[s] \in {"registered", "active", "stalled", "leaving"}
    BY <1>4 DEF ServerInv, HubInv, Clients
  <2> QED BY <1>1, <2>1 DEF Settled, vars
<1> QED BY <1>2, <1>3, <1>4

LEMMA ConnectionKeepsReplicas ==
  ASSUME OneController, ReplicaInv, NEW c \in Connections, Connection(c)
  PROVE  ReplicaInv'
<1>1. /\ ServerInv /\ ServerTypes /\ HubInv /\ TypeOK /\ BuffersClosed /\ UpdatesCurrent
      /\ conn \in [Connections -> ConnectionState]
      /\ AtMostOne(conn[c].updates)
      /\ \A s \in Sessions : Settled(s)
  BY DEF ReplicaInv, ServerInv, HubInv, ServerTypes
<1>2. ServerInv'
  BY <1>1, NextServerInv DEF ServerNext
<1>3. BuffersClosed'
  BY <1>1, ConnectionStep, StoreStep
<1>4. CASE Commands(c)
  <2>1. CommandAnnounced
    BY <1>1, <1>4, CommandsAnnounced
  <2>2. \A s \in Sessions : Settled(s)' /\ ReplicaKept(s)'
    BY <1>4, <2>1, CommandIdle, AnnouncedKeeps
  <2> QED BY <1>2, <1>3, <2>1, <2>2 DEF ReplicaInv, CommandAnnounced
<1>5. ASSUME UNCHANGED <<vars, state, room, view, queue, lost>>, hub' \subseteq hub,
             \A d \in Connections : conn'[d].updates = conn[d].updates, NEW s \in Sessions
      PROVE  ReplicaKept(s)'
  <2>1. Addressed(s)' => Addressed(s)
    BY <1>5 DEF Addressed, Dropped
  <2>2. \A r, f : OnTheWay(r, f) => OnTheWay(r, f)'
    BY <1>5 DEF OnTheWay
  <2> QED BY <1>5, <2>1, <2>2, SameKeeps
<1>6. CASE Respond(c) \/ Cleanup(c) \/ Broadcast(c)
  <2>1. \A s \in Sessions : Settled(s)'
    BY <1>1, <1>6, ConnectionSettled
  <2>2. UNCHANGED <<vars, state, room, view>> /\ hub' \subseteq hub
    BY <1>6, ConnectionStep DEF Respond, Cleanup, Broadcast
  <2>3. UpdatesCurrent'
    <3>1. CASE conn' = [conn EXCEPT ![c] = Idle]
      BY <1>1, <3>1, GoneCurrent
    <3>2. CASE conn' = [conn EXCEPT ![c].pc = "publish"]
      <4>1. \A d \in Connections : conn'[d].updates = conn[d].updates
            /\ (conn'[d].pc = conn[d].pc \/ conn'[d].pc = "publish")
        BY <1>1, <3>2 DEF ConnectionState
      <4>2. rooms' = rooms /\ Live' = Live
        BY <2>2 DEF vars, Live
      <4>3. ASSUME NEW d \in Connections, NEW u \in conn'[d].updates
            PROVE  /\ conn'[d].pc # "idle"
                   /\ u.room_id \in Live'
                   /\ u.fragment # WholeRoom =>
                        u.value = Promised(rooms'[u.room_id], u.fragment)
        BY <1>1, <4>1, <4>2, <4>3 DEF UpdatesCurrent
      <4> QED BY <4>3 DEF UpdatesCurrent, Promised, CommittedEntry
    <3> QED BY <1>6, <3>1, <3>2 DEF Respond, Cleanup, Broadcast
  <2>4. ASSUME NEW s \in Sessions
        PROVE  ReplicaKept(s)'
    <3>1. ASSUME NEW u \in conn[c].updates, PassBy(u.room_id, Touched(u)), UNCHANGED queue
          PROVE  ReplicaKept(s)'
      BY <2>2, <3>1, PassByKeeps
    <3>2. ASSUME UNCHANGED <<queue, lost>>,
                 \/ conn' = [conn EXCEPT ![c] = Idle] /\ conn[c].updates = {}
                 \/ conn' = [conn EXCEPT ![c].pc = "publish"]
          PROVE  ReplicaKept(s)'
      <4>1. CASE conn' = [conn EXCEPT ![c].pc = "publish"]
        <5>1. \A d \in Connections : conn'[d].updates = conn[d].updates
          BY <1>1, <4>1 DEF ConnectionState
        <5> QED BY <1>5, <2>2, <3>2, <5>1
      <4>2. CASE conn' = [conn EXCEPT ![c] = Idle] /\ conn[c].updates = {}
        <5>1. \A d \in Connections : conn'[d].updates = conn[d].updates
          BY <1>1, <4>2 DEF Idle
        <5> QED BY <1>5, <2>2, <3>2, <5>1
      <4> QED BY <3>2, <4>1, <4>2
    <3>3. CASE Respond(c)
      BY <3>1, <3>2, <3>3 DEF Respond, sessionVars
    <3>4. CASE Cleanup(c)
      BY <3>2, <3>4 DEF Cleanup, sessionVars
    <3>5. CASE Broadcast(c)
      <4>1. PICK u \in conn[c].updates :
              \/ BroadcastUpdate(u)
              \/ PassBy(u.room_id, Touched(u)) /\ UNCHANGED <<hub, queue>>
        BY <3>5 DEF Broadcast
      <4> QED BY <3>1, <3>5, <4>1, BroadcastKeeps
    <3> QED BY <1>6, <3>3, <3>4, <3>5
  <2> QED BY <1>2, <1>3, <2>1, <2>3, <2>4 DEF ReplicaInv
<1> QED BY <1>4, <1>6 DEF Connection, Commands

-----------------------------------------------------------------------------
(* Sessions *)

\* A session step is about one session.
LEMMA SessionOthers ==
  ASSUME ServerTypes, NEW s \in Sessions, Session(s), NEW t \in Sessions, t # s
  PROVE  /\ state'[t] = state[t] /\ room'[t] = room[t] /\ view'[t] = view[t]
         /\ queue'[t] = queue[t] /\ lost'[t] = lost[t]
         /\ <<room[t], t>> \in hub' => <<room[t], t>> \in hub
<1>1. PICK to \in States : state' = [state EXCEPT ![s] = to] /\ Path(s, to)
  BY SessionStep
<1>2. state'[t] = state[t] /\ room'[t] = room[t]
  BY <1>1 DEF Path, ServerTypes
<1>3. <<room[t], t>> \in hub' => <<room[t], t>> \in hub
  BY <1>1 DEF Path
<1>4. view'[t] = view[t] /\ queue'[t] = queue[t]
  BY SessionData DEF ServerTypes
<1>5. lost'[t] = lost[t]
  <2>1. UNCHANGED lost \/ \E l : lost' = [lost EXCEPT ![s] = l]
    BY DEF Session, TakeSnapshot, SendAuthOk, Register, CountUp, Deliver, Stall,
           EndOfEvents, ClientEnds, Deregister, CountDown, Close
  <2> QED BY <2>1 DEF ServerTypes
<1> QED BY <1>2, <1>3, <1>4, <1>5

\* The snapshot shows what the room promises, but for an open transaction.
LEMMA SnapshotKeeps ==
  ASSUME ReplicaInv, NEW s \in Sessions, TakeSnapshot(s)
  PROVE  Settled(s)' /\ ReplicaKept(s)'
<1>1. /\ ServerTypes /\ TypeOK /\ Settled(s)
      /\ UNCHANGED <<rooms, next_room_id, queue>> /\ state[s] = "new"
  BY DEF ReplicaInv, ServerInv, HubInv, ServerTypes, TakeSnapshot, Move, vars
<1>2. queue[s] = << >> /\ queue'[s] = << >> /\ s \in DOMAIN state /\ s \in DOMAIN room
      /\ s \in DOMAIN view /\ s \in DOMAIN lost
  BY <1>1 DEF Settled, ServerTypes
<1>4. ASSUME NEW r \in RoomIds, r \in Live, Move(s, {"new"}, "snapshot"),
             room' = [room EXCEPT ![s] = r], lost' = [lost EXCEPT ![s] = Buffered(r)],
             view' = [view EXCEPT ![s] = SnapshotFor(s, r)]
      PROVE  Settled(s)' /\ ReplicaKept(s)'
  <2> DEFINE v == SnapshotFor(s, r)
  <2>1. state'[s] = "snapshot" /\ room'[s] = r /\ lost'[s] = Buffered(r) /\ view'[s] = v
    BY <1>2, <1>4 DEF Move
  <2>2. r < next_room_id
    BY <1>1, <1>4 DEF TypeOK, RoomIds
  <2>3. Settled(s)'
    BY <1>1, <1>2, <2>1, <2>2 DEF Settled
  <2>4. ASSUME NEW f \in Tellable(s) \ Buffered(r)
        PROVE  Apply(v, << >>)[f] = Promised(rooms[r], f)
    <3>1. f \in FragmentIds /\ f \in Visible(s) /\ rooms[r] \in RoomState
      BY <1>1, <1>4 DEF Tellable, Visible, TypeOK
    <3>2. WritesTo(rooms[r].tx_buffer, f) = {}
      BY <2>4, <3>1 DEF Buffered
    <3>3. Promised(rooms[r], f) = rooms[r].fragments[f].value
      BY <3>1, <3>2, PromisedWithout
    <3>4. v[f] = rooms[r].fragments[f].value
      BY <3>1 DEF SnapshotFor
    <3> HIDE DEF v
    <3>5. Apply(v, << >>)[f] = v[f]
      BY <3>1 DEF Apply
    <3> QED BY <3>3, <3>4, <3>5
  <2> HIDE DEF v
  <2>5. ReplicaKept(s)'
    <3>1. \A f \in Tellable(s) \ lost'[s] : Addressed(s)' /\ r \in Live =>
            OnTheWay(r, f)' \/ Apply(v, << >>)[f] = Promised(rooms[r], f)
      BY <2>1, <2>4
    <3> QED BY <1>1, <1>2, <2>1, <3>1, ReplicaStays
  <2> QED BY <2>3, <2>5
<1>5. ASSUME Move(s, {"new"}, "closed"), UNCHANGED room
      PROVE  Settled(s)' /\ ReplicaKept(s)'
  <2>1. state'[s] = "closed"
    BY <1>2, <1>5 DEF Move
  <2>2. ~Addressed(s)'
    BY <2>1 DEF Addressed
  <2>3. Settled(s)'
    BY <1>2, <2>1 DEF Settled
  <2>4. ReplicaKept(s)'
    BY <2>2 DEF ReplicaKept
  <2> QED BY <2>3, <2>4
<1> QED BY <1>4, <1>5 DEF TakeSnapshot

\* The first event of the queue is now in the view.
LEMMA DeliverKeeps ==
  ASSUME ReplicaInv, NEW s \in Sessions, Deliver(s)
  PROVE  Settled(s)' /\ ReplicaKept(s)'
<1>1. /\ ServerTypes /\ Settled(s) /\ ReplicaKept(s)
      /\ UNCHANGED <<rooms, next_room_id, conn, hub, room, lost>>
      /\ state[s] = "active" /\ state'[s] \in {"active", "stalled"} /\ queue[s] # << >>
  BY DEF ReplicaInv, ServerInv, HubInv, ServerTypes, Deliver, Move, vars
<1>2. queue[s] \in Seq(Event)
  BY <1>1 DEF ServerTypes
<1>3. PICK v, q : v = Apply(view[s], <<Head(queue[s])>>) /\ q = Tail(queue[s])
  OBVIOUS
<1>4. view'[s] = v /\ queue'[s] = q
  BY <1>1, <1>3 DEF Deliver, ServerTypes
<1>5. Settled(s)'
  BY <1>1 DEF Settled
<1>6. \A f \in FragmentIds \ {WholeRoom} : Apply(v, q)[f] = Apply(view[s], queue[s])[f]
  BY <1>1, <1>2, <1>3, ApplyDeliver
<1>7. Addressed(s)' => Addressed(s)
  BY <1>1 DEF Addressed, Dropped
<1>8. ReplicaKept(s)'
  <2> PICK r : r = room[s]
    OBVIOUS
  <2>1. ASSUME NEW f \in Tellable(s) \ lost'[s], Addressed(s)', r \in Live
        PROVE  OnTheWay(r, f)' \/ Apply(v, q)[f] = Promised(rooms[r], f)
    <3>1. f \in Tellable(s) \ lost[s] /\ f \in FragmentIds /\ f # WholeRoom
      BY <1>1 DEF Tellable, Visible
    <3>2. OnTheWay(r, f) \/ Apply(view[s], queue[s])[f] = Promised(rooms[r], f)
      BY <1>1, <1>7, <2>1, <3>1 DEF ReplicaKept
    <3>3. OnTheWay(r, f) => OnTheWay(r, f)'
      BY <1>1 DEF OnTheWay
    <3> QED BY <1>6, <3>1, <3>2, <3>3
  <2>2. UNCHANGED rooms /\ room'[s] = r
    BY <1>1
  <2> QED BY <1>4, <2>1, <2>2, ReplicaStays
<1> QED BY <1>5, <1>8

\* The other steps: the session goes on with its view and queue, or it ends.
LEMMA MoveKeeps ==
  ASSUME ReplicaInv, NEW s \in Sessions,
         \/ SendAuthOk(s) \/ Register(s) \/ CountUp(s) \/ Stall(s) \/ EndOfEvents(s)
         \/ ClientEnds(s) \/ Deregister(s) \/ CountDown(s)
  PROVE  Settled(s)' /\ ReplicaKept(s)'
<1>1. /\ ServerTypes /\ Settled(s)
      /\ UNCHANGED <<vars, rooms, next_room_id, conn, room>>
  BY DEF ReplicaInv, ServerInv, HubInv, vars, SendAuthOk, Register, CountUp, Stall,
         EndOfEvents, ClientEnds, Deregister, CountDown
<1>2. s \in DOMAIN state /\ s \in DOMAIN queue
  BY <1>1 DEF ServerTypes
<1>3. \/ /\ UNCHANGED <<view, queue, lost>>
         /\ \/ state[s] = "snapshot" /\ state'[s] = "accepted" /\ hub' = hub
            \/ state[s] = "accepted" /\ state'[s] = "registered"
            \/ state[s] = "registered" /\ state'[s] = "active" /\ hub' = hub
            \/ state[s] = "active" /\ state'[s] = "stalled" /\ hub' = hub
      \/ /\ state[s] \in {"accepted", "active", "leaving"}
         /\ state'[s] \in {"refused", "leaving", "left"}
         /\ UNCHANGED queue
      \/ state'[s] = "closed" /\ queue'[s] = << >>
  BY <1>2 DEF SendAuthOk, Register, CountUp, Stall, EndOfEvents, ClientEnds, Deregister,
              CountDown, Move, Close
<1>4. ASSUME UNCHANGED <<view, queue, lost>>, Addressed(s)' => Addressed(s)
      PROVE  ReplicaKept(s)'
  <2>1. \A r, f : OnTheWay(r, f) => OnTheWay(r, f)'
    BY <1>1 DEF OnTheWay
  <2> QED BY <1>1, <1>4, <2>1, SameKeeps
<1>5. Settled(s)'
  BY <1>1, <1>3 DEF Settled
<1>6. CASE state'[s] \in {"refused", "leaving", "left", "closed"}
  <2>1. ~Addressed(s)'
    BY <1>6 DEF Addressed
  <2> QED BY <1>5, <2>1 DEF ReplicaKept
<1>7. CASE /\ UNCHANGED <<view, queue, lost>>
           /\ \/ state[s] = "snapshot"
              \/ state[s] = "accepted"
              \/ state[s] = "registered" /\ state'[s] = "active" /\ hub' = hub
              \/ state[s] = "active" /\ state'[s] = "stalled" /\ hub' = hub
  <2>1. Addressed(s)' => Addressed(s)
    BY <1>1, <1>7 DEF Addressed, Dropped
  <2> QED BY <1>4, <1>5, <1>7, <2>1
<1> QED BY <1>3, <1>6, <1>7

LEMMA RoomsStay ==
  ASSUME UNCHANGED <<rooms, conn>>, BuffersClosed, UpdatesCurrent
  PROVE  BuffersClosed' /\ UpdatesCurrent'
<1>1. rooms' = rooms /\ conn' = conn /\ Live' = Live
  BY DEF Live
<1>2. BuffersClosed'
  BY <1>1 DEF BuffersClosed
<1>3. ASSUME NEW c \in Connections, NEW u \in conn'[c].updates
      PROVE  /\ conn'[c].pc # "idle"
             /\ u.room_id \in Live'
             /\ u.fragment # WholeRoom => u.value = Promised(rooms'[u.room_id], u.fragment)
  BY <1>1, <1>3 DEF UpdatesCurrent
<1>4. UpdatesCurrent'
  BY <1>3 DEF UpdatesCurrent, Promised, CommittedEntry
<1> QED BY <1>2, <1>4

LEMMA SessionKeepsReplicas ==
  ASSUME ReplicaInv, NEW s \in Sessions, Session(s)
  PROVE  ReplicaInv'
<1>1. ServerInv /\ ServerTypes /\ BuffersClosed /\ UpdatesCurrent
      /\ \A t \in Sessions : Settled(t)
  BY DEF ReplicaInv, ServerInv, HubInv
<1>2. ServerInv'
  BY <1>1, NextServerInv DEF ServerNext
<1>3. UNCHANGED <<vars, conn, rooms, next_room_id>>
  BY <1>1, SessionStep DEF vars
<1>4. BuffersClosed' /\ UpdatesCurrent'
  BY <1>1, <1>3, RoomsStay
<1>5. Settled(s)' /\ ReplicaKept(s)'
  BY SnapshotKeeps, DeliverKeeps, MoveKeeps DEF Session
<1>6. ASSUME NEW t \in Sessions, t # s
      PROVE  Settled(t)' /\ ReplicaKept(t)'
  <2>1. /\ state'[t] = state[t] /\ room'[t] = room[t] /\ view'[t] = view[t]
        /\ queue'[t] = queue[t] /\ lost'[t] = lost[t]
        /\ <<room[t], t>> \in hub' => <<room[t], t>> \in hub
    BY <1>1, <1>6, SessionOthers
  <2>2. Settled(t)'
    BY <1>1, <1>3, <2>1 DEF Settled
  <2>3. Addressed(t)' => Addressed(t)
    BY <2>1 DEF Addressed, Dropped
  <2>4. \A r, f : OnTheWay(r, f) => OnTheWay(r, f)'
    BY <1>3 DEF OnTheWay
  <2> QED BY <1>3, <2>1, <2>2, <2>3, <2>4, SameKeeps
<1> QED BY <1>2, <1>4, <1>5, <1>6 DEF ReplicaInv

-----------------------------------------------------------------------------
(* What the clients are told *)

LEMMA InitReplicaInv == ServerInit => ReplicaInv
<1> SUFFICES ASSUME ServerInit PROVE ReplicaInv
  OBVIOUS
<1>1. Live = {}
  BY DEF ServerInit, Init, Live
<1>2. ServerInv
  BY InitServerInv
<1>3. BuffersClosed
  BY <1>1 DEF BuffersClosed
<1>4. UpdatesCurrent
  BY DEF UpdatesCurrent, ServerInit, Idle
<1>5. ASSUME NEW s \in Sessions
      PROVE  Settled(s) /\ ReplicaKept(s)
  <2>1. state[s] = "new" /\ queue[s] = << >>
    BY DEF ServerInit
  <2> QED BY <1>1, <2>1 DEF Settled, ReplicaKept
<1> QED BY <1>2, <1>3, <1>4, <1>5 DEF ReplicaInv

LEMMA NextReplicaInv ==
  ASSUME OneController PROVE ReplicaInv /\ [ServerNext]_serverVars => ReplicaInv'
<1> SUFFICES ASSUME ReplicaInv, [ServerNext]_serverVars PROVE ReplicaInv'
  OBVIOUS
<1>1. ASSUME UNCHANGED serverVars PROVE ReplicaInv'
  <2>1. UNCHANGED <<vars, rooms, next_room_id, conn, hub, state, room, view, queue, lost>>
    BY <1>1 DEF serverVars, sessionVars, vars
  <2>2. ServerInv'
    BY NextServerInv DEF ReplicaInv
  <2>3. BuffersClosed' /\ UpdatesCurrent'
    BY <2>1, RoomsStay DEF ReplicaInv
  <2>4. ASSUME NEW s \in Sessions
        PROVE  Settled(s)' /\ ReplicaKept(s)'
    <3>1. Settled(s)'
      BY <2>1 DEF ReplicaInv, Settled
    <3>2. Addressed(s)' => Addressed(s)
      BY <2>1 DEF Addressed, Dropped
    <3>3. \A r, f : OnTheWay(r, f) => OnTheWay(r, f)'
      BY <2>1 DEF OnTheWay
    <3> QED BY <2>1, <3>1, <3>2, <3>3, SameKeeps
  <2> QED BY <2>2, <2>3, <2>4 DEF ReplicaInv
<1> QED BY <1>1, ConnectionKeepsReplicas, SessionKeepsReplicas DEF ServerNext

LEMMA ReplicaInvariant == ASSUME OneController PROVE ServerSpec => []ReplicaInv
<1>1. ReplicaInv /\ [ServerNext]_serverVars => ReplicaInv'
  BY NextReplicaInv
<1> QED BY <1>1, InitReplicaInv, PTL DEF ServerSpec

\* With one controller, and once nothing is on its way, every client still in
\* the hub of a live room without an open transaction shows the value of every
\* fragment it may see, but for those it could not be told of: for any number
\* of sessions, rooms and writes and any limit of the queues.
THEOREM ReplicasAreRight == ASSUME OneController PROVE ServerSpec => []ReplicaUpToDate
<1>1. ReplicaInv => ReplicaUpToDate
  <2> SUFFICES ASSUME ReplicaInv, NEW s \in Sessions, Quiet,
                      state[s] \in {"registered", "active", "stalled"}, ~Dropped(s),
                      room[s] \in Live, ~rooms[room[s]].tx_open,
                      NEW f \in Visible(s) \ (lost[s] \cup {WholeRoom})
               PROVE  Apply(view[s], queue[s])[f] = rooms[room[s]].fragments[f].value
    BY DEF ReplicaUpToDate
  <2>1. ~OnTheWay(room[s], f)
    BY DEF ReplicaInv, UpdatesCurrent, OnTheWay, Quiet
  <2>2. Addressed(s)
    BY DEF Addressed
  <2>3. Apply(view[s], queue[s])[f] = Promised(rooms[room[s]], f)
    BY <2>1, <2>2 DEF ReplicaInv, ReplicaKept, Tellable
  <2>4. /\ f \in FragmentIds /\ rooms[room[s]] \in RoomState
        /\ rooms[room[s]].tx_buffer = << >>
    BY DEF Visible, ReplicaInv, ServerInv, HubInv, ServerTypes, TypeOK, BuffersClosed
  <2>5. Promised(rooms[room[s]], f) = rooms[room[s]].fragments[f].value
    BY <2>4, EmptyBuffer, PromisedWithout
  <2> QED BY <2>3, <2>5
<1> QED BY <1>1, ReplicaInvariant, PTL

-----------------------------------------------------------------------------
(* What several controllers' events tell by their counters                  *)

\* Without transactions none is ever open, so every write takes a version.
NoneOpen == \A r \in Live : ~rooms[r].tx_open

\* Nothing was told of rooms that are still to be created.
ToldOfCreated == \A u \in Told : u.room_id < next_room_id

OrderInv ==
  ServerInv /\ VersionOrder /\ NoneOpen /\ ToldOfCreated /\ CountersTellTheOrder

\* What one update may tell of a fragment, and two of the same.
Tells(u, entry) ==
  /\ u.room_counter <= entry.key_version
  /\ u.room_counter = entry.key_version => u.value = entry.value

Agree(u, w) ==
  /\ w.room_id = u.room_id /\ w.fragment = u.fragment
  /\ w.room_counter = u.room_counter
  => w.value = u.value

LEMMA ToldMembers ==
  /\ \A e : e \in Told <=>
       \/ \E c \in Connections : e \in conn[c].updates
       \/ \E s \in Sessions : \E i \in DOMAIN queue[s] : e = queue[s][i]
  /\ \A e : e \in Told' <=>
       \/ \E c \in Connections : e \in conn'[c].updates
       \/ \E s \in Sessions : \E i \in DOMAIN queue'[s] : e = queue'[s][i]
<1>1. /\ \A e : e \in Announcing <=> \E c \in Connections : e \in conn[c].updates
      /\ \A e : e \in Announcing' <=> \E c \in Connections : e \in conn'[c].updates
  BY DEF Announcing
<1>2. ASSUME NEW e
      PROVE  e \in Queued <=> \E s \in Sessions : \E i \in DOMAIN queue[s] : e = queue[s][i]
  <2> DEFINE of(s) == {queue[s][i] : i \in DOMAIN queue[s]}
  <2>1. \A s \in Sessions : e \in of(s) <=> \E i \in DOMAIN queue[s] : e = queue[s][i]
    OBVIOUS
  <2>2. Queued = UNION {of(s) : s \in Sessions}
    BY DEF Queued
  <2> HIDE DEF of
  <2> QED BY <2>1, <2>2
<1>3. ASSUME NEW e
      PROVE  e \in Queued' <=> \E s \in Sessions : \E i \in DOMAIN queue'[s] : e = queue'[s][i]
  <2> DEFINE of(s) == {queue'[s][i] : i \in DOMAIN queue'[s]}
  <2>1. \A s \in Sessions : e \in of(s) <=> \E i \in DOMAIN queue'[s] : e = queue'[s][i]
    OBVIOUS
  <2>2. Queued' = UNION {of(s) : s \in Sessions}
    BY DEF Queued
  <2> HIDE DEF of
  <2> QED BY <2>1, <2>2
<1> QED BY <1>1, <1>2, <1>3 DEF Told

LEMMA ToldTypes ==
  ASSUME ServerTypes, NEW u \in Told
  PROVE  u \in Event
<1>1. CASE \E c \in Connections : u \in conn[c].updates
  BY <1>1 DEF ServerTypes, ConnectionState
<1>2. ASSUME NEW s \in Sessions, NEW i \in DOMAIN queue[s], u = queue[s][i]
      PROVE  u \in Event
  <2>1. queue[s] \in Seq(Event) /\ i \in 1..Len(queue[s])
    BY DEF ServerTypes
  <2> QED BY <1>2, <2>1
<1> QED BY <1>1, <1>2, ToldMembers

\* The invariant of the events after a step, when they are among some events.
LEMMA OrderWillBe ==
  ASSUME NEW told, Told' \subseteq told,
         \A u \in told : u.fragment # WholeRoom /\ u.room_id \in Live' =>
           Tells(u, rooms'[u.room_id].fragments[u.fragment]),
         \A u, w \in told : u.fragment # WholeRoom => Agree(u, w)
  PROVE  CountersTellTheOrder'
<1>1. CountersTellTheOrder' <=>
        \A u \in Told' :
          u.fragment # WholeRoom =>
            /\ u.room_id \in Live' => Tells(u, rooms'[u.room_id].fragments[u.fragment])
            /\ \A w \in Told' : Agree(u, w)
  BY DEF CountersTellTheOrder, Tells, Agree
<1> QED BY <1>1

\* What OrderWillBe needs of the events there are.
LEMMA OrderNow ==
  ASSUME CountersTellTheOrder
  PROVE  /\ \A u \in Told : u.fragment # WholeRoom /\ u.room_id \in Live =>
              Tells(u, rooms[u.room_id].fragments[u.fragment])
         /\ \A u, w \in Told : u.fragment # WholeRoom => Agree(u, w)
BY DEF CountersTellTheOrder, Tells, Agree

\* A step that applies nothing and tells nothing new.
LEMMA NothingNewKeeps ==
  ASSUME OrderInv, TypeOK', Told' \subseteq Told, next_room_id' >= next_room_id,
         Live' \subseteq Live \cup {next_room_id},
         \A r \in Live \cap Live' : rooms'[r] = rooms[r]
  PROVE  CountersTellTheOrder' /\ ToldOfCreated'
<1>1. /\ next_room_id \in Nat /\ next_room_id' \in Nat
      /\ \A u \in Told : u.room_id \in Nat /\ u.room_id < next_room_id
  <2>1. TypeOK /\ TypeOK' /\ \A u \in Told : u \in Event
    BY ToldTypes DEF OrderInv, ServerInv, HubInv, ServerTypes
  <2> QED BY <2>1 DEF OrderInv, ToldOfCreated, TypeOK, Event, RoomIds
<1>2. ToldOfCreated'
  BY <1>1 DEF ToldOfCreated
<1>3. \A u \in Told : u.fragment # WholeRoom /\ u.room_id \in Live' =>
        Tells(u, rooms'[u.room_id].fragments[u.fragment])
  <2> TAKE u \in Told
  <2> HAVE u.fragment # WholeRoom /\ u.room_id \in Live'
  <2>1. u.room_id \in Live
    BY <1>1
  <2> QED BY <2>1, OrderNow DEF OrderInv
<1> QED BY <1>2, <1>3, OrderNow, OrderWillBe DEF OrderInv

\* A command adds its update to what the clients are told.
LEMMA FinishTells ==
  ASSUME ServerTypes, NEW c \in Connections, NEW updates, NEW deleted,
         Finish(c, updates, deleted)
  PROVE  Told' \subseteq Told \cup updates
<1>1. /\ queue' = queue
      /\ conn' = [conn EXCEPT ![c] = [pc |-> "respond", updates |-> updates, deleted |-> deleted]]
      /\ conn \in [Connections -> ConnectionState]
  BY DEF Finish, sessionVars, ServerTypes
<1>2. \A d \in Connections : conn'[d].updates \subseteq conn[d].updates \cup updates
  BY <1>1
<1> QED BY <1>1, <1>2, ToldMembers

\* Replies, broadcasts and sessions tell nothing that was not under way.
LEMMA OthersTellNothing ==
  ASSUME ServerTypes,
         \/ \E c \in Connections : Respond(c) \/ Cleanup(c) \/ Broadcast(c)
         \/ \E s \in Sessions : Session(s)
  PROVE  Told' \subseteq Told
<1>1. conn \in [Connections -> ConnectionState] /\ queue \in [Sessions -> Seq(Event)]
  BY DEF ServerTypes
<1>2. ASSUME NEW c \in Connections, Respond(c) \/ Cleanup(c) \/ Broadcast(c)
      PROVE  Told' \subseteq Told
  <2>1. \A d \in Connections : conn'[d].updates \subseteq conn[d].updates
    <3>1. conn' = [conn EXCEPT ![c] = Idle] \/ conn' = [conn EXCEPT ![c].pc = "publish"]
      BY <1>2 DEF Respond, Cleanup, Broadcast
    <3> QED BY <1>1, <3>1 DEF Idle, ConnectionState
  <2>2. ASSUME NEW s \in Sessions, NEW i \in DOMAIN queue'[s]
        PROVE  queue'[s][i] \in Told
    <3>1. CASE queue'[s] = queue[s]
      BY <2>2, <3>1, ToldMembers
    <3>2. ASSUME NEW u \in conn[c].updates, queue'[s] = Append(queue[s], u)
          PROVE  queue'[s][i] \in Told
      <4>1. queue[s] \in Seq(Event) /\ u \in Event
        BY <1>1 DEF ConnectionState
      <4>2. queue'[s][i] = u \/ (i \in DOMAIN queue[s] /\ queue'[s][i] = queue[s][i])
        BY <2>2, <3>2, <4>1
      <4> QED BY <4>2, ToldMembers
    <3> QED BY <1>2, <3>1, <3>2, ConnectionQueues DEF Connection
  <2> QED BY <2>1, <2>2, ToldMembers
<1>3. ASSUME NEW s \in Sessions, Session(s)
      PROVE  Told' \subseteq Told
  <2>1. conn' = conn
    BY <1>3, SessionStep
  <2>2. ASSUME NEW t \in Sessions, NEW i \in DOMAIN queue'[t]
        PROVE  queue'[t][i] \in Told
    <3>1. CASE queue'[t] = queue[t]
      BY <2>2, <3>1, ToldMembers
    <3>2. CASE queue'[t] = << >>
      BY <2>2, <3>2
    <3>3. CASE queue[t] # << >> /\ queue'[t] = Tail(queue[t])
      <4>1. queue[t] \in Seq(Event)
        BY <1>1
      <4>2. i + 1 \in DOMAIN queue[t] /\ queue'[t][i] = queue[t][i + 1]
        BY <2>2, <3>3, <4>1
      <4> QED BY <4>2, ToldMembers
    <3>4. \/ queue'[t] = queue[t] \/ queue'[t] = << >>
          \/ queue[t] # << >> /\ queue'[t] = Tail(queue[t])
      BY <1>1, <1>3, SessionData
    <3> QED BY <3>1, <3>2, <3>3, <3>4
  <2> QED BY <2>1, <2>2, ToldMembers
<1> QED BY <1>2, <1>3

\* A write takes a version beyond all that was told of its room.
LEMMA WriteInOrder ==
  ASSUME OrderInv, NEW c \in Connections, Write(c)
  PROVE  CountersTellTheOrder' /\ ToldOfCreated' /\ NoneOpen'
<1>1. PICK r \in RoomIds, f \in FragmentIds, v \in Values :
        /\ r \in Live
        /\ WriteOrBuffer(r, [container |-> f[1], key |-> f[2], value |-> v])
        /\ Finish(c, {Update(r, f, v)}, {})
  BY ValueAssumption DEF Write, Set, CanSet, Del, CanDel
<1>2. /\ ServerTypes /\ TypeOK /\ rooms[r] \in RoomState /\ Ordered(rooms[r])
      /\ ~rooms[r].tx_open
  BY <1>1 DEF OrderInv, ServerInv, HubInv, ServerTypes, TypeOK, VersionOrder, NoneOpen
<1> DEFINE op == [container |-> f[1], key |-> f[2], value |-> v]
           u == Update(r, f, v)
           n == rooms[r].room_counter + 1
<1>3. op \in RoomCommand /\ Target(op) = f /\ op.value = v
  BY DEF RoomCommand, FragmentIds, Target
<1>4. /\ Live' = Live /\ next_room_id' = next_room_id
      /\ \A q \in Live \ {r} : rooms'[q] = rooms[q]
      /\ rooms'[r] = ApplyWrite(rooms[r], op)
  BY <1>1, <1>2 DEF WriteOrBuffer, Live
<1> HIDE DEF op
<1>5. /\ rooms'[r].room_counter = n /\ rooms'[r].tx_open = rooms[r].tx_open
      /\ \A g \in FragmentIds : rooms'[r].fragments[g] =
           IF g = f THEN [value |-> v, key_version |-> n] ELSE rooms[r].fragments[g]
  <2>1. ApplyWrite(rooms[r], op).tx_open = rooms[r].tx_open
    BY <1>2 DEF ApplyWrite, RoomState
  <2> QED BY <1>2, <1>3, <1>4, <2>1, ApplyWriteEntries
<1>6. /\ u.room_id = r /\ u.fragment = f /\ u.room_counter = n
      /\ f # WholeRoom => u.value = v
  BY <1>5 DEF Update
<1>7. Told' \subseteq Told \cup {u}
  BY <1>1, <1>2, FinishTells
<1> HIDE DEF u
<1>8. n \in Nat /\ \A g \in FragmentIds :
        rooms[r].fragments[g].key_version \in Nat /\ rooms[r].fragments[g].key_version < n
  BY <1>2 DEF RoomState, FragmentEntry, Ordered
<1>9. ASSUME NEW w \in Told, w.fragment # WholeRoom
      PROVE  /\ w.fragment \in FragmentIds
             /\ w.room_id \in Live => Tells(w, rooms[w.room_id].fragments[w.fragment])
             /\ w.room_id = r => w.room_counter \in Nat /\ w.room_counter < n
  <2>1. w \in Event
    BY <1>2, ToldTypes
  <2>2. w.fragment \in FragmentIds /\ w.room_counter \in Nat
    BY <1>9, <2>1 DEF Event
  <2>3. w.room_id \in Live => Tells(w, rooms[w.room_id].fragments[w.fragment])
    BY <1>9, OrderNow DEF OrderInv
  <2> QED BY <1>1, <1>8, <2>2, <2>3 DEF Tells
<1>10. \A w \in Told \cup {u} : w.fragment # WholeRoom /\ w.room_id \in Live' =>
         Tells(w, rooms'[w.room_id].fragments[w.fragment])
  <2> TAKE w \in Told \cup {u}
  <2> HAVE w.fragment # WholeRoom /\ w.room_id \in Live'
  <2>1. CASE w = u
    BY <1>5, <1>6, <1>8, <2>1 DEF Tells
  <2>2. CASE w \in Told /\ (w.room_id # r \/ w.fragment # f)
    BY <1>4, <1>5, <1>9, <2>2
  <2>3. CASE w \in Told /\ w.room_id = r /\ w.fragment = f
    BY <1>5, <1>8, <1>9, <2>3 DEF Tells
  <2> QED BY <2>1, <2>2, <2>3
<1>11. \A w, x \in Told \cup {u} : w.fragment # WholeRoom => Agree(w, x)
  <2> TAKE w, x \in Told \cup {u}
  <2> HAVE w.fragment # WholeRoom
  <2>1. CASE w \in Told /\ x \in Told
    BY <2>1, OrderNow DEF OrderInv
  <2>2. CASE w = u /\ x = u
    BY <2>2 DEF Agree
  <2>3. CASE w = u /\ x \in Told
    BY <1>6, <1>8, <1>9, <2>3 DEF Agree
  <2>4. CASE w \in Told /\ x = u
    BY <1>6, <1>8, <1>9, <2>4 DEF Agree
  <2> QED BY <2>1, <2>2, <2>3, <2>4
<1>12. CountersTellTheOrder'
  BY <1>7, <1>10, <1>11, OrderWillBe
<1>13. ToldOfCreated'
  <2>1. r < next_room_id
    BY <1>1, <1>2 DEF TypeOK, RoomIds
  <2> QED BY <1>4, <1>6, <1>7, <2>1 DEF OrderInv, ToldOfCreated
<1>14. NoneOpen'
  BY <1>2, <1>4, <1>5 DEF OrderInv, NoneOpen
<1> QED BY <1>12, <1>13, <1>14

LEMMA NextOrderInv ==
  ASSUME ~Transactions PROVE OrderInv /\ [ServerNext]_serverVars => OrderInv'
<1> SUFFICES ASSUME OrderInv, [ServerNext]_serverVars PROVE OrderInv'
  OBVIOUS
<1>1. ServerInv /\ HubInv /\ ServerTypes /\ TypeOK /\ VersionOrder /\ NoneOpen
  BY DEF OrderInv, ServerInv, HubInv, ServerTypes
<1>2. ServerInv'
  BY <1>1, NextServerInv
<1>3. [Next]_vars
  BY <1>1, ConnectionStep, SessionStep DEF ServerNext, serverVars, vars
<1>4. TypeOK' /\ VersionOrder'
  BY <1>1, <1>3, NextType, NextOrder
<1>5. ASSUME UNCHANGED vars, Told' \subseteq Told
      PROVE  OrderInv'
  <2>1. rooms' = rooms /\ next_room_id' = next_room_id /\ Live' = Live
    BY <1>5 DEF vars, Live
  <2>2. next_room_id' >= next_room_id
    BY <1>1, <2>1 DEF TypeOK
  <2>3. CountersTellTheOrder' /\ ToldOfCreated'
    BY <1>4, <1>5, <2>1, <2>2, NothingNewKeeps
  <2>4. NoneOpen'
    BY <1>1, <2>1 DEF NoneOpen
  <2> QED BY <1>2, <1>4, <2>3, <2>4 DEF OrderInv
<1>6. ASSUME NEW c \in Connections, Commands(c)
      PROVE  OrderInv'
  <2>1. CASE Create(c)
    <3>1. /\ next_room_id \in Nat /\ next_room_id' = next_room_id + 1
          /\ Live' = Live \cup {next_room_id} /\ next_room_id \notin Live
          /\ \A r \in Live : rooms'[r] = rooms[r]
          /\ rooms'[next_room_id] = NewRoom
      BY <1>1, <2>1 DEF Create, RoomCreate, Live, TypeOK
    <3>2. Told' \subseteq Told
      BY <1>1, <2>1, FinishTells DEF Create
    <3>3. CountersTellTheOrder' /\ ToldOfCreated'
      BY <1>4, <3>1, <3>2, NothingNewKeeps
    <3>4. NoneOpen'
      BY <1>1, <3>1 DEF NoneOpen, NewRoom
    <3> QED BY <1>2, <1>4, <3>3, <3>4 DEF OrderInv
  <2>2. CASE Delete(c)
    <3>1. PICK r \in RoomIds, quoted \in BOOLEAN :
            RoomDelete(r) /\ Finish(c, {}, IF quoted THEN {} ELSE {r})
      BY <2>2 DEF Delete
    <3>2. /\ next_room_id \in Nat /\ next_room_id' = next_room_id
          /\ Live' \subseteq Live /\ \A q \in Live' : rooms'[q] = rooms[q]
      BY <1>1, <3>1 DEF RoomDelete, Live, TypeOK
    <3>3. Told' \subseteq Told
      BY <1>1, <3>1, FinishTells
    <3>4. CountersTellTheOrder' /\ ToldOfCreated'
      BY <1>4, <3>2, <3>3, NothingNewKeeps
    <3>5. NoneOpen'
      BY <1>1, <3>2 DEF NoneOpen
    <3> QED BY <1>2, <1>4, <3>4, <3>5 DEF OrderInv
  <2>3. CASE Write(c)
    BY <1>2, <1>4, <2>3, WriteInOrder DEF OrderInv
  <2>4. CASE AnswerOnly(c)
    BY <1>1, <1>5, <2>4, FinishTells DEF AnswerOnly
  <2> QED BY <1>6, <2>1, <2>2, <2>3, <2>4 DEF Commands, Transact
<1>7. ASSUME \/ \E c \in Connections : Respond(c) \/ Cleanup(c) \/ Broadcast(c)
             \/ \E s \in Sessions : Session(s)
      PROVE  OrderInv'
  <2>1. UNCHANGED vars
    BY <1>1, <1>7, SessionStep DEF Respond, Cleanup, Broadcast
  <2> QED BY <1>1, <1>5, <1>7, <2>1, OthersTellNothing
<1>8. CASE UNCHANGED serverVars
  <2>1. UNCHANGED <<vars, conn, queue>>
    BY <1>8 DEF serverVars, sessionVars, vars
  <2>2. Told' \subseteq Told
    BY <2>1 DEF Told, Announcing, Queued
  <2> QED BY <1>5, <2>1, <2>2
<1> QED BY <1>6, <1>7, <1>8 DEF ServerNext, Connection, Commands

\* Without transactions the counters tell which of two events about a fragment is
\* the older one, and which is about the value it has now, however many
\* controllers write and in whatever order their changes are broadcast
\* (main.rs:605-626).
THEOREM CountersAreInOrder ==
  ASSUME ~Transactions PROVE ServerSpec => []CountersTellTheOrder
<1>1. ServerInit => OrderInv
  <2> SUFFICES ASSUME ServerInit PROVE OrderInv
    OBVIOUS
  <2>1. Live = {} /\ Told = {}
    BY DEF ServerInit, Init, Live, Told, Announcing, Queued, Idle
  <2> QED BY <2>1, InitServerInv DEF OrderInv, VersionOrder, NoneOpen, ToldOfCreated,
                                     CountersTellTheOrder
<1>2. OrderInv /\ [ServerNext]_serverVars => OrderInv'
  BY NextOrderInv
<1>3. OrderInv => CountersTellTheOrder
  BY DEF OrderInv
<1> QED BY <1>1, <1>2, <1>3, PTL DEF ServerSpec
=============================================================================
