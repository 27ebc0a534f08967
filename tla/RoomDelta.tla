----------------------------- MODULE RoomDelta -----------------------------
(***************************************************************************)
(* Catching up by version: a reader that holds the snapshot of a room      *)
(* (AppState::room_snapshot) asks later for what changed since the counter *)
(* in that snapshot (AppState::room_delta) and lays the answer over what   *)
(* it holds.  room_delta is what the store offers for the                  *)
(* last_seen_counter of the client protocol; the session handler does not  *)
(* call it yet (ws.rs:323).  Readers run beside the commands of RoomStore; *)
(* either call reads the room under one read guard.                        *)
(***************************************************************************)
EXTENDS RoomStore

CONSTANTS
  Readers,  \* readers with a copy of a room
  Public,   \* the container every reader may see
  Granted   \* the containers each reader's token names

ASSUME GrantAssumption == Granted \in [Readers -> SUBSET Containers]

VARIABLE copy  \* what each reader holds: the room (0 is none), its counter, the values

deltaVars == <<rooms, next_room_id, copy>>

Visible(allowed) == {f \in FragmentIds : f[1] = Public \/ f[1] \in allowed}

\* Mutant of RoomSnapshot: containers are not looked at.
SnapshotOfAll(room, allowed) ==
  [room_counter |-> room.room_counter,
   values |-> [f \in FragmentIds |-> room.fragments[f].value]]

\* Values by fragment; Absent where the JSON has no such entry.
RoomSnapshot(room, allowed) ==
  [room_counter |-> room.room_counter,
   values |-> [f \in FragmentIds |->
                 IF f \in Visible(allowed) /\ Exists(room, f)
                 THEN room.fragments[f].value ELSE Absent]]

\* Mutant of RoomChanges: the first change after the counter is left out.
ChangesOffByOne(room, since, allowed) ==
  [room_counter |-> room.room_counter,
   values |-> [f \in FragmentIds |->
                 IF f \in Visible(allowed) /\ room.fragments[f].key_version > since + 1
                 THEN room.fragments[f].value ELSE Absent]]

RoomChanges(room, since, allowed) ==
  [room_counter |-> room.room_counter,
   values |-> [f \in FragmentIds |->
                 IF /\ since < room.room_counter
                    /\ f \in Visible(allowed)
                    /\ room.fragments[f].key_version > since
                 THEN room.fragments[f].value ELSE Absent]]

\* What a reader does with an answer: entries in it replace entries it holds.
Overlay(values, changes) ==
  [f \in FragmentIds |-> IF changes[f] = Absent THEN values[f] ELSE changes[f]]

CaughtUp(reader) ==
  LET held == copy[reader]
      changes == RoomChanges(rooms[held.room], held.since, Granted[reader]) IN
  [held EXCEPT !.since = changes.room_counter,
               !.values = Overlay(held.values, changes.values)]

DeltaInit ==
  /\ Init
  /\ copy = [reader \in Readers |->
               [room |-> 0, since |-> 0, values |-> [f \in FragmentIds |-> Absent]]]

TakeSnapshot(reader, r) ==
  /\ r \in Live
  /\ LET snapshot == RoomSnapshot(rooms[r], Granted[reader]) IN
     copy' = [copy EXCEPT ![reader] = [room |-> r, since |-> snapshot.room_counter,
                                       values |-> snapshot.values]]
  /\ UNCHANGED vars

CatchUp(reader) ==
  /\ copy[reader].room \in Live
  /\ copy' = [copy EXCEPT ![reader] = CaughtUp(reader)]
  /\ UNCHANGED vars

DeltaNext ==
  \/ Next /\ UNCHANGED copy
  \/ \E reader \in Readers :
       \/ CatchUp(reader)
       \/ \E r \in RoomIds : TakeSnapshot(reader, r)

DeltaSpec == DeltaInit /\ [][DeltaNext]_deltaVars

-----------------------------------------------------------------------------
(* Properties *)

\* A copy belongs to a room that was created, also after its deletion.
CopyTypeOK ==
  copy \in [Readers -> [room : 0..(next_room_id - 1), since : Nat,
                        values : [FragmentIds -> Values \cup {Absent}]]]

\* Nothing is ever missed: whatever happened since a reader took or updated its
\* copy (writes, tombstones, commits of several writes, other rooms deleted and
\* created), laying the changes since its counter over the copy gives exactly
\* the snapshot the server would send now.
CatchUpIsComplete ==
  \A reader \in Readers : copy[reader].room \in Live =>
    CaughtUp(reader).values =
      RoomSnapshot(rooms[copy[reader].room], Granted[reader]).values

\* A reader only ever holds values of containers it may see.
OnlyGranted ==
  \A reader \in Readers, f \in FragmentIds :
    copy[reader].values[f] # Absent => f \in Visible(Granted[reader])
=============================================================================
