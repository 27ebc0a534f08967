----------------------------- MODULE RoomStore -----------------------------
(***************************************************************************)
(* The room store of syncpond-server: the rooms of AppState (state.rs) and *)
(* the room commands of process_command (commands.rs) that change them.    *)
(*                                                                         *)
(* Every command below runs under one write guard of the application lock  *)
(* (for example commands.rs:114-134), so one command is one action.  A     *)
(* transaction belongs to the room and not to the connection that opened   *)
(* it: no action names a connection, and any of them may write into,       *)
(* commit or abort the transaction another one began.  A command is        *)
(* accepted when its CanXxx predicate holds; one that is refused leaves    *)
(* the store alone.                                                        *)
(***************************************************************************)
EXTENDS Integers, Sequences, FiniteSets

CONSTANTS
  Containers,   \* container names
  Keys,         \* fragment keys
  Values,       \* JSON values a SET may carry, Null among them
  Null,         \* JSON null: the value of a tombstone
  Absent,       \* no value: a fragment that was never written
  MaxRooms,     \* bound: rooms created in a behaviour
  MaxCounter,   \* bound: the highest room_counter of each room
  MaxBuffer     \* bound: writes buffered by one transaction

ASSUME ValueAssumption == Null \in Values /\ Absent \notin Values
ASSUME BoundAssumption == MaxRooms \in Nat /\ MaxBuffer \in Nat /\ MaxCounter \in [1..MaxRooms -> Nat]

VARIABLES
  rooms,        \* AppState.rooms: the live rooms by id
  next_room_id  \* AppState.next_room_id

vars == <<rooms, next_room_id>>

-----------------------------------------------------------------------------
(* The data of a room.  A container exists exactly when it holds a         *)
(* fragment (entry().or_default() is always followed by an insert and      *)
(* nothing removes one), so the two nested maps are one function on the    *)
(* pairs of names, and a pair that is in neither map has key_version 0.    *)

FragmentIds == Containers \X Keys

FragmentEntry == [value : Values \cup {Absent}, key_version : Nat]

\* RoomCommand.  Del is the write of Null: tx_end handles both alike.
RoomCommand == [container : Containers, key : Keys, value : Values]

\* tx_buffer : Option<Vec<_>> is the pair of tx_open (Some) and tx_buffer.
RoomState ==
  [room_counter : Nat,
   fragments    : [FragmentIds -> FragmentEntry],
   tx_open      : BOOLEAN,
   tx_buffer    : Seq(RoomCommand)]

NewRoom ==
  [room_counter |-> 0,
   fragments    |-> [f \in FragmentIds |-> [value |-> Absent, key_version |-> 0]],
   tx_open      |-> FALSE,
   tx_buffer    |-> << >>]

Target(op) == <<op.container, op.key>>

Exists(room, f) == room.fragments[f].key_version > 0

HasContainer(room, c) == \E k \in Keys : Exists(room, <<c, k>>)

-----------------------------------------------------------------------------
(* What one write, and the commit of a buffer, do to a room. *)

\* Mutant of ApplyWrite: a tombstone takes no version of its own.
TombstoneKeepsVersion(room, op) ==
  LET version == IF op.value = Null THEN room.room_counter ELSE room.room_counter + 1 IN
  [room EXCEPT !.room_counter = version,
               !.fragments[Target(op)] = [value |-> op.value, key_version |-> version]]

\* The write of set_fragment and del_fragment outside a transaction.
ApplyWrite(room, op) ==
  LET version == room.room_counter + 1 IN
  [room EXCEPT !.room_counter = version,
               !.fragments[Target(op)] = [value |-> op.value, key_version |-> version]]

BufferWrite(room, op) == [room EXCEPT !.tx_buffer = Append(@, op)]

WritesTo(buffer, f) == {i \in DOMAIN buffer : Target(buffer[i]) = f}

\* Mutants of CommittedEntry: the first write of a fragment wins; all writes of
\* a commit share one version.
FirstWriteWins(room, f) ==
  LET written == WritesTo(room.tx_buffer, f) IN
  IF written = {}
  THEN room.fragments[f]
  ELSE LET first == CHOOSE i \in written : \A j \in written : i <= j IN
       [value |-> room.tx_buffer[first].value,
        key_version |-> room.room_counter + first]

OneVersionPerCommit(room, f) ==
  LET written == WritesTo(room.tx_buffer, f) IN
  IF written = {}
  THEN room.fragments[f]
  ELSE [value |-> room.tx_buffer[CHOOSE i \in written : \A j \in written : j <= i].value,
        key_version |-> room.room_counter + Len(room.tx_buffer)]

\* The entry tx_end's loop leaves in f: its last write in the buffer, under
\* the version the counter had reached then, or the old entry without one.
CommittedEntry(room, f) ==
  LET written == WritesTo(room.tx_buffer, f) IN
  IF written = {}
  THEN room.fragments[f]
  ELSE LET last == CHOOSE i \in written : \A j \in written : j <= i IN
       [value |-> room.tx_buffer[last].value,
        key_version |-> room.room_counter + last]

\* Mutant of CommitBuffer: the versions of a commit start again from zero.
CommitFromZero(room) ==
  [room_counter |-> Len(room.tx_buffer),
   fragments    |-> [f \in FragmentIds |-> CommittedEntry(room, f)],
   tx_open      |-> FALSE,
   tx_buffer    |-> << >>]

CommitBuffer(room) ==
  [room_counter |-> room.room_counter + Len(room.tx_buffer),
   fragments    |-> [f \in FragmentIds |-> CommittedEntry(room, f)],
   tx_open      |-> FALSE,
   tx_buffer    |-> << >>]

DiscardBuffer(room) == [room EXCEPT !.tx_open = FALSE, !.tx_buffer = << >>]

\* tx_end as its loop: the room after each of the buffered writes.
AppliedWrites(room) ==
  LET applied[n \in 0..Len(room.tx_buffer)] ==
        IF n = 0 THEN DiscardBuffer(room)
        ELSE ApplyWrite(applied[n - 1], room.tx_buffer[n])
  IN applied

CommitLoop(room) == AppliedWrites(room)[Len(room.tx_buffer)]

-----------------------------------------------------------------------------
Init ==
  /\ rooms = << >>
  /\ next_room_id = 1

Live == DOMAIN rooms

\* A bound: the room has a version left for one more write, now or at commit.
HasVersionLeft(r) ==
  /\ rooms[r].room_counter + Len(rooms[r].tx_buffer) < MaxCounter[r]
  /\ Len(rooms[r].tx_buffer) < MaxBuffer

\* Mutant of RoomCreate: the id is not used up.
CreateKeepsId ==
  /\ next_room_id <= MaxRooms
  /\ rooms' = [r \in Live \cup {next_room_id} |->
                 IF r = next_room_id THEN NewRoom ELSE rooms[r]]
  /\ UNCHANGED next_room_id

RoomCreate ==
  /\ next_room_id <= MaxRooms
  /\ rooms' = [r \in Live \cup {next_room_id} |->
                 IF r = next_room_id THEN NewRoom ELSE rooms[r]]
  /\ next_room_id' = next_room_id + 1

CanDelete(r) == r \in Live

\* Mutant of RoomDelete: the id of the youngest room is handed out again.
DeleteFreesId(r) ==
  /\ CanDelete(r)
  /\ rooms' = [q \in Live \ {r} |-> rooms[q]]
  /\ next_room_id' = IF r = next_room_id - 1 THEN r ELSE next_room_id

RoomDelete(r) ==
  /\ CanDelete(r)
  /\ rooms' = [q \in Live \ {r} |-> rooms[q]]
  /\ UNCHANGED next_room_id

\* Mutant of WriteOrBuffer: an open transaction is overlooked.
WriteThrough(r, op) ==
  /\ HasVersionLeft(r)
  /\ rooms' = [rooms EXCEPT ![r] = ApplyWrite(@, op)]
  /\ UNCHANGED next_room_id

\* A write is buffered while the room's transaction is open, whoever opened it.
WriteOrBuffer(r, op) ==
  /\ HasVersionLeft(r)
  /\ \/ /\ rooms[r].tx_open
        /\ rooms' = [rooms EXCEPT ![r] = BufferWrite(@, op)]
     \/ /\ ~rooms[r].tx_open
        /\ rooms' = [rooms EXCEPT ![r] = ApplyWrite(@, op)]
  /\ UNCHANGED next_room_id

CanSet(r) == r \in Live

Set(r, c, k, v) ==
  /\ CanSet(r)
  /\ WriteOrBuffer(r, [container |-> c, key |-> k, value |-> v])

CanDel(r, c) == r \in Live /\ (rooms[r].tx_open \/ HasContainer(rooms[r], c))

Del(r, c, k) ==
  /\ CanDel(r, c)
  /\ WriteOrBuffer(r, [container |-> c, key |-> k, value |-> Null])

CanTxBegin(r) == r \in Live /\ ~rooms[r].tx_open

TxBegin(r) ==
  /\ CanTxBegin(r)
  /\ rooms' = [rooms EXCEPT ![r].tx_open = TRUE, ![r].tx_buffer = << >>]
  /\ UNCHANGED next_room_id

CanTxEnd(r) == r \in Live /\ rooms[r].tx_open

TxEnd(r) ==
  /\ CanTxEnd(r)
  /\ rooms' = [rooms EXCEPT ![r] = CommitBuffer(@)]
  /\ UNCHANGED next_room_id

CanTxAbort(r) == r \in Live   \* also without a transaction: OK, nothing happens

TxAbort(r) ==
  /\ CanTxAbort(r)
  /\ rooms' = [rooms EXCEPT ![r] = DiscardBuffer(@)]
  /\ UNCHANGED next_room_id

RoomIds == 1..MaxRooms

Next ==
  \/ RoomCreate
  \/ \E r \in RoomIds :
       \/ RoomDelete(r)
       \/ TxBegin(r)
       \/ TxEnd(r)
       \/ TxAbort(r)
       \/ \E c \in Containers, k \in Keys :
            \/ Del(r, c, k)
            \/ \E v \in Values : Set(r, c, k, v)

Spec == Init /\ [][Next]_vars
-----------------------------------------------------------------------------
(* Properties *)

\* Every variable keeps its type, and ids not handed out yet are not live.
TypeOK ==
  /\ next_room_id \in Nat \ {0}
  /\ Live \subseteq 1..(next_room_id - 1)
  /\ rooms \in [Live -> RoomState]

\* The closed form of tx_end in the action TxEnd, which the properties and the
\* proofs reason about, is what the loop of state.rs:406-435 computes from every
\* room and buffer the commands can produce.
CommitIsTheLoop == \A r \in Live : CommitBuffer(rooms[r]) = CommitLoop(rooms[r])

Ordered(room) ==
  /\ \A f \in FragmentIds : room.fragments[f].key_version <= room.room_counter
  /\ \A f, g \in FragmentIds :
       /\ Exists(room, f)
       /\ room.fragments[f].key_version = room.fragments[g].key_version
       => f = g
  /\ room.room_counter > 0 =>
       \E f \in FragmentIds : room.fragments[f].key_version = room.room_counter

\* key_version totally orders the fragments of a room and the counter is its
\* maximum: no version is beyond room_counter, no two fragments share one, and
\* once anything was written some fragment carries the counter itself.  This
\* is what lets a reader tell from one number whether it has missed a change.
VersionOrder == \A r \in Live : Ordered(rooms[r])

\* What may become of a room during its transaction: readers see no change, or
\* the transaction is over and took one version for each of its writes.
UnseenOrCommitted(old, new) ==
  \/ /\ new.room_counter = old.room_counter
     /\ new.fragments = old.fragments
  \/ /\ ~new.tx_open
     /\ new.room_counter = old.room_counter + Len(old.tx_buffer)
     /\ \A f \in FragmentIds :
          new.fragments[f] # old.fragments[f] => WritesTo(old.tx_buffer, f) # {}

\* A transaction is invisible until it ends and takes effect in one step: while
\* it stays open the room does not change for readers, whichever connection
\* writes, and its commit changes only what it wrote.
TxIsAtomic ==
  [][\A r \in Live \cap Live' :
       rooms[r].tx_open => UnseenOrCommitted(rooms[r], rooms'[r])]_vars

-----------------------------------------------------------------------------
(* What a reader of the rooms may rely on is VersionedRooms; a transaction's *)
(* buffer is no part of it.                                                  *)
Versioned ==
  INSTANCE VersionedRooms WITH
    content <- [r \in Live |-> [counter |-> rooms[r].room_counter,
                                fragments |-> rooms[r].fragments]],
    created <- 1..(next_room_id - 1)

\* Every command is, for a reader, a step of VersionedRooms or no step at all.
RefinesVersionedRooms == Versioned!Spec
=============================================================================
