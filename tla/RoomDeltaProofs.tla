-------------------------- MODULE RoomDeltaProofs --------------------------
(***************************************************************************)
(* Catching up by version misses nothing, for any number of readers, any   *)
(* grants and any commands.  The reason is one fact about the store        *)
(* (RoomStepFollows): what a command changes gets a version above the      *)
(* counter the room had, hence above the counter of every copy; so an      *)
(* entry whose version is not above a copy's counter is as it was when the *)
(* copy was made.                                                          *)
(***************************************************************************)
EXTENDS RoomDelta, RoomStoreProofs

\* An entry has a value exactly when it was written.
Written(room) ==
  \A f \in FragmentIds :
    IF Exists(room, f) THEN room.fragments[f].value \in Values
                       ELSE room.fragments[f].value = Absent

AllWritten == \A r \in Live : Written(rooms[r])

\* A copy of a room: right wherever the room has not changed since.
Agrees(held, room, allowed) ==
  /\ held.since <= room.room_counter
  /\ \A f \in FragmentIds :
       IF f \in Visible(allowed)
       THEN room.fragments[f].key_version <= held.since
              => held.values[f] = room.fragments[f].value
       ELSE held.values[f] = Absent

CopiesAgree ==
  \A reader \in Readers : copy[reader].room \in Live =>
    Agrees(copy[reader], rooms[copy[reader].room], Granted[reader])

DeltaInv == TypeOK /\ VersionOrder /\ AllWritten /\ CopyTypeOK /\ CopiesAgree

-----------------------------------------------------------------------------
(* The store *)

LEMMA FollowsWritten ==
  ASSUME NEW old \in RoomState, NEW new \in RoomState, Written(old),
         Seen(new) = Seen(old) \/ Versioned!Follows(Seen(new), Seen(old))
  PROVE  Written(new)
<1>1. CASE Seen(new) = Seen(old)
  BY <1>1 DEF Seen, Written, Exists
<1>2. CASE Versioned!Follows(Seen(new), Seen(old))
  <2>1. old.room_counter \in Nat
    BY DEF RoomState
  <2>2. ASSUME NEW f \in FragmentIds
        PROVE  \/ new.fragments[f] = old.fragments[f]
               \/ /\ new.fragments[f].key_version \in (old.room_counter + 1)..new.room_counter
                  /\ new.fragments[f].value \in Values
    BY <1>2 DEF Versioned!Follows, Versioned!FragmentIds, FragmentIds, Seen
  <2> QED BY <2>1, <2>2 DEF Written, Exists
<1> QED BY <1>1, <1>2

LEMMA NextWritten == TypeOK /\ AllWritten /\ [Next]_vars => AllWritten'
<1> SUFFICES ASSUME TypeOK, AllWritten, [Next]_vars PROVE AllWritten'
  OBVIOUS
<1>1. CASE RoomCreate
  <2>1. Written(NewRoom)
    BY DEF Written, NewRoom, Exists
  <2> QED BY <1>1, <2>1 DEF RoomCreate, AllWritten, Live
<1>2. ASSUME NEW r \in Live, RoomDelete(r)
      PROVE  AllWritten'
  BY <1>2 DEF RoomDelete, AllWritten, Live
<1>3. ASSUME NEW r \in Live, NEW new, RoomStep(rooms[r], new),
             rooms' = [rooms EXCEPT ![r] = new]
      PROVE  AllWritten'
  <2>1. rooms[r] \in RoomState /\ new \in RoomState /\ Written(rooms[r])
    BY <1>3, RoomStepType DEF TypeOK, AllWritten
  <2>2. Written(new)
    BY <1>3, <2>1, RoomStepFollows, FollowsWritten
  <2> QED BY <1>3, <2>2 DEF TypeOK, AllWritten, Live
<1>4. CASE UNCHANGED vars
  BY <1>4 DEF vars, AllWritten, Live
<1> QED BY <1>1, <1>2, <1>3, <1>4, StepCases

-----------------------------------------------------------------------------
(* The copies *)

\* A command does not make a copy wrong where the copy claims to be right.
LEMMA FollowsAgrees ==
  ASSUME NEW old \in RoomState, NEW new \in RoomState, NEW allowed, NEW held,
         held.since \in Nat, Agrees(held, old, allowed),
         Seen(new) = Seen(old) \/ Versioned!Follows(Seen(new), Seen(old))
  PROVE  Agrees(held, new, allowed)
<1>1. CASE Seen(new) = Seen(old)
  BY <1>1 DEF Seen, Agrees
<1>2. CASE Versioned!Follows(Seen(new), Seen(old))
  <2>1. old.room_counter \in Nat /\ new.room_counter \in Nat
    BY DEF RoomState
  <2>2. new.room_counter > old.room_counter
    BY <1>2 DEF Versioned!Follows, Seen
  <2>3. ASSUME NEW f \in FragmentIds
        PROVE  \/ new.fragments[f] = old.fragments[f]
               \/ new.fragments[f].key_version \in (old.room_counter + 1)..new.room_counter
    BY <1>2 DEF Versioned!Follows, Versioned!FragmentIds, FragmentIds, Seen
  <2>4. held.since <= old.room_counter
    BY DEF Agrees
  <2>5. ASSUME NEW f \in FragmentIds, new.fragments[f].key_version <= held.since
        PROVE  new.fragments[f] = old.fragments[f]
    BY <2>1, <2>3, <2>4, <2>5
  <2> QED BY <2>1, <2>2, <2>4, <2>5 DEF Agrees
<1> QED BY <1>1, <1>2

\* A copy that agrees with its room is brought up to date by the changes since.
LEMMA OverlayIsSnapshot ==
  ASSUME NEW room \in RoomState, NEW allowed, NEW held,
         Ordered(room), Written(room), held.since \in Nat, Agrees(held, room, allowed)
  PROVE  Overlay(held.values, RoomChanges(room, held.since, allowed).values)
           = RoomSnapshot(room, allowed).values
<1> DEFINE changes == RoomChanges(room, held.since, allowed).values
           snapshot == RoomSnapshot(room, allowed).values
<1>1. ASSUME NEW f \in FragmentIds
      PROVE  (IF changes[f] = Absent THEN held.values[f] ELSE changes[f]) = snapshot[f]
  <2>1. /\ room.room_counter \in Nat
        /\ room.fragments[f].key_version \in Nat
        /\ room.fragments[f].key_version <= room.room_counter
    BY DEF RoomState, FragmentEntry, Ordered
  <2>2. snapshot[f] = IF f \in Visible(allowed) /\ Exists(room, f)
                      THEN room.fragments[f].value ELSE Absent
    BY DEF RoomSnapshot
  <2>3. changes[f] = IF /\ held.since < room.room_counter
                        /\ f \in Visible(allowed)
                        /\ room.fragments[f].key_version > held.since
                     THEN room.fragments[f].value ELSE Absent
    BY DEF RoomChanges
  <2> HIDE DEF changes, snapshot
  <2>4. CASE f \notin Visible(allowed)
    BY <2>2, <2>3, <2>4 DEF Agrees
  <2>5. CASE f \in Visible(allowed) /\ room.fragments[f].key_version > held.since
    <3>1. Exists(room, f) /\ held.since < room.room_counter
      BY <2>1, <2>5 DEF Exists
    <3>2. room.fragments[f].value # Absent
      BY <3>1, ValueAssumption DEF Written
    <3> QED BY <2>2, <2>3, <2>5, <3>1, <3>2
  <2>6. CASE f \in Visible(allowed) /\ room.fragments[f].key_version <= held.since
    <3>1. held.values[f] = room.fragments[f].value
      BY <2>6 DEF Agrees
    <3>2. snapshot[f] = room.fragments[f].value
      BY <2>2, <2>6 DEF Written
    <3>3. changes[f] = Absent
      BY <2>1, <2>3, <2>6
    <3> QED BY <3>1, <3>2, <3>3
  <2> QED BY <2>1, <2>4, <2>5, <2>6
<1>2. snapshot = [f \in FragmentIds |-> snapshot[f]]
  BY DEF RoomSnapshot
<1> HIDE DEF changes, snapshot
<1>3. Overlay(held.values, changes) = snapshot
  BY <1>1, <1>2 DEF Overlay
<1> QED BY <1>3 DEF changes, snapshot

\* The snapshot agrees with the room it was taken of.
LEMMA SnapshotAgrees ==
  ASSUME NEW room \in RoomState, NEW allowed, NEW held, Written(room),
         held.since = room.room_counter,
         held.values = RoomSnapshot(room, allowed).values
  PROVE  Agrees(held, room, allowed)
<1>1. \A f \in FragmentIds : held.values[f] =
        IF f \in Visible(allowed) /\ Exists(room, f)
        THEN room.fragments[f].value ELSE Absent
  BY DEF RoomSnapshot
<1>2. room.room_counter <= room.room_counter
  BY DEF RoomState
<1> QED BY <1>1, <1>2 DEF Agrees, Written

LEMMA SnapshotType ==
  ASSUME NEW room \in RoomState, NEW allowed
  PROVE  RoomSnapshot(room, allowed).values \in [FragmentIds -> Values \cup {Absent}]
BY DEF RoomSnapshot, RoomState, FragmentEntry

-----------------------------------------------------------------------------
(* The invariant *)

LEMMA InitDeltaInv == DeltaInit => DeltaInv
<1> SUFFICES ASSUME DeltaInit PROVE DeltaInv
  OBVIOUS
<1>1. TypeOK
  BY InitType DEF DeltaInit
<1>2. Live = {} /\ next_room_id = 1
  BY DEF DeltaInit, Init, Live
<1>3. CopyTypeOK
  BY <1>2 DEF DeltaInit, CopyTypeOK
<1>4. \A reader \in Readers : copy[reader].room \notin Live
  BY <1>2
<1> QED BY <1>1, <1>2, <1>3, <1>4 DEF DeltaInv, VersionOrder, AllWritten, CopiesAgree

LEMMA CommandKeepsCopies ==
  ASSUME TypeOK, CopyTypeOK, CopiesAgree, [Next]_vars, UNCHANGED copy
  PROVE  CopyTypeOK' /\ CopiesAgree'
<1>1. next_room_id' \in Nat /\ next_room_id <= next_room_id'
  <2>1. CASE RoomCreate
    BY <2>1 DEF RoomCreate, TypeOK
  <2>2. CASE next_room_id' = next_room_id
    BY <2>2 DEF TypeOK
  <2> QED BY <2>1, <2>2, StepCases DEF RoomDelete, vars
<1>2. CopyTypeOK'
  <2>1. 0..(next_room_id - 1) \subseteq 0..(next_room_id' - 1)
    <3>1. next_room_id \in Nat
      BY DEF TypeOK
    <3>2. \A m, n \in Nat : m <= n => 0..(m - 1) \subseteq 0..(n - 1)
      OBVIOUS
    <3> QED BY <1>1, <3>1, <3>2
  <2>2. \A h : h \in [room : 0..(next_room_id - 1), since : Nat,
                      values : [FragmentIds -> Values \cup {Absent}]]
             => h \in [room : 0..(next_room_id' - 1), since : Nat,
                       values : [FragmentIds -> Values \cup {Absent}]]
    BY <2>1
  <2> QED BY <2>2 DEF CopyTypeOK
<1>3. ASSUME NEW reader \in Readers, (copy[reader].room \in Live)'
      PROVE  Agrees(copy[reader], rooms'[copy[reader].room], Granted[reader])
  <2> DEFINE held == copy[reader]
  <2>1. held.room \in 0..(next_room_id - 1) /\ held.since \in Nat /\ held.room \in Live'
    BY <1>3 DEF CopyTypeOK, Live
  <2>2. held.room \in Live => Agrees(held, rooms[held.room], Granted[reader])
    BY DEF CopiesAgree
  <2>3. CASE RoomCreate
    <3>1. held.room # next_room_id
      BY <2>1 DEF TypeOK
    <3>2. held.room \in Live /\ rooms'[held.room] = rooms[held.room]
      BY <2>1, <2>3, <3>1 DEF RoomCreate, Live
    <3> QED BY <2>2, <3>2
  <2>4. ASSUME NEW r \in Live, RoomDelete(r)
        PROVE  Agrees(held, rooms'[held.room], Granted[reader])
    <3>1. held.room \in Live /\ rooms'[held.room] = rooms[held.room]
      BY <2>1, <2>4 DEF RoomDelete, Live
    <3> QED BY <2>2, <3>1
  <2>5. ASSUME NEW r \in Live, NEW new, RoomStep(rooms[r], new),
               rooms' = [rooms EXCEPT ![r] = new]
        PROVE  Agrees(held, rooms'[held.room], Granted[reader])
    <3>1. held.room \in Live
      BY <2>1, <2>5 DEF Live
    <3>2. CASE held.room = r
      <4>1. rooms[r] \in RoomState /\ new \in RoomState /\ rooms'[r] = new
        BY <2>5, RoomStepType DEF TypeOK, Live
      <4>2. Agrees(held, rooms[r], Granted[reader])
        BY <2>2, <3>1, <3>2
      <4>3. Agrees(held, new, Granted[reader])
        <5> HIDE DEF held
        <5> QED BY <2>1, <2>5, <4>1, <4>2, RoomStepFollows, FollowsAgrees
      <4> QED BY <3>2, <4>1, <4>3
    <3>3. CASE held.room # r
      <4>1. rooms'[held.room] = rooms[held.room]
        BY <2>5, <3>1, <3>3 DEF Live
      <4> QED BY <2>2, <3>1, <4>1
    <3> QED BY <3>2, <3>3
  <2>6. CASE UNCHANGED vars
    BY <2>1, <2>2, <2>6 DEF vars, Live
  <2> QED BY <2>3, <2>4, <2>5, <2>6, StepCases
<1>4. CopiesAgree'
  BY <1>3 DEF CopiesAgree, Live
<1> QED BY <1>2, <1>4

LEMMA TakeSnapshotKeepsCopies ==
  ASSUME DeltaInv, NEW reader \in Readers, NEW r \in RoomIds, TakeSnapshot(reader, r)
  PROVE  CopyTypeOK' /\ CopiesAgree'
<1> DEFINE snapshot == RoomSnapshot(rooms[r], Granted[reader])
           held == [room |-> r, since |-> snapshot.room_counter, values |-> snapshot.values]
<1>1. /\ r \in Live /\ rooms' = rooms /\ next_room_id' = next_room_id
      /\ copy' = [copy EXCEPT ![reader] = held]
  BY DEF TakeSnapshot, vars
<1>2. rooms[r] \in RoomState /\ Written(rooms[r]) /\ r \in 0..(next_room_id - 1)
  BY <1>1 DEF DeltaInv, TypeOK, AllWritten
<1>3. snapshot.room_counter = rooms[r].room_counter /\ rooms[r].room_counter \in Nat
  BY <1>2 DEF RoomSnapshot, RoomState
<1>4. snapshot.values \in [FragmentIds -> Values \cup {Absent}]
  BY <1>2, SnapshotType
<1>5. Agrees(held, rooms[r], Granted[reader])
  <2>1. held.since = rooms[r].room_counter /\ held.values = snapshot.values
    BY <1>3
  <2> HIDE DEF held
  <2> QED BY <1>2, <2>1, SnapshotAgrees
<1>6. held \in [room : 0..(next_room_id - 1), since : Nat,
                values : [FragmentIds -> Values \cup {Absent}]]
  BY <1>2, <1>3, <1>4
<1>7. held.room = r
  OBVIOUS
<1> HIDE DEF held
<1>8. CopyTypeOK'
  BY <1>1, <1>6 DEF DeltaInv, CopyTypeOK
<1>9. CopiesAgree'
  BY <1>1, <1>5, <1>7 DEF DeltaInv, CopyTypeOK, CopiesAgree, Live
<1> QED BY <1>8, <1>9

LEMMA CatchUpKeepsCopies ==
  ASSUME DeltaInv, NEW reader \in Readers, CatchUp(reader)
  PROVE  CopyTypeOK' /\ CopiesAgree'
<1> DEFINE old == copy[reader]
           room == rooms[old.room]
           held == CaughtUp(reader)
           snapshot == RoomSnapshot(room, Granted[reader])
<1>1. /\ old.room \in Live /\ rooms' = rooms /\ next_room_id' = next_room_id
      /\ copy' = [copy EXCEPT ![reader] = held]
  BY DEF CatchUp, vars
<1>2. room \in RoomState /\ Written(room) /\ Ordered(room)
  BY <1>1 DEF DeltaInv, TypeOK, AllWritten, VersionOrder
<1>3. old \in [room : 0..(next_room_id - 1), since : Nat,
               values : [FragmentIds -> Values \cup {Absent}]]
  BY DEF DeltaInv, CopyTypeOK
<1>4. Agrees(old, room, Granted[reader])
  BY <1>1 DEF DeltaInv, CopiesAgree
<1>5. Overlay(old.values, RoomChanges(room, old.since, Granted[reader]).values)
        = snapshot.values
  <2> HIDE DEF old, room
  <2> QED BY <1>2, <1>3, <1>4, OverlayIsSnapshot
<1>6. /\ held.room = old.room
      /\ held.since = room.room_counter
      /\ held.values = snapshot.values
      /\ held = [room |-> old.room, since |-> held.since, values |-> held.values]
  <2> DEFINE changes == RoomChanges(room, old.since, Granted[reader])
  <2>1. changes.room_counter = room.room_counter
    BY DEF RoomChanges
  <2>2. held = [old EXCEPT !.since = changes.room_counter,
                           !.values = Overlay(old.values, changes.values)]
    BY DEF CaughtUp
  <2> HIDE DEF changes, held, old, room, snapshot
  <2>3. held = [old EXCEPT !.since = room.room_counter, !.values = snapshot.values]
    BY <1>5, <2>1, <2>2 DEF changes
  <2> QED BY <1>3, <2>3
<1>7. snapshot.values \in [FragmentIds -> Values \cup {Absent}]
  BY <1>2, SnapshotType
<1> HIDE DEF held, room
<1>8. Agrees(held, room, Granted[reader])
  BY <1>2, <1>6, SnapshotAgrees
<1>9. held \in [room : 0..(next_room_id - 1), since : Nat,
                values : [FragmentIds -> Values \cup {Absent}]]
  BY <1>2, <1>3, <1>6, <1>7 DEF RoomState
<1>10. CopyTypeOK'
  BY <1>1, <1>9 DEF DeltaInv, CopyTypeOK
<1>11. CopiesAgree'
  BY <1>1, <1>6, <1>8 DEF DeltaInv, CopyTypeOK, CopiesAgree, Live, room
<1> QED BY <1>10, <1>11

LEMMA NextDeltaInv == DeltaInv /\ [DeltaNext]_deltaVars => DeltaInv'
<1> SUFFICES ASSUME DeltaInv, [DeltaNext]_deltaVars PROVE DeltaInv'
  OBVIOUS
<1>1. [Next]_vars
  BY DEF DeltaNext, deltaVars, vars, TakeSnapshot, CatchUp
<1>2. TypeOK' /\ VersionOrder' /\ AllWritten'
  BY <1>1, NextType, NextOrder, NextWritten DEF DeltaInv
<1>3. CopyTypeOK' /\ CopiesAgree'
  <2>1. CASE [Next]_vars /\ UNCHANGED copy
    BY <2>1, CommandKeepsCopies DEF DeltaInv
  <2>2. CASE UNCHANGED deltaVars
    BY <1>1, <2>1, <2>2 DEF deltaVars
  <2> QED BY <2>1, <2>2, TakeSnapshotKeepsCopies, CatchUpKeepsCopies DEF DeltaNext
<1> QED BY <1>2, <1>3 DEF DeltaInv

\* The copies agree with their rooms up to their counters, always.
THEOREM DeltaInvariant == DeltaSpec => []DeltaInv
BY InitDeltaInv, NextDeltaInv, PTL DEF DeltaSpec

\* room_delta misses nothing: from any copy, taken at any time, the changes
\* since its counter lead to the snapshot of now.
THEOREM CatchUpComplete == DeltaSpec => []CatchUpIsComplete
<1>1. DeltaInv => CatchUpIsComplete
  <2> SUFFICES ASSUME DeltaInv, NEW reader \in Readers, copy[reader].room \in Live
               PROVE  CaughtUp(reader).values =
                        RoomSnapshot(rooms[copy[reader].room], Granted[reader]).values
    BY DEF CatchUpIsComplete
  <2> DEFINE held == copy[reader]
             room == rooms[held.room]
  <2>1. held.since \in Nat
    BY DEF DeltaInv, CopyTypeOK
  <2>2. room \in RoomState /\ Written(room) /\ Ordered(room)
    BY DEF DeltaInv, TypeOK, AllWritten, VersionOrder
  <2>3. Agrees(held, room, Granted[reader])
    BY DEF DeltaInv, CopiesAgree
  <2>4. CaughtUp(reader).values =
          Overlay(held.values, RoomChanges(room, held.since, Granted[reader]).values)
    BY DEF DeltaInv, CopyTypeOK, CaughtUp
  <2> HIDE DEF held, room
  <2>5. CaughtUp(reader).values = RoomSnapshot(room, Granted[reader]).values
    BY <2>1, <2>2, <2>3, <2>4, OverlayIsSnapshot
  <2> QED BY <2>5 DEF held, room
<1> QED BY <1>1, DeltaInvariant, PTL

\* A copy is a copy of a room that was created, whatever happened to the room.
THEOREM CopyTypeCorrect == DeltaSpec => []CopyTypeOK
<1>1. DeltaInv => CopyTypeOK
  BY DEF DeltaInv
<1> QED BY <1>1, DeltaInvariant, PTL

-----------------------------------------------------------------------------
(* Grants.  CopiesAgree speaks of copies of live rooms only, so what a copy *)
(* of a room that is gone holds needs an induction of its own.              *)

LEMMA SnapshotIsGranted ==
  ASSUME NEW room, NEW allowed, NEW f \in FragmentIds,
         RoomSnapshot(room, allowed).values[f] # Absent
  PROVE  f \in Visible(allowed)
BY DEF RoomSnapshot

LEMMA OverlayIsGranted ==
  ASSUME NEW room, NEW since, NEW values, NEW allowed, NEW f \in FragmentIds,
         values[f] # Absent => f \in Visible(allowed),
         Overlay(values, RoomChanges(room, since, allowed).values)[f] # Absent
  PROVE  f \in Visible(allowed)
<1>1. RoomChanges(room, since, allowed).values[f] # Absent => f \in Visible(allowed)
  BY DEF RoomChanges
<1> QED BY <1>1 DEF Overlay

LEMMA NextGranted == CopyTypeOK /\ OnlyGranted /\ [DeltaNext]_deltaVars => OnlyGranted'
<1> SUFFICES ASSUME CopyTypeOK, OnlyGranted, [DeltaNext]_deltaVars,
                    NEW reader \in Readers, NEW f \in FragmentIds,
                    copy'[reader].values[f] # Absent
             PROVE  f \in Visible(Granted[reader])
  BY DEF OnlyGranted
<1>1. ASSUME copy'[reader] = copy[reader]
      PROVE  f \in Visible(Granted[reader])
  BY <1>1 DEF OnlyGranted
<1>2. CASE UNCHANGED copy
  BY <1>1, <1>2
<1>3. ASSUME NEW other \in Readers, NEW r \in RoomIds, TakeSnapshot(other, r)
      PROVE  f \in Visible(Granted[reader])
  <2>1. CASE other # reader
    BY <1>1, <1>3, <2>1 DEF TakeSnapshot, CopyTypeOK
  <2>2. CASE other = reader
    <3>1. copy'[reader].values = RoomSnapshot(rooms[r], Granted[reader]).values
      BY <1>3, <2>2 DEF TakeSnapshot, CopyTypeOK
    <3> QED BY <3>1, SnapshotIsGranted
  <2> QED BY <2>1, <2>2
<1>4. ASSUME NEW other \in Readers, CatchUp(other)
      PROVE  f \in Visible(Granted[reader])
  <2>1. CASE other # reader
    BY <1>1, <1>4, <2>1 DEF CatchUp, CopyTypeOK
  <2>2. CASE other = reader
    <3> DEFINE held == copy[reader]
               room == rooms[held.room]
    <3>1. copy'[reader].values =
            Overlay(held.values, RoomChanges(room, held.since, Granted[reader]).values)
      BY <1>4, <2>2 DEF CatchUp, CaughtUp, CopyTypeOK
    <3>2. held.values[f] # Absent => f \in Visible(Granted[reader])
      BY DEF OnlyGranted
    <3> HIDE DEF held, room
    <3> QED BY <3>1, <3>2, OverlayIsGranted
  <2> QED BY <2>1, <2>2
<1> QED BY <1>2, <1>3, <1>4 DEF DeltaNext, deltaVars

\* No copy, of a room that lives or of one that is gone, holds a value of a
\* container its reader may not see.
THEOREM CopiesHoldGranted == DeltaSpec => []OnlyGranted
<1>1. DeltaInit => OnlyGranted
  BY DEF DeltaInit, OnlyGranted
<1> QED BY <1>1, NextGranted, CopyTypeCorrect, PTL DEF DeltaSpec
=============================================================================
