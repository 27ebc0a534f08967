-------------------------- MODULE RoomStoreProofs --------------------------
(***************************************************************************)
(* What holds of RoomStore for every set of containers, keys and values    *)
(* and every bound.  The argument is about one room: a command replaces    *)
(* the state of at most one live room, by one of five room steps, and each *)
(* room step keeps the type and the order of the versions.                 *)
(***************************************************************************)
EXTENDS RoomStore, WellFoundedInduction, TLAPS

-----------------------------------------------------------------------------
(* Indices of a buffer *)

\* A non-empty set of indices has a largest one: tx_end's last write exists.
LEMMA LastIndex ==
  ASSUME NEW n \in Nat, NEW S \in SUBSET (1..n), S # {}
  PROVE  \E i \in S : \A j \in S : j <= i
<1> DEFINE T == {n - i : i \in S}
<1>1. T \subseteq Nat
  <2>1. \A i \in S : n - i \in Nat
    OBVIOUS
  <2> QED BY <2>1
<1>2. T # {}
  OBVIOUS
<1>3. \E x \in T : \A y \in T : ~ (<<y, x>> \in OpToRel(<, Nat))
  <2> HIDE DEF T
  <2> QED BY <1>1, <1>2, NatLessThanWellFounded, WFMin
<1>4. PICK x \in T : \A y \in T : ~ (<<y, x>> \in OpToRel(<, Nat))
  BY <1>3
<1>5. \A y \in T : x <= y
  <2> HIDE DEF T
  <2> TAKE y \in T
  <2>1. x \in Nat /\ y \in Nat
    BY <1>1
  <2>2. y < x => <<y, x>> \in OpToRel(<, Nat)
    BY <2>1 DEF OpToRel
  <2>3. ~ (y < x)
    BY <2>2, <1>4, Zenon
  <2> QED BY <2>1, <2>3
<1>6. PICK i \in S : x = n - i
  OBVIOUS
<1>7. \A j \in S : j <= i
  <2> TAKE j \in S
  <2>1. n - i <= n - j
    BY <1>5, <1>6
  <2> QED BY <2>1
<1> QED BY <1>7

\* The entry a commit leaves in f is the old one, when nothing was written to
\* f, or that of the last write to f.
LEMMA CommittedEntryCases ==
  ASSUME NEW room \in RoomState, NEW f \in FragmentIds
  PROVE  \/ /\ WritesTo(room.tx_buffer, f) = {}
            /\ CommittedEntry(room, f) = room.fragments[f]
         \/ \E i \in 1..Len(room.tx_buffer) :
              /\ Target(room.tx_buffer[i]) = f
              /\ \A j \in WritesTo(room.tx_buffer, f) : j <= i
              /\ CommittedEntry(room, f) =
                   [value |-> room.tx_buffer[i].value,
                    key_version |-> room.room_counter + i]
<1> DEFINE written == WritesTo(room.tx_buffer, f)
<1>1. CASE written = {}
  BY <1>1 DEF CommittedEntry
<1>2. CASE written # {}
  <2>1. Len(room.tx_buffer) \in Nat /\ written \in SUBSET (1..Len(room.tx_buffer))
    BY DEF RoomState, WritesTo
  <2>2. \E i \in written : \A j \in written : j <= i
    BY <1>2, <2>1, LastIndex
  <2> DEFINE last == CHOOSE i \in written : \A j \in written : j <= i
  <2>3. last \in written /\ \A j \in written : j <= last
    BY <2>2
  <2>4. CommittedEntry(room, f) =
          [value |-> room.tx_buffer[last].value,
           key_version |-> room.room_counter + last]
    BY <1>2 DEF CommittedEntry
  <2>5. last \in 1..Len(room.tx_buffer) /\ Target(room.tx_buffer[last]) = f
    BY <2>1, <2>3 DEF WritesTo
  <2> HIDE DEF last
  <2> QED BY <2>3, <2>4, <2>5
<1> QED BY <1>1, <1>2

-----------------------------------------------------------------------------
(* One step of one room *)

RoomStep(old, new) ==
  \/ \E op \in RoomCommand : ~old.tx_open /\ new = ApplyWrite(old, op)
  \/ \E op \in RoomCommand : old.tx_open /\ new = BufferWrite(old, op)
  \/ ~old.tx_open /\ new = [old EXCEPT !.tx_open = TRUE, !.tx_buffer = << >>]
  \/ old.tx_open /\ new = CommitBuffer(old)
  \/ new = DiscardBuffer(old)

LEMMA NewRoomType == NewRoom \in RoomState
<1>1. << >> \in Seq(RoomCommand)
  OBVIOUS
<1>2. NewRoom.fragments \in [FragmentIds -> FragmentEntry]
  BY DEF NewRoom, FragmentEntry
<1> QED BY <1>1, <1>2 DEF NewRoom, RoomState

LEMMA ApplyWriteType ==
  ASSUME NEW room \in RoomState, NEW op \in RoomCommand
  PROVE  ApplyWrite(room, op) \in RoomState
<1>1. Target(op) \in FragmentIds
  BY DEF Target, RoomCommand, FragmentIds
<1>2. [value |-> op.value, key_version |-> room.room_counter + 1] \in FragmentEntry
  BY DEF RoomCommand, FragmentEntry, RoomState
<1> DEFINE written == [room.fragments EXCEPT ![Target(op)] =
                         [value |-> op.value, key_version |-> room.room_counter + 1]]
<1>3. written \in [FragmentIds -> FragmentEntry]
  BY <1>1, <1>2 DEF RoomState
<1>4. ApplyWrite(room, op) =
        [room EXCEPT !.room_counter = room.room_counter + 1, !.fragments = written]
  BY DEF ApplyWrite, RoomState
<1>5. room.room_counter + 1 \in Nat
  BY DEF RoomState
<1> HIDE DEF written
<1> QED BY <1>3, <1>4, <1>5 DEF RoomState

LEMMA CommitBufferType ==
  ASSUME NEW room \in RoomState
  PROVE  CommitBuffer(room) \in RoomState
<1>1. ASSUME NEW f \in FragmentIds
      PROVE  CommittedEntry(room, f) \in FragmentEntry
  <2>1. CASE CommittedEntry(room, f) = room.fragments[f]
    BY <2>1 DEF RoomState
  <2>2. ASSUME NEW i \in 1..Len(room.tx_buffer),
               CommittedEntry(room, f) = [value |-> room.tx_buffer[i].value,
                                          key_version |-> room.room_counter + i]
        PROVE  CommittedEntry(room, f) \in FragmentEntry
    <3>1. room.tx_buffer[i] \in RoomCommand
      BY DEF RoomState
    <3> QED BY <2>2, <3>1 DEF RoomCommand, RoomState, FragmentEntry
  <2> QED BY <2>1, <2>2, CommittedEntryCases
<1>2. room.room_counter + Len(room.tx_buffer) \in Nat
  BY DEF RoomState
<1>3. << >> \in Seq(RoomCommand)
  OBVIOUS
<1> QED BY <1>1, <1>2, <1>3 DEF CommitBuffer, RoomState

LEMMA RoomStepType ==
  ASSUME NEW old \in RoomState, NEW new, RoomStep(old, new)
  PROVE  new \in RoomState
<1>1. << >> \in Seq(RoomCommand)
  OBVIOUS
<1>2. ASSUME NEW op \in RoomCommand, new = BufferWrite(old, op)
      PROVE  new \in RoomState
  <2>1. Append(old.tx_buffer, op) \in Seq(RoomCommand)
    BY DEF RoomState
  <2> QED BY <1>2, <2>1 DEF BufferWrite, RoomState
<1>3. CASE new = [old EXCEPT !.tx_open = TRUE, !.tx_buffer = << >>]
  BY <1>1, <1>3 DEF RoomState
<1>4. CASE new = DiscardBuffer(old)
  BY <1>1, <1>4 DEF DiscardBuffer, RoomState
<1> QED BY <1>2, <1>3, <1>4, ApplyWriteType, CommitBufferType DEF RoomStep

\* Every command creates a room, deletes one, or is a step of one live room.
LEMMA StepCases ==
  ASSUME TypeOK, Next
  PROVE  \/ RoomCreate
         \/ \E r \in Live : RoomDelete(r)
         \/ \E r \in Live : /\ \E new : /\ RoomStep(rooms[r], new)
                                        /\ rooms' = [rooms EXCEPT ![r] = new]
                            /\ next_room_id' = next_room_id
<1> DEFINE Stepped(r) == /\ \E new : /\ RoomStep(rooms[r], new)
                                     /\ rooms' = [rooms EXCEPT ![r] = new]
                         /\ next_room_id' = next_room_id
<1>1. ASSUME NEW r, NEW op \in RoomCommand, r \in Live, WriteOrBuffer(r, op)
      PROVE  Stepped(r)
  BY <1>1 DEF WriteOrBuffer, RoomStep
<1>2. ASSUME NEW r \in RoomIds, NEW c \in Containers, NEW k \in Keys, NEW v \in Values,
             Set(r, c, k, v)
      PROVE  r \in Live /\ Stepped(r)
  <2>1. [container |-> c, key |-> k, value |-> v] \in RoomCommand
    BY DEF RoomCommand
  <2> HIDE DEF Stepped
  <2> QED BY <1>1, <1>2, <2>1 DEF Set, CanSet
<1>3. ASSUME NEW r \in RoomIds, NEW c \in Containers, NEW k \in Keys, Del(r, c, k)
      PROVE  r \in Live /\ Stepped(r)
  <2>1. [container |-> c, key |-> k, value |-> Null] \in RoomCommand
    BY ValueAssumption DEF RoomCommand
  <2> HIDE DEF Stepped
  <2> QED BY <1>1, <1>3, <2>1 DEF Del, CanDel
<1>4. ASSUME NEW r \in RoomIds, TxBegin(r)
      PROVE  r \in Live /\ Stepped(r)
  BY <1>4 DEF TxBegin, CanTxBegin, RoomStep
<1>5. ASSUME NEW r \in RoomIds, TxEnd(r)
      PROVE  r \in Live /\ Stepped(r)
  BY <1>5 DEF TxEnd, CanTxEnd, RoomStep
<1>6. ASSUME NEW r \in RoomIds, TxAbort(r)
      PROVE  r \in Live /\ Stepped(r)
  BY <1>6 DEF TxAbort, CanTxAbort, RoomStep
<1>7. ASSUME NEW r \in RoomIds, RoomDelete(r)
      PROVE  r \in Live
  BY <1>7 DEF RoomDelete, CanDelete
<1> HIDE DEF Stepped
<1>8. \/ RoomCreate
      \/ \E r \in Live : RoomDelete(r)
      \/ \E r \in Live : Stepped(r)
  BY <1>2, <1>3, <1>4, <1>5, <1>6, <1>7 DEF Next
<1> QED BY <1>8 DEF Stepped

-----------------------------------------------------------------------------
(* Type correctness *)

LEMMA InitType == Init => TypeOK
<1> SUFFICES ASSUME Init PROVE TypeOK
  OBVIOUS
<1>1. rooms = [r \in {} |-> NewRoom]
  BY DEF Init
<1> QED BY <1>1 DEF Init, TypeOK, Live

LEMMA NextType == TypeOK /\ [Next]_vars => TypeOK'
<1> SUFFICES ASSUME TypeOK, [Next]_vars PROVE TypeOK'
  OBVIOUS
<1>1. CASE RoomCreate
  BY <1>1, NewRoomType DEF RoomCreate, TypeOK, Live
<1>2. ASSUME NEW r \in Live, RoomDelete(r)
      PROVE  TypeOK'
  BY <1>2 DEF RoomDelete, TypeOK, Live
<1>3. ASSUME NEW r \in Live, NEW new, RoomStep(rooms[r], new),
             rooms' = [rooms EXCEPT ![r] = new], next_room_id' = next_room_id
      PROVE  TypeOK'
  <2>1. new \in RoomState
    BY <1>3, RoomStepType DEF TypeOK
  <2>2. DOMAIN rooms' = Live
    BY <1>3 DEF TypeOK, Live
  <2>3. rooms' \in [Live -> RoomState]
    BY <1>3, <2>1 DEF TypeOK
  <2> QED BY <1>3, <2>2, <2>3 DEF TypeOK, Live
<1>4. CASE UNCHANGED vars
  BY <1>4 DEF vars, TypeOK, Live
<1> QED BY <1>1, <1>2, <1>3, <1>4, StepCases

\* The store keeps its type, whatever the commands and their order.
THEOREM TypeCorrect == Spec => []TypeOK
BY InitType, NextType, PTL DEF Spec

-----------------------------------------------------------------------------
(* The order of versions *)

LEMMA ApplyWriteEntries ==
  ASSUME NEW room \in RoomState, NEW op \in RoomCommand
  PROVE  /\ ApplyWrite(room, op).room_counter = room.room_counter + 1
         /\ Target(op) \in FragmentIds
         /\ \A f \in FragmentIds : ApplyWrite(room, op).fragments[f] =
              IF f = Target(op)
              THEN [value |-> op.value, key_version |-> room.room_counter + 1]
              ELSE room.fragments[f]
<1>1. Target(op) \in FragmentIds
  BY DEF Target, RoomCommand, FragmentIds
<1> QED BY <1>1 DEF ApplyWrite, RoomState

LEMMA CommitBufferEntries ==
  ASSUME NEW room \in RoomState
  PROVE  /\ CommitBuffer(room).room_counter = room.room_counter + Len(room.tx_buffer)
         /\ \A f \in FragmentIds :
              CommitBuffer(room).fragments[f] = CommittedEntry(room, f)
BY DEF CommitBuffer

\* The last write of a buffer gives its fragment the counter as version.
LEMMA LastWriteWins ==
  ASSUME NEW room \in RoomState, Len(room.tx_buffer) > 0
  PROVE  \E f \in FragmentIds : CommittedEntry(room, f).key_version =
                                  room.room_counter + Len(room.tx_buffer)
<1> DEFINE n == Len(room.tx_buffer)
           f == Target(room.tx_buffer[n])
<1>1. n \in Nat /\ n \in 1..n /\ DOMAIN room.tx_buffer = 1..n
  BY DEF RoomState
<1>2. room.tx_buffer[n] \in RoomCommand
  BY <1>1 DEF RoomState
<1>3. f \in FragmentIds
  BY <1>2 DEF Target, RoomCommand, FragmentIds
<1>4. n \in WritesTo(room.tx_buffer, f)
  BY <1>1 DEF WritesTo
<1> HIDE DEF f
<1>5. PICK i \in 1..n : /\ \A j \in WritesTo(room.tx_buffer, f) : j <= i
                        /\ CommittedEntry(room, f) =
                             [value |-> room.tx_buffer[i].value,
                              key_version |-> room.room_counter + i]
  BY <1>3, <1>4, CommittedEntryCases
<1>6. i = n
  BY <1>1, <1>4, <1>5
<1>7. CommittedEntry(room, f).key_version = room.room_counter + n
  BY <1>5, <1>6
<1> QED BY <1>3, <1>7

LEMMA ApplyWriteOrdered ==
  ASSUME NEW room \in RoomState, NEW op \in RoomCommand, Ordered(room)
  PROVE  Ordered(ApplyWrite(room, op))
<1> DEFINE new == ApplyWrite(room, op)
<1>1. /\ room.room_counter \in Nat
      /\ \A f \in FragmentIds : room.fragments[f].key_version \in Nat
  BY DEF RoomState, FragmentEntry
<1>2. /\ new.room_counter = room.room_counter + 1
      /\ Target(op) \in FragmentIds
      /\ \A f \in FragmentIds : new.fragments[f].key_version =
           IF f = Target(op) THEN room.room_counter + 1 ELSE room.fragments[f].key_version
  <2>1. \A f \in FragmentIds : new.fragments[f] =
          IF f = Target(op)
          THEN [value |-> op.value, key_version |-> room.room_counter + 1]
          ELSE room.fragments[f]
    BY ApplyWriteEntries
  <2>2. new.room_counter = room.room_counter + 1 /\ Target(op) \in FragmentIds
    BY ApplyWriteEntries
  <2> HIDE DEF new
  <2> QED BY <2>1, <2>2
<1> HIDE DEF new
<1>3. Ordered(new)
  BY <1>1, <1>2 DEF Ordered, Exists
<1> QED BY <1>3 DEF new

LEMMA CommitBufferOrdered ==
  ASSUME NEW room \in RoomState, Ordered(room)
  PROVE  Ordered(CommitBuffer(room))
<1> DEFINE new == CommitBuffer(room)
           n == room.room_counter
           len == Len(room.tx_buffer)
           Old(f) == new.fragments[f].key_version = room.fragments[f].key_version
           Written(f) == \E i \in 1..len :
             /\ Target(room.tx_buffer[i]) = f
             /\ new.fragments[f].key_version = n + i
<1>1. n \in Nat /\ len \in Nat /\ \A f \in FragmentIds : room.fragments[f].key_version \in Nat
  BY DEF RoomState, FragmentEntry
<1>2. new.room_counter = n + len
  BY CommitBufferEntries
<1>3. ASSUME NEW f \in FragmentIds
      PROVE  Old(f) \/ Written(f)
  <2>1. new.fragments[f] = CommittedEntry(room, f)
    BY CommitBufferEntries
  <2> HIDE DEF new
  <2> QED BY <2>1, CommittedEntryCases
<1> HIDE DEF new
<1>4. ASSUME NEW f \in FragmentIds
      PROVE  new.fragments[f].key_version <= new.room_counter
  BY <1>1, <1>2, <1>3 DEF Ordered
<1>5. ASSUME NEW f \in FragmentIds, NEW g \in FragmentIds, Exists(new, f),
             new.fragments[f].key_version = new.fragments[g].key_version
      PROVE  f = g
  <2>1. CASE Old(f) /\ Old(g)
    BY <1>5, <2>1 DEF Ordered, Exists
  <2>2. CASE Written(f) /\ Written(g)
    <3>1. PICK i \in 1..len : /\ Target(room.tx_buffer[i]) = f
                              /\ new.fragments[f].key_version = n + i
      BY <2>2
    <3>2. PICK j \in 1..len : /\ Target(room.tx_buffer[j]) = g
                              /\ new.fragments[g].key_version = n + j
      BY <2>2
    <3>3. n + i = n + j
      BY <1>5, <3>1, <3>2, Zenon
    <3>4. n \in Int /\ i \in Int /\ j \in Int
      BY <1>1
    <3>5. i = j
      <4> HIDE DEF n
      <4> QED BY <3>3, <3>4
    <3> QED BY <3>1, <3>2, <3>5
  <2>3. CASE Old(f) /\ Written(g)
    <3>1. new.fragments[g].key_version > n
      BY <1>1, <2>3
    <3>2. new.fragments[f].key_version <= n
      BY <2>3 DEF Ordered
    <3> QED BY <1>1, <1>5, <2>3, <3>1, <3>2
  <2>4. CASE Written(f) /\ Old(g)
    <3>1. new.fragments[f].key_version > n
      BY <1>1, <2>4
    <3>2. new.fragments[g].key_version <= n
      BY <2>4 DEF Ordered
    <3> QED BY <1>1, <1>5, <2>4, <3>1, <3>2
  <2> QED BY <1>3, <2>1, <2>2, <2>3, <2>4
<1>6. ASSUME new.room_counter > 0
      PROVE  \E f \in FragmentIds : new.fragments[f].key_version = new.room_counter
  <2>1. CASE len > 0
    <3>1. \A f \in FragmentIds : new.fragments[f] = CommittedEntry(room, f)
      BY CommitBufferEntries DEF new
    <3> QED BY <1>2, <2>1, <3>1, LastWriteWins
  <2>2. CASE len = 0
    <3>1. \A f \in FragmentIds : Old(f)
      BY <1>1, <1>3, <2>2
    <3> QED BY <1>1, <1>2, <1>6, <2>2, <3>1 DEF Ordered
  <2> QED BY <1>1, <2>1, <2>2
<1>7. Ordered(new)
  BY <1>4, <1>5, <1>6 DEF Ordered
<1> QED BY <1>7 DEF new

LEMMA RoomStepOrdered ==
  ASSUME NEW old \in RoomState, NEW new, RoomStep(old, new), Ordered(old)
  PROVE  Ordered(new)
<1>1. ASSUME new.room_counter = old.room_counter, new.fragments = old.fragments
      PROVE  Ordered(new)
  BY <1>1 DEF Ordered, Exists
<1>2. ASSUME NEW op \in RoomCommand, new = BufferWrite(old, op)
      PROVE  Ordered(new)
  BY <1>1, <1>2 DEF BufferWrite, RoomState
<1>3. CASE new = [old EXCEPT !.tx_open = TRUE, !.tx_buffer = << >>]
  BY <1>1, <1>3 DEF RoomState
<1>4. CASE new = DiscardBuffer(old)
  BY <1>1, <1>4 DEF DiscardBuffer, RoomState
<1> QED BY <1>2, <1>3, <1>4, ApplyWriteOrdered, CommitBufferOrdered DEF RoomStep

LEMMA NextOrder == TypeOK /\ VersionOrder /\ [Next]_vars => VersionOrder'
<1> SUFFICES ASSUME TypeOK, VersionOrder, [Next]_vars PROVE VersionOrder'
  OBVIOUS
<1>1. CASE RoomCreate
  <2>1. Ordered(NewRoom)
    BY DEF Ordered, NewRoom, Exists
  <2> QED BY <1>1, <2>1 DEF RoomCreate, VersionOrder, Live
<1>2. ASSUME NEW r \in Live, RoomDelete(r)
      PROVE  VersionOrder'
  BY <1>2 DEF RoomDelete, VersionOrder, Live
<1>3. ASSUME NEW r \in Live, NEW new, RoomStep(rooms[r], new),
             rooms' = [rooms EXCEPT ![r] = new]
      PROVE  VersionOrder'
  <2>1. Ordered(new)
    BY <1>3, RoomStepOrdered DEF TypeOK, VersionOrder
  <2> QED BY <1>3, <2>1 DEF TypeOK, VersionOrder, Live
<1>4. CASE UNCHANGED vars
  BY <1>4 DEF vars, VersionOrder, Live
<1> QED BY <1>1, <1>2, <1>3, <1>4, StepCases

\* In every room, at every moment, the versions order the fragments and the
\* counter is the newest of them, for any sequence of commands and commits.
THEOREM VersionsOrdered == Spec => []VersionOrder
<1>1. Init => VersionOrder
  BY DEF Init, VersionOrder, Live
<1> QED BY <1>1, TypeCorrect, NextOrder, PTL DEF Spec

-----------------------------------------------------------------------------
(* The commit of a buffer is its loop *)

\* One write more in the buffer is the last of its fragment at the commit.
LEMMA CommittedAppend ==
  ASSUME NEW old \in RoomState, NEW op \in RoomCommand, NEW f \in FragmentIds
  PROVE  CommittedEntry(BufferWrite(old, op), f) =
           IF f = Target(op)
           THEN [value |-> op.value, key_version |-> old.room_counter + Len(old.tx_buffer) + 1]
           ELSE CommittedEntry(old, f)
<1> DEFINE new == BufferWrite(old, op)
           n == Len(old.tx_buffer)
           entry == [value |-> op.value, key_version |-> old.room_counter + n + 1]
<1>1. /\ old.tx_buffer \in Seq(RoomCommand) /\ n \in Nat /\ old.room_counter \in Nat
      /\ new.fragments = old.fragments /\ new.tx_buffer = Append(old.tx_buffer, op)
      /\ new.room_counter = old.room_counter
      /\ new \in RoomState
  <2>1. old.tx_buffer \in Seq(RoomCommand) /\ old.room_counter \in Nat
    BY DEF RoomState
  <2>2. Append(old.tx_buffer, op) \in Seq(RoomCommand)
    BY <2>1
  <2>3. new \in RoomState
    BY <2>2 DEF RoomState, BufferWrite
  <2>4. /\ new.fragments = old.fragments /\ new.tx_buffer = Append(old.tx_buffer, op)
        /\ new.room_counter = old.room_counter
    BY DEF RoomState, BufferWrite
  <2> QED BY <2>1, <2>3, <2>4
<1>2. /\ Len(new.tx_buffer) = n + 1 /\ new.tx_buffer[n + 1] = op
      /\ \A i \in 1..n : new.tx_buffer[i] = old.tx_buffer[i]
      /\ DOMAIN new.tx_buffer = 1..(n + 1) /\ DOMAIN old.tx_buffer = 1..n
  BY <1>1
<1> HIDE DEF new, entry
<1>3. ASSUME WritesTo(new.tx_buffer, f) = {}, CommittedEntry(new, f) = new.fragments[f]
      PROVE  CommittedEntry(new, f) = IF f = Target(op) THEN entry ELSE CommittedEntry(old, f)
  <2>1. f # Target(op)
    BY <1>1, <1>2, <1>3 DEF WritesTo
  <2>2. WritesTo(old.tx_buffer, f) = {}
    BY <1>1, <1>2, <1>3 DEF WritesTo
  <2>3. CommittedEntry(old, f) = old.fragments[f]
    BY <2>2 DEF CommittedEntry
  <2> QED BY <1>1, <1>3, <2>1, <2>3
<1>4. ASSUME NEW i \in 1..Len(new.tx_buffer), Target(new.tx_buffer[i]) = f,
             \A j \in WritesTo(new.tx_buffer, f) : j <= i,
             CommittedEntry(new, f) = [value |-> new.tx_buffer[i].value,
                                       key_version |-> new.room_counter + i]
      PROVE  CommittedEntry(new, f) = IF f = Target(op) THEN entry ELSE CommittedEntry(old, f)
  <2>1. CASE f = Target(op)
    <3>1. n + 1 \in WritesTo(new.tx_buffer, f)
      BY <1>1, <1>2, <2>1 DEF WritesTo
    <3>2. i = n + 1
      BY <1>1, <1>2, <1>4, <3>1
    <3>3. new.tx_buffer[i].value = op.value
      BY <1>2, <3>2
    <3>4. new.room_counter + i = old.room_counter + n + 1
      BY <1>1, <3>2
    <3> QED BY <1>4, <2>1, <3>3, <3>4 DEF entry
  <2>2. CASE f # Target(op)
    <3>1. i \in 1..n /\ i \in WritesTo(old.tx_buffer, f)
      BY <1>1, <1>2, <1>4, <2>2 DEF WritesTo
    <3>2. PICK k \in 1..n :
            /\ Target(old.tx_buffer[k]) = f
            /\ \A j \in WritesTo(old.tx_buffer, f) : j <= k
            /\ CommittedEntry(old, f) = [value |-> old.tx_buffer[k].value,
                                         key_version |-> old.room_counter + k]
      BY <3>1, CommittedEntryCases
    <3>3. k \in WritesTo(new.tx_buffer, f)
      BY <1>1, <1>2, <3>2 DEF WritesTo
    <3>4. k = i
      BY <1>1, <1>4, <3>1, <3>2, <3>3
    <3>5. /\ new.tx_buffer[i].value = old.tx_buffer[k].value
          /\ new.room_counter + i = old.room_counter + k
      BY <1>1, <1>2, <3>1, <3>4
    <3> QED BY <1>4, <2>2, <3>2, <3>5
  <2> QED BY <2>1, <2>2
<1>5. CommittedEntry(new, f) = IF f = Target(op) THEN entry ELSE CommittedEntry(old, f)
  BY <1>1, <1>3, <1>4, CommittedEntryCases
<1> QED BY <1>5 DEF new, entry

\* To commit one write more is to apply it to the room committed without it.
LEMMA CommitAppend ==
  ASSUME NEW old \in RoomState, NEW op \in RoomCommand
  PROVE  CommitBuffer(BufferWrite(old, op)) = ApplyWrite(CommitBuffer(old), op)
<1> DEFINE left == CommitBuffer(BufferWrite(old, op))
           right == ApplyWrite(CommitBuffer(old), op)
<1>1. BufferWrite(old, op) \in RoomState
  <2>1. Append(old.tx_buffer, op) \in Seq(RoomCommand)
    BY DEF RoomState
  <2> QED BY <2>1 DEF RoomState, BufferWrite
<1>2. left \in RoomState /\ right \in RoomState /\ CommitBuffer(old) \in RoomState
  BY <1>1, CommitBufferType, ApplyWriteType
<1>3. /\ old.room_counter \in Nat /\ Len(old.tx_buffer) \in Nat
      /\ Len(BufferWrite(old, op).tx_buffer) = Len(old.tx_buffer) + 1
      /\ BufferWrite(old, op).room_counter = old.room_counter
  BY DEF RoomState, BufferWrite
<1>4. left.room_counter = right.room_counter
  <2>1. left.room_counter = old.room_counter + (Len(old.tx_buffer) + 1)
    BY <1>1, <1>3, CommitBufferEntries
  <2>2. right.room_counter = CommitBuffer(old).room_counter + 1
    BY <1>2, ApplyWriteEntries
  <2>3. CommitBuffer(old).room_counter = old.room_counter + Len(old.tx_buffer)
    BY CommitBufferEntries
  <2> HIDE DEF left, right
  <2> QED BY <1>3, <2>1, <2>2, <2>3
<1>5. ASSUME NEW f \in FragmentIds PROVE left.fragments[f] = right.fragments[f]
  <2>1. left.fragments[f] = CommittedEntry(BufferWrite(old, op), f)
    BY <1>1, CommitBufferEntries
  <2>2. right.fragments[f] =
          IF f = Target(op)
          THEN [value |-> op.value, key_version |-> CommitBuffer(old).room_counter + 1]
          ELSE CommitBuffer(old).fragments[f]
    BY <1>2, ApplyWriteEntries
  <2>3. /\ CommitBuffer(old).room_counter = old.room_counter + Len(old.tx_buffer)
        /\ CommitBuffer(old).fragments[f] = CommittedEntry(old, f)
    BY CommitBufferEntries
  <2>4. CommittedEntry(BufferWrite(old, op), f) =
          IF f = Target(op)
          THEN [value |-> op.value, key_version |-> old.room_counter + Len(old.tx_buffer) + 1]
          ELSE CommittedEntry(old, f)
    BY CommittedAppend
  <2> HIDE DEF left, right
  <2> QED BY <2>1, <2>2, <2>3, <2>4
<1>6. /\ left.tx_open = FALSE /\ left.tx_buffer = << >>
      /\ right.tx_open = FALSE /\ right.tx_buffer = << >>
  BY DEF CommitBuffer, ApplyWrite
<1> HIDE DEF left, right
<1>7. left.fragments = right.fragments
  BY <1>2, <1>5 DEF RoomState
<1>8. left = right
  BY <1>2, <1>4, <1>6, <1>7, SMTT(30) DEF RoomState
<1> QED BY <1>8 DEF left, right

\* The room with the first n writes of its buffer.
Prefix(room, n) == [room EXCEPT !.tx_buffer = SubSeq(room.tx_buffer, 1, n)]

LEMMA PrefixExtends ==
  ASSUME NEW room \in RoomState, NEW n \in 1..Len(room.tx_buffer)
  PROVE  /\ Prefix(room, n - 1) \in RoomState
         /\ room.tx_buffer[n] \in RoomCommand
         /\ Prefix(room, n) = BufferWrite(Prefix(room, n - 1), room.tx_buffer[n])
<1> DEFINE b == room.tx_buffer
<1>1. b \in Seq(RoomCommand) /\ Len(b) \in Nat
  BY DEF RoomState
<1>2. b[n] \in RoomCommand /\ SubSeq(b, 1, n - 1) \in Seq(RoomCommand)
  BY <1>1
<1>3. SubSeq(b, 1, n) = Append(SubSeq(b, 1, n - 1), b[n])
  BY <1>1
<1>4. Prefix(room, n - 1) \in RoomState
  BY <1>2 DEF Prefix, RoomState
<1>5. Prefix(room, n) = BufferWrite(Prefix(room, n - 1), b[n])
  BY <1>3 DEF Prefix, BufferWrite, RoomState
<1> QED BY <1>2, <1>4, <1>5

\* Without a write a commit closes the transaction and no more.
LEMMA CommitNothing ==
  ASSUME NEW room \in RoomState
  PROVE  CommitBuffer(Prefix(room, 0)) = DiscardBuffer(room)
<1> DEFINE none == Prefix(room, 0)
<1>1. SubSeq(room.tx_buffer, 1, 0) = << >>
  BY DEF RoomState
<1>2. /\ none.tx_buffer = << >> /\ none.fragments = room.fragments
      /\ none.room_counter = room.room_counter
  BY <1>1 DEF Prefix, RoomState
<1> HIDE DEF none
<1>3. \A f \in FragmentIds : CommittedEntry(none, f) = room.fragments[f]
  <2> TAKE f \in FragmentIds
  <2>1. WritesTo(none.tx_buffer, f) = {}
    BY <1>2 DEF WritesTo
  <2> QED BY <1>2, <2>1 DEF CommittedEntry
<1>4. [f \in FragmentIds |-> CommittedEntry(none, f)] = room.fragments
  BY <1>3 DEF RoomState
<1>5. none.room_counter + Len(none.tx_buffer) = room.room_counter
  BY <1>2 DEF RoomState
<1> DEFINE left == CommitBuffer(none)
           right == DiscardBuffer(room)
<1>6. /\ left.room_counter = room.room_counter /\ left.fragments = room.fragments
      /\ left.tx_open = FALSE /\ left.tx_buffer = << >>
  BY <1>4, <1>5 DEF CommitBuffer
<1>7. /\ right.room_counter = room.room_counter /\ right.fragments = room.fragments
      /\ right.tx_open = FALSE /\ right.tx_buffer = << >>
  BY DEF DiscardBuffer, RoomState
<1>8. left \in RoomState
  <2>1. << >> \in Seq(RoomCommand)
    OBVIOUS
  <2> QED BY <1>4, <1>5, <2>1 DEF CommitBuffer, RoomState
<1>9. right \in RoomState
  <2>1. << >> \in Seq(RoomCommand)
    OBVIOUS
  <2> QED BY <2>1 DEF DiscardBuffer, RoomState
<1> HIDE DEF left, right
<1>10. left = right
  BY <1>6, <1>7, <1>8, <1>9 DEF RoomState
<1> QED BY <1>10 DEF left, right, none

\* The loop, turn by turn: there is a function that does what it says, and any
\* such function has committed the first n writes after n turns.
LEMMA LoopCommits ==
  ASSUME NEW room \in RoomState
  PROVE  CommitLoop(room) = CommitBuffer(room)
<1> DEFINE b == room.tx_buffer
           len == Len(b)
           Turn(g, n) == IF n = 0 THEN DiscardBuffer(room) ELSE ApplyWrite(g[n - 1], b[n])
           Loop(g) == g = [n \in 0..len |-> Turn(g, n)]
           committed == [n \in 0..len |-> CommitBuffer(Prefix(room, n))]
<1>1. b \in Seq(RoomCommand) /\ len \in Nat
  BY DEF RoomState
<1>2. ASSUME NEW n \in 1..len
      PROVE  CommitBuffer(Prefix(room, n)) = ApplyWrite(CommitBuffer(Prefix(room, n - 1)), b[n])
  BY PrefixExtends, CommitAppend
<1>3. CommitBuffer(Prefix(room, 0)) = DiscardBuffer(room)
  BY CommitNothing
<1>4. Loop(committed)
  <2>1. ASSUME NEW n \in 0..len PROVE CommitBuffer(Prefix(room, n)) = Turn(committed, n)
    <3>1. CASE n = 0
      BY <1>3, <3>1
    <3>2. CASE n # 0
      <4>1. n \in 1..len /\ n - 1 \in 0..len
        BY <1>1, <3>2
      <4> QED BY <1>2, <3>2, <4>1
    <3> QED BY <3>1, <3>2
  <2> HIDE DEF Turn
  <2> QED BY <2>1
<1>5. PICK g : Loop(g) /\ AppliedWrites(room) = g
  BY <1>4 DEF AppliedWrites
<1> DEFINE wrong == {n \in 0..len : g[n] # CommitBuffer(Prefix(room, n))}
<1>6. \A n \in 0..len : g[n] = Turn(g, n)
  BY <1>5
<1>7. ASSUME NEW n \in wrong PROVE n - 1 \in wrong
  <2>1. n \in 0..len /\ g[n] = Turn(g, n) /\ g[n] # CommitBuffer(Prefix(room, n))
    BY <1>6, <1>7
  <2>2. n # 0
    BY <1>3, <2>1
  <2>3. n \in 1..len /\ n - 1 \in 0..len
    BY <1>1, <2>1, <2>2
  <2>4. g[n] = ApplyWrite(g[n - 1], b[n])
    BY <2>1, <2>2
  <2>5. g[n - 1] # CommitBuffer(Prefix(room, n - 1))
    BY <1>2, <2>1, <2>3, <2>4
  <2> QED BY <2>3, <2>5
<1>8. wrong = {}
  <2> SUFFICES ASSUME wrong # {} PROVE FALSE
    OBVIOUS
  <2>1. wrong \subseteq Nat
    BY <1>1
  <2> HIDE DEF wrong
  <2>2. PICK n \in wrong : \A m \in wrong : ~ (<<m, n>> \in OpToRel(<, Nat))
    BY <2>1, NatLessThanWellFounded, WFMin
  <2>3. n - 1 \in wrong
    BY <1>7
  <2>4. <<n - 1, n>> \in OpToRel(<, Nat)
    BY <2>1, <2>3 DEF OpToRel
  <2> QED BY <2>2, <2>3, <2>4
<1>9. g[len] = CommitBuffer(Prefix(room, len))
  BY <1>1, <1>8
<1>10. Prefix(room, len) = room
  <2>1. SubSeq(b, 1, len) = b
    BY <1>1
  <2> QED BY <2>1 DEF Prefix, RoomState
<1> QED BY <1>5, <1>9, <1>10 DEF CommitLoop

\* The commit of every transaction is what the loop over its buffer computes,
\* for buffers of any length.
THEOREM CommitsAreLoops == Spec => []CommitIsTheLoop
<1>1. TypeOK => CommitIsTheLoop
  BY LoopCommits DEF TypeOK, CommitIsTheLoop
<1> QED BY <1>1, TypeCorrect, PTL

-----------------------------------------------------------------------------
(* Transactions *)

LEMMA OpenTxStep ==
  ASSUME NEW old \in RoomState, NEW new, RoomStep(old, new), old.tx_open
  PROVE  UnseenOrCommitted(old, new)
<1>1. ASSUME NEW op \in RoomCommand, new = BufferWrite(old, op)
      PROVE  UnseenOrCommitted(old, new)
  BY <1>1 DEF BufferWrite, RoomState, UnseenOrCommitted
<1>2. CASE new = DiscardBuffer(old)
  BY <1>2 DEF DiscardBuffer, RoomState, UnseenOrCommitted
<1>3. CASE new = CommitBuffer(old)
  <2>1. ASSUME NEW f \in FragmentIds, new.fragments[f] # old.fragments[f]
        PROVE  WritesTo(old.tx_buffer, f) # {}
    <3>1. CommittedEntry(old, f) # old.fragments[f]
      BY <1>3, <2>1, CommitBufferEntries
    <3> QED BY <3>1 DEF CommittedEntry
  <2>2. ~new.tx_open
    BY <1>3 DEF CommitBuffer
  <2>3. new.room_counter = old.room_counter + Len(old.tx_buffer)
    BY <1>3, CommitBufferEntries
  <2> QED BY <2>1, <2>2, <2>3 DEF UnseenOrCommitted
<1> QED BY <1>1, <1>2, <1>3 DEF RoomStep

LEMMA NextAtomic ==
  ASSUME TypeOK, [Next]_vars, NEW q \in Live \cap Live', rooms[q].tx_open
  PROVE  UnseenOrCommitted(rooms[q], rooms'[q])
<1>1. ASSUME rooms'[q] = rooms[q]
      PROVE  UnseenOrCommitted(rooms[q], rooms'[q])
  BY <1>1 DEF UnseenOrCommitted
<1>2. CASE RoomCreate
  <2>1. rooms'[q] = rooms[q]
    BY <1>2 DEF RoomCreate, TypeOK, Live
  <2> QED BY <1>1, <2>1
<1>3. ASSUME NEW r \in Live, RoomDelete(r)
      PROVE  UnseenOrCommitted(rooms[q], rooms'[q])
  <2>1. rooms'[q] = rooms[q]
    BY <1>3 DEF RoomDelete, Live
  <2> QED BY <1>1, <2>1
<1>4. ASSUME NEW r \in Live, NEW new, RoomStep(rooms[r], new),
             rooms' = [rooms EXCEPT ![r] = new]
      PROVE  UnseenOrCommitted(rooms[q], rooms'[q])
  <2>1. CASE q = r
    <3>1. rooms[q] \in RoomState /\ rooms'[q] = new
      BY <1>4, <2>1 DEF TypeOK, Live
    <3> QED BY <1>4, <2>1, <3>1, OpenTxStep
  <2>2. CASE q # r
    <3>1. rooms'[q] = rooms[q]
      BY <1>4, <2>2 DEF Live
    <3> QED BY <1>1, <3>1
  <2> QED BY <2>1, <2>2
<1>5. CASE UNCHANGED vars
  BY <1>1, <1>5 DEF vars
<1> QED BY <1>2, <1>3, <1>4, <1>5, StepCases

\* No command of any connection makes part of an open transaction visible: the
\* room changes for readers only when the transaction ends, all at once.
THEOREM TransactionsAreAtomic == Spec => TxIsAtomic
<1>1. TypeOK /\ [Next]_vars =>
        [\A r \in Live \cap Live' :
           rooms[r].tx_open => UnseenOrCommitted(rooms[r], rooms'[r])]_vars
  BY NextAtomic
<1> QED BY <1>1, TypeCorrect, PTL DEF Spec, TxIsAtomic

-----------------------------------------------------------------------------
(* Refinement of VersionedRooms *)

\* What a reader sees of a room.
Seen(room) == [counter |-> room.room_counter, fragments |-> room.fragments]

LEMMA ApplyWriteFollows ==
  ASSUME NEW room \in RoomState, NEW op \in RoomCommand
  PROVE  Versioned!Follows(Seen(ApplyWrite(room, op)), Seen(room))
<1> DEFINE new == ApplyWrite(room, op)
           n == room.room_counter
<1>1. n \in Nat /\ op.value \in Values
  BY DEF RoomState, RoomCommand
<1>2. /\ new.room_counter = n + 1
      /\ Target(op) \in FragmentIds
      /\ \A f \in FragmentIds : new.fragments[f] =
           IF f = Target(op) THEN [value |-> op.value, key_version |-> n + 1]
                             ELSE room.fragments[f]
  BY ApplyWriteEntries
<1> HIDE DEF new, n
<1>3. \A f \in FragmentIds :
        \/ new.fragments[f] = room.fragments[f]
        \/ /\ new.fragments[f].key_version \in (n + 1)..new.room_counter
           /\ new.fragments[f].value \in Values
  BY <1>1, <1>2
<1>4. new.fragments[Target(op)].key_version = new.room_counter
  BY <1>2
<1>5. Versioned!Follows(Seen(new), Seen(room))
  BY <1>1, <1>2, <1>3, <1>4
     DEF Versioned!Follows, Versioned!FragmentIds, FragmentIds, Seen, n
<1> QED BY <1>5 DEF new

LEMMA CommitBufferFollows ==
  ASSUME NEW room \in RoomState
  PROVE  \/ Seen(CommitBuffer(room)) = Seen(room)
         \/ Versioned!Follows(Seen(CommitBuffer(room)), Seen(room))
<1> DEFINE new == CommitBuffer(room)
           n == room.room_counter
           len == Len(room.tx_buffer)
<1>1. n \in Nat /\ len \in Nat /\ new.room_counter = n + len
  BY CommitBufferEntries DEF RoomState
<1>2. \A f \in FragmentIds : new.fragments[f] = CommittedEntry(room, f)
  BY CommitBufferEntries
<1>3. CASE len = 0
  <2>1. \A f \in FragmentIds : CommittedEntry(room, f) = room.fragments[f]
    <3>1. \A f \in FragmentIds : WritesTo(room.tx_buffer, f) = {}
      BY <1>3 DEF WritesTo, RoomState
    <3> QED BY <3>1 DEF CommittedEntry
  <2>2. new.fragments = room.fragments
    BY <2>1 DEF CommitBuffer, RoomState
  <2>3. new.room_counter = room.room_counter
    BY <1>1, <1>3
  <2> QED BY <2>2, <2>3 DEF Seen
<1>4. CASE len > 0
  <2>1. ASSUME NEW f \in FragmentIds
        PROVE  \/ new.fragments[f] = room.fragments[f]
               \/ /\ new.fragments[f].key_version \in (n + 1)..(n + len)
                  /\ new.fragments[f].value \in Values
    <3>1. CASE CommittedEntry(room, f) = room.fragments[f]
      BY <1>2, <3>1
    <3>2. ASSUME NEW i \in 1..len,
                 CommittedEntry(room, f) = [value |-> room.tx_buffer[i].value,
                                            key_version |-> n + i]
          PROVE  /\ new.fragments[f].key_version \in (n + 1)..(n + len)
                 /\ new.fragments[f].value \in Values
      <4>1. room.tx_buffer[i].value \in Values
        <5>1. room.tx_buffer[i] \in RoomCommand
          BY DEF RoomState
        <5> QED BY <5>1 DEF RoomCommand
      <4>2. /\ new.fragments[f].value = room.tx_buffer[i].value
            /\ new.fragments[f].key_version = n + i
        BY <1>2, <3>2
      <4>3. n + i \in (n + 1)..(n + len)
        BY <1>1
      <4> QED BY <4>1, <4>2, <4>3
    <3> QED BY <3>1, <3>2, CommittedEntryCases
  <2>2. \E f \in FragmentIds : new.fragments[f].key_version = n + len
    BY <1>2, <1>4, LastWriteWins
  <2> HIDE DEF new, n, len
  <2>3. Versioned!Follows(Seen(new), Seen(room))
    BY <1>1, <1>4, <2>1, <2>2
       DEF Versioned!Follows, Versioned!FragmentIds, FragmentIds, Seen, n
  <2> QED BY <2>3 DEF new
<1> QED BY <1>1, <1>3, <1>4

LEMMA RoomStepFollows ==
  ASSUME NEW old \in RoomState, NEW new, RoomStep(old, new)
  PROVE  Seen(new) = Seen(old) \/ Versioned!Follows(Seen(new), Seen(old))
<1>1. ASSUME NEW op \in RoomCommand, new = BufferWrite(old, op)
      PROVE  Seen(new) = Seen(old)
  BY <1>1 DEF BufferWrite, RoomState, Seen
<1>2. CASE new = [old EXCEPT !.tx_open = TRUE, !.tx_buffer = << >>]
  BY <1>2 DEF RoomState, Seen
<1>3. CASE new = DiscardBuffer(old)
  BY <1>3 DEF DiscardBuffer, RoomState, Seen
<1> QED BY <1>1, <1>2, <1>3, ApplyWriteFollows, CommitBufferFollows DEF RoomStep

LEMMA InitRefines == Init => Versioned!Init
<1> SUFFICES ASSUME Init PROVE Versioned!Init
  OBVIOUS
<1>1. Live = {}
  BY DEF Init, Live
<1>2. [r \in Live |-> [counter |-> rooms[r].room_counter,
                       fragments |-> rooms[r].fragments]] = << >>
  BY <1>1
<1>3. 1..(next_room_id - 1) = {}
  BY DEF Init
<1> QED BY <1>2, <1>3 DEF Versioned!Init

LEMMA NextRefines == TypeOK /\ [Next]_vars => [Versioned!Next]_(Versioned!vars)
<1> SUFFICES ASSUME TypeOK, [Next]_vars
             PROVE  Versioned!Next \/ UNCHANGED Versioned!vars
  OBVIOUS
<1> DEFINE created == 1..(next_room_id - 1)
<1>1. CASE RoomCreate
  <2> PICK r : r = next_room_id
    OBVIOUS
  <2>1. r \in Nat \ {0} /\ r \notin created /\ r \notin Live
    BY DEF TypeOK
  <2>2. created' = created \cup {r}
    BY <1>1, <2>1 DEF RoomCreate
  <2>3. Live' = Live \cup {r} /\ rooms'[r] = NewRoom
    BY <1>1 DEF RoomCreate, Live
  <2>4. \A q \in Live \ {r} : rooms'[q] = rooms[q]
    BY <1>1 DEF RoomCreate
  <2>5. Seen(rooms'[r]) = Versioned!Empty
    BY <2>3 DEF Seen, NewRoom, FragmentIds, Versioned!Empty, Versioned!Unwritten,
                Versioned!FragmentIds
  <2>6. Versioned!Create(r)
    BY <2>1, <2>2, <2>3, <2>4, <2>5 DEF Versioned!Create, Versioned!Others, Seen
  <2>7. r \in created'
    BY <2>1, <2>2
  <2> QED BY <2>6, <2>7 DEF Versioned!Next
<1>2. ASSUME NEW r \in Live, RoomDelete(r)
      PROVE  Versioned!Next
  <2>1. Live' = Live \ {r} /\ \A q \in Live' : rooms'[q] = rooms[q]
    BY <1>2 DEF RoomDelete, Live
  <2>2. Versioned!Remove(r)
    BY <1>2, <2>1 DEF RoomDelete, Versioned!Remove, Versioned!Others
  <2> QED BY <2>2 DEF Versioned!Next
<1>3. ASSUME NEW r \in Live, NEW new, RoomStep(rooms[r], new),
             rooms' = [rooms EXCEPT ![r] = new], next_room_id' = next_room_id
      PROVE  Versioned!Next \/ UNCHANGED Versioned!vars
  <2>1. Live' = Live /\ rooms'[r] = new
    BY <1>3 DEF Live
  <2>2. \A q \in Live \ {r} : rooms'[q] = rooms[q]
    BY <1>3 DEF Live
  <2>3. CASE Seen(new) = Seen(rooms[r])
    <3>1. \A q \in Live : Seen(rooms'[q]) = Seen(rooms[q])
      BY <2>1, <2>2, <2>3
    <3> QED BY <1>3, <2>1, <3>1 DEF Versioned!vars, Seen
  <2>4. CASE Versioned!Follows(Seen(new), Seen(rooms[r]))
    <3>1. Versioned!Change(r)
      BY <1>3, <2>1, <2>2, <2>4 DEF Versioned!Change, Versioned!Others, Seen
    <3> QED BY <3>1 DEF Versioned!Next
  <2>5. rooms[r] \in RoomState
    BY DEF TypeOK
  <2> QED BY <1>3, <2>3, <2>4, <2>5, RoomStepFollows
<1>4. CASE UNCHANGED vars
  BY <1>4 DEF vars, Versioned!vars, Live
<1> QED BY <1>1, <1>2, <1>3, <1>4, StepCases

\* For a reader the store with its transactions is VersionedRooms: counters and
\* versions only grow with every change and a room id is never handed out twice.
THEOREM StoreRefinesVersionedRooms == Spec => RefinesVersionedRooms
BY InitRefines, NextRefines, TypeCorrect, PTL DEF Spec, RefinesVersionedRooms, Versioned!Spec
=============================================================================
