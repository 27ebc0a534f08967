--------------------------- MODULE VersionedRooms ---------------------------
(***************************************************************************)
(* What a reader of syncpond's rooms is promised, without transactions,    *)
(* commands or buffers: a room is a map of versioned fragments with a      *)
(* counter.  A change raises the counter and stamps each fragment it       *)
(* touches with a version above the old counter, so that everything newer  *)
(* than a counter value seen earlier can be told from the versions alone.  *)
(* A room id, once handed out, never names another room.                   *)
(***************************************************************************)
EXTENDS Integers

CONSTANTS Containers, Keys, Values, Absent

VARIABLES
  content,  \* the live rooms: [counter, fragments]
  created   \* the room ids handed out so far

vars == <<content, created>>

FragmentIds == Containers \X Keys

Unwritten == [value |-> Absent, key_version |-> 0]

Empty == [counter |-> 0, fragments |-> [f \in FragmentIds |-> Unwritten]]

Init == content = << >> /\ created = {}

Others(r) == \A q \in DOMAIN content \ {r} : content'[q] = content[q]

Create(r) ==
  /\ r \notin created
  /\ created' = created \cup {r}
  /\ DOMAIN content' = DOMAIN content \cup {r}
  /\ content'[r] = Empty
  /\ Others(r)

Remove(r) ==
  /\ DOMAIN content' = DOMAIN content \ {r}
  /\ Others(r)
  /\ UNCHANGED created

\* One or several writes at once.
Follows(new, old) ==
  /\ new.counter > old.counter
  /\ \A f \in FragmentIds :
       \/ new.fragments[f] = old.fragments[f]
       \/ /\ new.fragments[f].key_version \in (old.counter + 1)..new.counter
          /\ new.fragments[f].value \in Values
  /\ \E f \in FragmentIds : new.fragments[f].key_version = new.counter

Change(r) ==
  /\ DOMAIN content' = DOMAIN content
  /\ Follows(content'[r], content[r])
  /\ Others(r)
  /\ UNCHANGED created

Next ==
  \/ \E r \in created' : Create(r)
  \/ \E r \in DOMAIN content : Remove(r) \/ Change(r)

Spec == Init /\ [][Next]_vars
=============================================================================
