----------------------------- MODULE RateLimiter -----------------------------
(***************************************************************************)
(* A sliding-window rate limiter (rate_limiter.rs): a map from keys to the *)
(* times of the calls admitted, behind a mutex.                            *)
(*                                                                         *)
(* A call reads the clock before it waits for the mutex.  Calls may        *)
(* therefore be decided in another order than their times, and a bucket,   *)
(* which is cleaned from its front, need not be sorted.  MaxDelay bounds   *)
(* how long a call waits; the properties are stated relative to it, and    *)
(* with MaxDelay = 0 they are those of an exact sliding window.            *)
(***************************************************************************)
EXTENDS Integers, Sequences

CONSTANTS
  Callers,   \* the tasks that call allow
  Keys,      \* what calls are counted by: peers, rooms, clients
  Limit,     \* calls admitted in a window
  Window,    \* the length of a window
  MaxDelay,  \* how long a call may wait for the mutex
  MaxTime    \* bound on the clock

\* What the theorems ask of the constants.
LimitAssumption ==
  Limit \in Nat /\ Window \in Nat /\ MaxDelay \in Nat /\ MaxTime \in Nat

VARIABLES
  clock,     \* Instant::now()
  buckets,   \* the map of the limiter; keys without an entry are not in it
  calls,     \* the calls that have read the clock and wait for the mutex
  log        \* history: for each key the calls admitted, in this order

limiterVars == <<buckets, calls, log>>
vars == <<clock, limiterVars>>

-----------------------------------------------------------------------------
Call == [caller : Callers, key : Keys, now : Nat]

\* Mutant of Recent: a time that is as old as the window does not count.
RecentButOne(time, now) == now - time < Window

Recent(time, now) == now - time <= Window

\* clean_entry pops stale times from the front, up to the first that is recent.
StaleFront(entry, now) ==
  CHOOSE n \in 0..Len(entry) :
    /\ \A i \in 1..n : ~Recent(entry[i], now)
    /\ n < Len(entry) => Recent(entry[n + 1], now)

\* Mutant of CleanEntry: the newest time is looked at and not the oldest.
CleanByLast(entry, now) ==
  IF entry # << >> /\ Recent(entry[Len(entry)], now) THEN entry ELSE << >>

CleanEntry(entry, now) == SubSeq(entry, StaleFront(entry, now) + 1, Len(entry))

CleanBucket(k, now) == IF k \in DOMAIN buckets THEN CleanEntry(buckets[k], now) ELSE << >>

\* Mutant of Retained: only the caller's bucket is cleaned.
RetainAll(key, now) ==
  [k \in DOMAIN buckets \cup {key} |->
     IF k = key \/ k \notin DOMAIN buckets THEN CleanBucket(k, now) ELSE buckets[k]]

\* The buckets once the stale ones are gone and the caller has its own.
Retained(key, now) ==
  [k \in {j \in DOMAIN buckets : CleanBucket(j, now) # << >>} \cup {key} |->
     CleanBucket(k, now)]

\* allow, up to the mutex: the clock is read.
Enter(c, k) ==
  /\ \A call \in calls : call.caller # c
  /\ calls' = calls \cup {[caller |-> c, key |-> k, now |-> clock]}
  /\ UNCHANGED <<clock, buckets, log>>

HasRoom(entry) == Len(entry) < Limit

\* allow, under the mutex: true, and the call is counted under the time it read.
Admit(call) ==
  LET cleaned == Retained(call.key, call.now) IN
  /\ HasRoom(cleaned[call.key])
  /\ buckets' = [cleaned EXCEPT ![call.key] = Append(@, call.now)]
  /\ calls' = calls \ {call}
  /\ log' = [log EXCEPT ![call.key] = Append(@, [now |-> call.now, at |-> clock])]
  /\ UNCHANGED clock

\* allow, under the mutex: false.
Refuse(call) ==
  LET cleaned == Retained(call.key, call.now) IN
  /\ ~HasRoom(cleaned[call.key])
  /\ buckets' = cleaned
  /\ calls' = calls \ {call}
  /\ UNCHANGED <<clock, log>>

\* Time passes; no call waits longer than MaxDelay.
Tick ==
  /\ clock < MaxTime
  /\ \A call \in calls : clock < call.now + MaxDelay
  /\ clock' = clock + 1
  /\ UNCHANGED limiterVars

LimiterInit ==
  /\ buckets = [k \in {} |-> << >>]
  /\ calls = {}
  /\ log = [k \in Keys |-> << >>]

Init == clock = 0 /\ LimiterInit

Next ==
  \/ \E c \in Callers, k \in Keys : Enter(c, k)
  \/ \E call \in calls : Admit(call) \/ Refuse(call)
  \/ Tick

Spec == Init /\ [][Next]_vars

-----------------------------------------------------------------------------
(* Properties *)

TypeOK ==
  /\ clock \in Nat
  /\ DOMAIN buckets \subseteq Keys
  /\ \A k \in DOMAIN buckets : buckets[k] \in Seq(Nat)
  /\ calls \subseteq Call
  /\ log \in [Keys -> Seq([now : Nat, at : Nat])]

\* No more than Limit calls of a key are let through within a window, less the
\* time a call may wait for the mutex: of Limit + 1 calls in a row, the last is
\* decided more than that after the first.  In whatever order the calls that
\* have read the clock get the mutex, and whichever calls clean the bucket.
LimitPerWindow ==
  \A k \in Keys : \A i \in DOMAIN log[k] :
    i + Limit <= Len(log[k]) => log[k][i + Limit].at - log[k][i].at > Window - MaxDelay

\* A call is refused only when Limit calls of its key were let through in the
\* last window and the time a call may wait: a time that is stuck behind a newer
\* one in the bucket never counts for longer.
RefusedForCause ==
  [][\A call \in calls \ calls' : log' = log =>
       /\ Len(log[call.key]) >= Limit
       /\ \A i \in DOMAIN log[call.key] :
            i > Len(log[call.key]) - Limit =>
              clock - log[call.key][i].at <= Window + MaxDelay]_vars

\* The map does not grow with the keys ever seen ("to prevent unbounded key
\* growth"): a call leaves no other key in it than those with a call let through
\* in the last window and the time a call may wait.
IdleKeysForgotten ==
  [][\A call \in calls \ calls' : \A k \in DOMAIN buckets' \ {call.key} :
       \E i \in DOMAIN log[k] : clock - log[k][i].at <= Window + MaxDelay]_vars
=============================================================================
