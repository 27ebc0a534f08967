------------------------- MODULE RateLimiterProofs -------------------------
(***************************************************************************)
(* The rate limiter for every limit, window and delay.  A bucket is popped *)
(* at its front and extended at its end, so it always holds the times of   *)
(* the last calls let through, and what was popped is out of date.  Both   *)
(* survive that times are not in order in the bucket.                      *)
(***************************************************************************)
EXTENDS RateLimiter, WellFoundedInduction, TLAPS

-----------------------------------------------------------------------------
(* Cleaning *)

\* clean_entry stops somewhere: at the first recent time, or at the end.
LEMMA StaleFrontIs ==
  ASSUME LimitAssumption, NEW entry \in Seq(Nat), NEW now \in Nat
  PROVE  /\ StaleFront(entry, now) \in 0..Len(entry)
         /\ \A i \in 1..StaleFront(entry, now) : now - entry[i] > Window
         /\ StaleFront(entry, now) < Len(entry) =>
              now - entry[StaleFront(entry, now) + 1] <= Window
<1> DEFINE Front(n) == /\ \A i \in 1..n : ~Recent(entry[i], now)
                       /\ n < Len(entry) => Recent(entry[n + 1], now)
<1> DEFINE Kept == {i \in 1..Len(entry) : Recent(entry[i], now)}
<1>1. \E n \in 0..Len(entry) : Front(n)
  <2>1. CASE Kept = {}
    <3>1. Front(Len(entry))
      BY <2>1
    <3> QED BY <3>1
  <2>2. CASE Kept # {}
    <3>1. Kept \subseteq Nat
      OBVIOUS
    <3>2. \E x \in Kept : \A y \in Kept : ~ (<<y, x>> \in OpToRel(<, Nat))
      <4> HIDE DEF Kept
      <4> QED BY <3>1, <2>2, NatLessThanWellFounded, WFMin
    <3>3. PICK x \in Kept : \A y \in Kept : ~ (<<y, x>> \in OpToRel(<, Nat))
      BY <3>2
    <3>4. \A y \in Kept : x <= y
      <4> HIDE DEF Kept
      <4> TAKE y \in Kept
      <4>1. x \in Nat /\ y \in Nat
        BY <3>1
      <4>2. y < x => <<y, x>> \in OpToRel(<, Nat)
        BY <4>1 DEF OpToRel
      <4>3. ~ (y < x)
        BY <4>2, <3>3, Zenon
      <4> QED BY <4>1, <4>3
    <3>5. x \in 1..Len(entry) /\ Recent(entry[x], now)
      OBVIOUS
    <3>6. \A i \in 1..(x - 1) : ~Recent(entry[i], now)
      BY <3>4, <3>5
    <3>7. Front(x - 1) /\ x - 1 \in 0..Len(entry)
      BY <3>5, <3>6
    <3> QED BY <3>7
  <2> QED BY <2>1, <2>2
<1>2. StaleFront(entry, now) \in 0..Len(entry) /\ Front(StaleFront(entry, now))
  BY <1>1 DEF StaleFront
<1>3. \A i \in 1..StaleFront(entry, now) : entry[i] \in Nat
  BY <1>2
<1>4. StaleFront(entry, now) < Len(entry) => entry[StaleFront(entry, now) + 1] \in Nat
  BY <1>2
<1> QED BY <1>2, <1>3, <1>4 DEF Recent, LimitAssumption

\* The times of a key, whether or not the map has an entry for it.
Held(k) == IF k \in DOMAIN buckets THEN buckets[k] ELSE << >>

\* What one cleaning with the time now leaves of the times held: all but n at
\* the front, which are stale, and the first one left is not.
Cleaned(k, now, kept) ==
  \E n \in 0..Len(Held(k)) :
    /\ kept \in Seq(Nat)
    /\ Len(kept) = Len(Held(k)) - n
    /\ \A i \in 1..Len(kept) : kept[i] = Held(k)[n + i]
    /\ \A i \in 1..n : now - Held(k)[i] > Window
    /\ Len(kept) > 0 => now - kept[1] <= Window

LEMMA CleanBucketIs ==
  ASSUME LimitAssumption, TypeOK, NEW k \in Keys, NEW now \in Nat
  PROVE  Cleaned(k, now, CleanBucket(k, now))
<1>1. CASE k \notin DOMAIN buckets
  <2>1. Held(k) = << >> /\ CleanBucket(k, now) = << >>
    BY <1>1 DEF Held, CleanBucket
  <2> QED BY <2>1 DEF Cleaned
<1>2. CASE k \in DOMAIN buckets
  <2> DEFINE entry == buckets[k]
             n == StaleFront(entry, now)
             kept == SubSeq(entry, n + 1, Len(entry))
  <2>1. entry \in Seq(Nat)
    BY <1>2 DEF TypeOK
  <2>2. Held(k) = entry /\ CleanBucket(k, now) = kept
    BY <1>2 DEF Held, CleanBucket, CleanEntry
  <2>3. /\ n \in 0..Len(entry)
        /\ \A i \in 1..n : now - entry[i] > Window
        /\ n < Len(entry) => now - entry[n + 1] <= Window
    BY <2>1, StaleFrontIs
  <2> HIDE DEF entry, n
  <2>4. /\ kept \in Seq(Nat)
        /\ Len(kept) = Len(entry) - n
        /\ \A i \in 1..Len(kept) : kept[i] = entry[n + i]
    BY <2>1, <2>3
  <2>5. Len(kept) > 0 => now - kept[1] <= Window
    BY <2>3, <2>4
  <2> HIDE DEF kept
  <2> QED BY <2>2, <2>3, <2>4, <2>5 DEF Cleaned
<1> QED BY <1>1, <1>2

-----------------------------------------------------------------------------
(* The invariant, for the log l and the times held h of one key *)

Entry == [now : Nat, at : Nat]

\* A bucket holds the times of the last calls let through, at most Limit of
\* them, and the times of the calls before are out of date.
BucketOf(l, h, time) ==
  /\ l \in Seq(Entry) /\ h \in Seq(Nat)
  /\ Len(h) <= Len(l) /\ Len(h) <= Limit
  /\ \A i \in 1..Len(h) : h[i] = l[Len(l) - Len(h) + i].now
  /\ \A i \in 1..(Len(l) - Len(h)) : time - l[i].now > Window

\* Calls are decided in the order of the log, at most MaxDelay after they read
\* the clock, and within the limit.
LogOf(l, time) ==
  \A i \in 1..Len(l) :
    /\ l[i].now <= l[i].at /\ l[i].at <= l[i].now + MaxDelay
    /\ l[i].at <= time
    /\ \A j \in 1..Len(l) : i <= j => l[i].at <= l[j].at
    /\ i + Limit <= Len(l) => l[i + Limit].at - l[i].at > Window - MaxDelay

CallInv == \A call \in calls : call.now <= clock /\ clock <= call.now + MaxDelay

KeyInv(k) == BucketOf(log[k], Held(k), clock) /\ LogOf(log[k], clock)

LimiterInv == TypeOK /\ CallInv /\ \A k \in Keys : KeyInv(k)

LEMMA EntryIs ==
  ASSUME NEW l \in Seq(Entry)
  PROVE  \A i \in 1..Len(l) : l[i].now \in Nat /\ l[i].at \in Nat
<1> TAKE i \in 1..Len(l)
<1>1. l[i] \in Entry
  OBVIOUS
<1> QED BY <1>1 DEF Entry

LEMMA InitInv == ASSUME LimitAssumption PROVE Init => LimiterInv
<1> SUFFICES ASSUME Init PROVE LimiterInv
  OBVIOUS
<1> USE DEF Init, LimiterInit
<1>1. DOMAIN buckets = {}
  OBVIOUS
<1>2. TypeOK /\ CallInv
  BY <1>1 DEF TypeOK, CallInv
<1>3. \A k \in Keys : Held(k) = << >> /\ log[k] = << >>
  BY <1>1 DEF Held
<1>4. BucketOf(<< >>, << >>, clock) /\ LogOf(<< >>, clock)
  BY DEF BucketOf, LogOf, LimitAssumption
<1> QED BY <1>2, <1>3, <1>4 DEF LimiterInv, KeyInv

\* Popping stale times keeps the bucket.
LEMMA PopKeeps ==
  ASSUME LimitAssumption, NEW l, NEW h, NEW time \in Nat, BucketOf(l, h, time),
         NEW now \in Nat, now <= time, NEW n \in 0..Len(h), NEW kept \in Seq(Nat),
         Len(kept) = Len(h) - n,
         \A i \in 1..Len(kept) : kept[i] = h[n + i],
         \A i \in 1..n : now - h[i] > Window
  PROVE  BucketOf(l, kept, time)
<1> DEFINE p == Len(l) - Len(h)  q == Len(l) - Len(kept)
<1>1. l \in Seq(Entry) /\ h \in Seq(Nat) /\ Len(h) \in Nat /\ Len(l) \in Nat
      /\ Len(kept) \in Nat
  BY DEF BucketOf
<1>2. /\ p \in Nat /\ Len(l) = p + Len(h)
      /\ q = p + n /\ n \in Nat /\ Len(kept) + n = Len(h) /\ Len(h) <= Limit
  BY <1>1 DEF BucketOf
<1>3. /\ \A i \in 1..Len(h) : h[i] = l[p + i].now
      /\ \A i \in 1..p : time - l[i].now > Window
  BY DEF BucketOf
<1>4. \A i \in 1..Len(l) : l[i].now \in Nat
  BY <1>1, EntryIs
<1> HIDE DEF p, q
<1>5. ASSUME NEW i \in 1..q PROVE time - l[i].now > Window
  <2>1. CASE i <= p
    BY <2>1, <1>2, <1>3
  <2>2. CASE i > p
    <3>1. PICK j \in 1..n : i = p + j
      <4>1. i - p \in 1..n /\ i = p + (i - p)
        BY <2>2, <1>2
      <4> QED BY <4>1
    <3>2. j \in 1..Len(h) /\ i \in 1..Len(l)
      BY <3>1, <1>2
    <3>3. now - h[j] > Window
      BY <3>1
    <3>4. h[j] = l[i].now /\ l[i].now \in Nat
      BY <3>1, <3>2, <1>3, <1>4
    <3> QED BY <3>3, <3>4 DEF LimitAssumption
  <2> QED BY <2>1, <2>2, <1>2
<1>6. ASSUME NEW i \in 1..Len(kept) PROVE kept[i] = l[q + i].now
  <2>1. n + i \in 1..Len(h) /\ p + (n + i) = q + i
    BY <1>2
  <2>2. h[n + i] = l[p + (n + i)].now
    BY <2>1, <1>3
  <2> QED BY <2>1, <2>2
<1>7. Len(kept) <= Len(l) /\ Len(kept) <= Limit
  BY <1>1, <1>2 DEF LimitAssumption
<1> QED BY <1>1, <1>5, <1>6, <1>7 DEF BucketOf, q

\* Letting a call through keeps the bucket and the limit: with fewer than Limit
\* times in the bucket, the call Limit calls before this one has been popped.
LEMMA PushKeeps ==
  ASSUME LimitAssumption, NEW l, NEW h, NEW time \in Nat, BucketOf(l, h, time),
         LogOf(l, time), Len(h) < Limit,
         NEW now \in Nat, now <= time, time <= now + MaxDelay
  PROVE  /\ BucketOf(Append(l, [now |-> now, at |-> time]), Append(h, now), time)
         /\ LogOf(Append(l, [now |-> now, at |-> time]), time)
<1> DEFINE m == Append(l, [now |-> now, at |-> time])
           g == Append(h, now)
           N == Len(l)  H == Len(h)  p == N - H
<1>1. l \in Seq(Entry) /\ h \in Seq(Nat) /\ N \in Nat /\ H \in Nat /\ p \in Nat
      /\ H < Limit
  BY DEF BucketOf
<1>2. /\ m \in Seq(Entry) /\ Len(m) = N + 1
      /\ \A i \in 1..N : m[i] = l[i]
      /\ m[N + 1].now = now /\ m[N + 1].at = time
  BY <1>1 DEF Entry
<1>3. /\ g \in Seq(Nat) /\ Len(g) = H + 1
      /\ \A i \in 1..H : g[i] = h[i]
      /\ g[H + 1] = now
  BY <1>1
<1>4. /\ \A i \in 1..H : h[i] = l[p + i].now
      /\ \A i \in 1..p : time - l[i].now > Window
  BY DEF BucketOf
<1>5. \A i \in 1..N :
        /\ l[i].now \in Nat /\ l[i].at \in Nat
        /\ l[i].now <= l[i].at /\ l[i].at <= l[i].now + MaxDelay
        /\ l[i].at <= time
        /\ \A j \in 1..N : i <= j => l[i].at <= l[j].at
        /\ i + Limit <= N => l[i + Limit].at - l[i].at > Window - MaxDelay
  BY <1>1, EntryIs DEF LogOf
<1>6. N = p + H
  BY <1>1
<1> HIDE DEF m, g, N, H, p
<1>7. ASSUME NEW i \in 1..(H + 1) PROVE g[i] = m[p + i].now
  <2>1. CASE i = H + 1
    BY <2>1, <1>1, <1>2, <1>3, <1>6
  <2>2. CASE i \in 1..H
    <3>1. p + i \in 1..N
      BY <2>2, <1>1, <1>6
    <3> QED BY <3>1, <2>2, <1>2, <1>3, <1>4
  <2> QED BY <2>1, <2>2, <1>1
<1>8. ASSUME NEW i \in 1..p PROVE time - m[i].now > Window
  <2>1. i \in 1..N
    BY <1>1, <1>6
  <2> QED BY <2>1, <1>2, <1>4
<1>9. BucketOf(m, g, time)
  <2>1. Len(m) - Len(g) = p /\ Len(g) <= Len(m) /\ Len(g) <= Limit
    BY <1>1, <1>2, <1>3, <1>6 DEF LimitAssumption
  <2> QED BY <2>1, <1>2, <1>3, <1>7, <1>8 DEF BucketOf
<1>10. ASSUME NEW i \in 1..(N + 1)
       PROVE  /\ m[i].now <= m[i].at /\ m[i].at <= m[i].now + MaxDelay
              /\ m[i].at <= time
  <2>1. CASE i = N + 1
    BY <2>1, <1>2
  <2>2. CASE i \in 1..N
    BY <2>2, <1>2, <1>5
  <2> QED BY <2>1, <2>2, <1>1
<1>11. ASSUME NEW i \in 1..(N + 1), NEW j \in 1..(N + 1), i <= j
       PROVE  m[i].at <= m[j].at
  <2>1. CASE j = N + 1
    BY <2>1, <1>2, <1>10
  <2>2. CASE j \in 1..N
    <3>1. i \in 1..N
      BY <2>2, <1>11, <1>1
    <3> QED BY <3>1, <2>2, <1>11, <1>2, <1>5
  <2> QED BY <2>1, <2>2, <1>1
<1>12. ASSUME NEW i \in 1..(N + 1), i + Limit <= N + 1
       PROVE  m[i + Limit].at - m[i].at > Window - MaxDelay
  <2>1. Limit \in Nat /\ Window \in Nat /\ MaxDelay \in Nat /\ Limit > 0
    BY <1>1 DEF LimitAssumption
  <2>2. CASE i + Limit <= N
    <3>1. i \in 1..N /\ i + Limit \in 1..N
      BY <2>1, <2>2, <1>1
    <3>2. m[i] = l[i] /\ m[i + Limit] = l[i + Limit]
      BY <3>1, <1>2
    <3> QED BY <3>1, <3>2, <2>2, <1>5
  <2>3. CASE i + Limit = N + 1
    <3>1. i \in 1..p /\ i \in 1..N
      BY <2>1, <2>3, <1>1, <1>6
    <3>2. m[i] = l[i] /\ m[i + Limit].at = time
      BY <3>1, <2>3, <1>2
    <3>3. /\ time - l[i].now > Window /\ l[i].at <= l[i].now + MaxDelay
          /\ l[i].now \in Nat /\ l[i].at \in Nat
      BY <3>1, <1>4, <1>5
    <3>4. time - l[i].at > Window - MaxDelay
      BY <3>3, <2>1, SMTT(30)
    <3> QED BY <3>2, <3>4
  <2> QED BY <2>1, <2>2, <2>3, <1>12, <1>1
<1>13. LogOf(m, time)
  BY <1>2, <1>10, <1>11, <1>12 DEF LogOf
<1> QED BY <1>9, <1>13 DEF m, g

\* What is stale stays stale.
LEMMA TimeKeeps ==
  ASSUME LimitAssumption, NEW l, NEW h, NEW time \in Nat, BucketOf(l, h, time),
         LogOf(l, time)
  PROVE  BucketOf(l, h, time + 1) /\ LogOf(l, time + 1)
<1>1. l \in Seq(Entry) /\ h \in Seq(Nat) /\ Len(h) <= Len(l)
  BY DEF BucketOf
<1>2. \A i \in 1..Len(l) : l[i].now \in Nat /\ l[i].at \in Nat
  BY <1>1, EntryIs
<1>3. \A i \in 1..(Len(l) - Len(h)) : i \in 1..Len(l)
  BY <1>1
<1>4. \A i \in 1..Len(l) : l[i].at <= time + 1
  BY <1>2 DEF LogOf
<1>5. BucketOf(l, h, time + 1)
  <2> DEFINE later == time + 1
  <2>1. \A i \in 1..(Len(l) - Len(h)) : later - l[i].now > Window
    BY <1>2, <1>3 DEF BucketOf, LimitAssumption
  <2> HIDE DEF later
  <2>2. BucketOf(l, h, later)
    BY <2>1 DEF BucketOf
  <2> QED BY <2>2 DEF later
<1>6. LogOf(l, time + 1)
  BY <1>4 DEF LogOf
<1> QED BY <1>5, <1>6

-----------------------------------------------------------------------------
(* The steps *)

Decide(call) == Admit(call) \/ Refuse(call)

LEMMA DecideType ==
  ASSUME LimitAssumption, TypeOK, NEW call \in calls, Decide(call)
  PROVE  TypeOK' /\ clock' = clock /\ calls' = calls \ {call}
<1> DEFINE cleaned == Retained(call.key, call.now)
<1>1. call.key \in Keys /\ call.now \in Nat
  BY DEF TypeOK, Call
<1>2. DOMAIN cleaned \subseteq Keys /\ call.key \in DOMAIN cleaned
  BY <1>1 DEF TypeOK, Retained
<1>3. \A k \in DOMAIN cleaned : cleaned[k] \in Seq(Nat)
  <2>1. \A k \in Keys : CleanBucket(k, call.now) \in Seq(Nat)
    BY <1>1, CleanBucketIs DEF Cleaned
  <2> QED BY <2>1, <1>2 DEF Retained
<1>4. CASE Admit(call)
  <2>1. buckets' = [cleaned EXCEPT ![call.key] = Append(cleaned[call.key], call.now)]
    BY <1>4 DEF Admit
  <2> HIDE DEF cleaned
  <2>2. DOMAIN buckets' \subseteq Keys /\ \A k \in DOMAIN buckets' : buckets'[k] \in Seq(Nat)
    BY <2>1, <1>1, <1>2, <1>3
  <2>3. log' \in [Keys -> Seq([now : Nat, at : Nat])]
    BY <1>4, <1>1 DEF Admit, TypeOK
  <2> QED BY <1>4, <2>2, <2>3 DEF Admit, TypeOK
<1>5. CASE Refuse(call)
  BY <1>5, <1>2, <1>3 DEF Refuse, TypeOK
<1> QED BY <1>4, <1>5 DEF Decide

\* What a decision does to the times of each key.
LEMMA DecideHeld ==
  ASSUME LimitAssumption, TypeOK, NEW call \in calls, Decide(call), NEW k \in Keys
  PROVE  \E kept :
           /\ Cleaned(k, call.now, kept)
           /\ \/ /\ Admit(call) /\ k = call.key
                 /\ Len(kept) < Limit
                 /\ Held(k)' = Append(kept, call.now)
                 /\ log'[k] = Append(log[k], [now |-> call.now, at |-> clock])
              \/ /\ ~ (Admit(call) /\ k = call.key)
                 /\ k = call.key => Len(kept) >= Limit
                 /\ Held(k)' = kept
                 /\ log'[k] = log[k]
<1> DEFINE cleaned == Retained(call.key, call.now)
           kept == CleanBucket(k, call.now)
<1>1. call.key \in Keys /\ call.now \in Nat
  BY DEF TypeOK, Call
<1>2. Cleaned(k, call.now, kept)
  BY <1>1, CleanBucketIs
<1>3. /\ call.key \in DOMAIN cleaned
      /\ \A j \in DOMAIN cleaned : cleaned[j] = CleanBucket(j, call.now)
      /\ k \in DOMAIN cleaned => cleaned[k] = kept
      /\ k \notin DOMAIN cleaned => kept = << >>
  <2>1. k \notin DOMAIN buckets => kept = << >>
    BY DEF CleanBucket
  <2> QED BY <2>1 DEF Retained
<1>4. kept \in Seq(Nat)
  BY <1>2 DEF Cleaned
<1>5. CASE Admit(call)
  <2>1. /\ buckets' = [cleaned EXCEPT ![call.key] = Append(cleaned[call.key], call.now)]
        /\ Len(cleaned[call.key]) < Limit
        /\ log' = [log EXCEPT ![call.key] = Append(log[call.key], [now |-> call.now, at |-> clock])]
    BY <1>5 DEF Admit, HasRoom
  <2> HIDE DEF cleaned, kept
  <2>2. CASE k = call.key
    <3>1. Held(k)' = Append(kept, call.now) /\ Len(kept) < Limit
      BY <2>1, <2>2, <1>3 DEF Held
    <3>2. log'[k] = Append(log[k], [now |-> call.now, at |-> clock])
      BY <2>1, <2>2, <1>1 DEF TypeOK
    <3> QED BY <1>5, <1>2, <2>2, <3>1, <3>2
  <2>3. CASE k # call.key
    <3>1. Held(k)' = kept
      BY <2>1, <2>3, <1>3 DEF Held
    <3>2. log'[k] = log[k]
      BY <2>1, <2>3, <1>1 DEF TypeOK
    <3> QED BY <1>2, <2>3, <3>1, <3>2
  <2> QED BY <2>2, <2>3
<1>6. CASE Refuse(call) /\ ~Admit(call)
  <2>1. buckets' = cleaned /\ ~ (Len(cleaned[call.key]) < Limit) /\ log' = log
    BY <1>6 DEF Refuse, HasRoom
  <2> HIDE DEF cleaned, kept
  <2>2. Held(k)' = kept
    BY <2>1, <1>3 DEF Held
  <2>3. k = call.key => Len(kept) >= Limit
    BY <2>1, <1>3, <1>4 DEF LimitAssumption
  <2> QED BY <1>2, <1>6, <2>1, <2>2, <2>3
<1> QED BY <1>5, <1>6 DEF Decide

LEMMA DecideInv ==
  ASSUME LimitAssumption, LimiterInv, NEW call \in calls, Decide(call)
  PROVE  LimiterInv'
<1>1. TypeOK' /\ clock' = clock /\ calls' = calls \ {call}
  BY DecideType DEF LimiterInv
<1>2. clock \in Nat /\ call.now \in Nat /\ call.now <= clock /\ clock <= call.now + MaxDelay
  BY DEF LimiterInv, TypeOK, CallInv, Call
<1>3. ASSUME NEW k \in Keys PROVE KeyInv(k)'
  <2>1. PICK kept :
           /\ Cleaned(k, call.now, kept)
           /\ \/ /\ Len(kept) < Limit
                 /\ Held(k)' = Append(kept, call.now)
                 /\ log'[k] = Append(log[k], [now |-> call.now, at |-> clock])
              \/ Held(k)' = kept /\ log'[k] = log[k]
    BY DecideHeld DEF LimiterInv
  <2>2. BucketOf(log[k], Held(k), clock) /\ LogOf(log[k], clock)
    BY DEF LimiterInv, KeyInv
  <2>3. BucketOf(log[k], kept, clock)
    BY <2>1, <2>2, <1>2, PopKeeps DEF Cleaned
  <2>4. BucketOf(log'[k], Held(k)', clock) /\ LogOf(log'[k], clock)
    BY <2>1, <2>2, <2>3, <1>2, PushKeeps
  <2> QED BY <2>4, <1>1 DEF KeyInv
<1>4. CallInv'
  BY <1>1 DEF LimiterInv, CallInv
<1> QED BY <1>1, <1>3, <1>4 DEF LimiterInv

LEMMA NextInv == ASSUME LimitAssumption PROVE LimiterInv /\ [Next]_vars => LimiterInv'
<1> SUFFICES ASSUME LimiterInv, [Next]_vars PROVE LimiterInv'
  OBVIOUS
<1>1. ASSUME NEW c \in Callers, NEW k \in Keys, Enter(c, k) PROVE LimiterInv'
  <2>1. UNCHANGED <<clock, buckets, log>>
        /\ calls' = calls \cup {[caller |-> c, key |-> k, now |-> clock]}
    BY <1>1 DEF Enter
  <2>2. TypeOK'
    BY <2>1 DEF LimiterInv, TypeOK, Call
  <2>3. CallInv'
    BY <2>1 DEF LimiterInv, CallInv, TypeOK, LimitAssumption
  <2>4. \A j \in Keys : KeyInv(j)'
    BY <2>1 DEF LimiterInv, KeyInv, Held
  <2> QED BY <2>2, <2>3, <2>4 DEF LimiterInv
<1>2. ASSUME NEW call \in calls, Admit(call) \/ Refuse(call) PROVE LimiterInv'
  BY <1>2, DecideInv DEF Decide
<1>3. ASSUME Tick PROVE LimiterInv'
  <2>1. /\ clock' = clock + 1 /\ UNCHANGED limiterVars
        /\ \A call \in calls : clock < call.now + MaxDelay
    BY <1>3 DEF Tick
  <2>2. TypeOK'
    BY <2>1 DEF LimiterInv, TypeOK, limiterVars
  <2>3. CallInv'
    BY <2>1 DEF LimiterInv, CallInv, TypeOK, Call, limiterVars, LimitAssumption
  <2>4. ASSUME NEW k \in Keys PROVE KeyInv(k)'
    <3>1. clock \in Nat /\ BucketOf(log[k], Held(k), clock) /\ LogOf(log[k], clock)
      BY DEF LimiterInv, KeyInv, TypeOK
    <3>2. BucketOf(log[k], Held(k), clock + 1) /\ LogOf(log[k], clock + 1)
      BY <3>1, TimeKeeps
    <3>3. log'[k] = log[k] /\ Held(k)' = Held(k)
      BY <2>1 DEF limiterVars, Held
    <3> QED BY <2>1, <3>2, <3>3 DEF KeyInv
  <2> QED BY <2>2, <2>3, <2>4 DEF LimiterInv
<1>4. ASSUME UNCHANGED vars PROVE LimiterInv'
  <2>1. UNCHANGED <<clock, buckets, calls, log>>
    BY <1>4 DEF vars, limiterVars
  <2> QED BY <2>1 DEF LimiterInv, TypeOK, CallInv, KeyInv, Held
<1> QED BY <1>1, <1>2, <1>3, <1>4 DEF Next

-----------------------------------------------------------------------------
(* Theorems *)

\* The types of the limiter's state.
THEOREM LimiterTypeCorrect == ASSUME LimitAssumption PROVE Spec => []TypeOK
<1>1. Init => LimiterInv
  BY InitInv
<1>2. LimiterInv /\ [Next]_vars => LimiterInv'
  BY NextInv
<1>3. LimiterInv => TypeOK
  BY DEF LimiterInv
<1> QED BY <1>1, <1>2, <1>3, PTL DEF Spec

\* allow lets no more than Limit calls of a key through in a window, less the
\* time that a call may wait between its clock and the mutex.
THEOREM LimitHolds == ASSUME LimitAssumption PROVE Spec => []LimitPerWindow
<1>1. Init => LimiterInv
  BY InitInv
<1>2. LimiterInv /\ [Next]_vars => LimiterInv'
  BY NextInv
<1>3. LimiterInv => LimitPerWindow
  <2> SUFFICES ASSUME LimiterInv, NEW k \in Keys, NEW i \in DOMAIN log[k],
                      i + Limit <= Len(log[k])
               PROVE  log[k][i + Limit].at - log[k][i].at > Window - MaxDelay
    BY DEF LimitPerWindow
  <2>1. log[k] \in Seq(Entry) /\ LogOf(log[k], clock)
    BY DEF LimiterInv, KeyInv, BucketOf
  <2>2. i \in 1..Len(log[k])
    BY <2>1
  <2> QED BY <2>1, <2>2 DEF LogOf
<1> QED BY <1>1, <1>2, <1>3, PTL DEF Spec

-----------------------------------------------------------------------------
(* What a decision says of the calls before it *)

\* When the time at the front of a cleaned bucket is recent, so are the calls
\* whose times are in it: those behind the front were decided later.
LEMMA KeptRecent ==
  ASSUME LimitAssumption, NEW l, NEW kept, NEW time \in Nat, BucketOf(l, kept, time),
         LogOf(l, time), NEW now \in Nat, now <= time, time <= now + MaxDelay,
         Len(kept) > 0, now - kept[1] <= Window,
         NEW i \in 1..Len(l), i > Len(l) - Len(kept)
  PROVE  time - l[i].at <= Window + MaxDelay
<1> DEFINE f == Len(l) - Len(kept) + 1
<1>1. l \in Seq(Entry) /\ kept \in Seq(Nat) /\ Len(kept) <= Len(l)
  BY DEF BucketOf
<1>2. f \in 1..Len(l) /\ f <= i
  BY <1>1
<1>3. kept[1] = l[f].now
  <2>1. 1 \in 1..Len(kept)
    BY <1>1
  <2> QED BY <2>1 DEF BucketOf
<1>4. l[f].now \in Nat /\ l[f].at \in Nat /\ l[i].at \in Nat
  BY <1>1, <1>2, EntryIs
<1> HIDE DEF f
<1>5. l[f].now <= l[f].at /\ l[f].at <= l[i].at
  BY <1>2 DEF LogOf
<1> QED BY <1>3, <1>4, <1>5, SMTT(30) DEF LimitAssumption

\* The calls that a step takes off the list of calls are decided by it.
LEMMA LeavesDecided ==
  ASSUME [Next]_vars, NEW call \in calls, call \notin calls'
  PROVE  Decide(call)
BY DEF Next, Enter, Admit, Refuse, Decide, Tick, vars, limiterVars

\* The bucket of a key once a decision has cleaned it.
LEMMA CleanedBucket ==
  ASSUME LimitAssumption, LimiterInv, NEW call \in calls, NEW k \in Keys,
         NEW kept, Cleaned(k, call.now, kept)
  PROVE  /\ BucketOf(log[k], kept, clock)
         /\ Len(kept) > 0 =>
              \A i \in 1..Len(log[k]) : i > Len(log[k]) - Len(kept) =>
                clock - log[k][i].at <= Window + MaxDelay
<1>1. clock \in Nat /\ call.now \in Nat /\ call.now <= clock /\ clock <= call.now + MaxDelay
  BY DEF LimiterInv, TypeOK, CallInv, Call
<1>2. BucketOf(log[k], Held(k), clock) /\ LogOf(log[k], clock)
  BY DEF LimiterInv, KeyInv
<1>3. BucketOf(log[k], kept, clock)
  BY <1>1, <1>2, PopKeeps DEF Cleaned
<1>4. Len(kept) > 0 => call.now - kept[1] <= Window
  BY DEF Cleaned
<1> QED BY <1>1, <1>2, <1>3, <1>4, KeptRecent

LEMMA RefusalHasCause ==
  ASSUME LimitAssumption, LimiterInv, [Next]_vars,
         NEW call \in calls, call \notin calls', log' = log
  PROVE  /\ Len(log[call.key]) >= Limit
         /\ \A i \in DOMAIN log[call.key] :
              i > Len(log[call.key]) - Limit =>
                clock - log[call.key][i].at <= Window + MaxDelay
<1> DEFINE k == call.key
<1>1. k \in Keys /\ log[k] \in Seq(Entry)
  BY DEF LimiterInv, TypeOK, Call, Entry
<1>2. PICK kept :
        /\ Cleaned(k, call.now, kept)
        /\ \/ log'[k] = Append(log[k], [now |-> call.now, at |-> clock])
           \/ Len(kept) >= Limit
  BY <1>1, LeavesDecided, DecideHeld DEF LimiterInv
<1> HIDE DEF k
<1>3. log'[k] # Append(log[k], [now |-> call.now, at |-> clock])
  <2>1. Len(Append(log[k], [now |-> call.now, at |-> clock])) # Len(log[k])
    BY <1>1
  <2> QED BY <2>1
<1>4. BucketOf(log[k], kept, clock)
  BY <1>1, <1>2, CleanedBucket
<1>5. /\ Len(kept) = Limit /\ Len(kept) <= Len(log[k]) /\ Len(log[k]) \in Nat
      /\ Limit \in Nat /\ DOMAIN log[k] = 1..Len(log[k])
  BY <1>1, <1>2, <1>3, <1>4 DEF BucketOf, LimitAssumption
<1>6. CASE Limit = 0
  BY <1>5, <1>6 DEF k
<1>7. CASE Limit > 0
  <2>1. \A i \in 1..Len(log[k]) : i > Len(log[k]) - Len(kept) =>
          clock - log[k][i].at <= Window + MaxDelay
    BY <1>1, <1>2, <1>5, <1>7, CleanedBucket
  <2> QED BY <2>1, <1>5 DEF k
<1> QED BY <1>5, <1>6, <1>7

LEMMA OthersAreRecent ==
  ASSUME LimitAssumption, LimiterInv, [Next]_vars,
         NEW call \in calls, call \notin calls', NEW k \in DOMAIN buckets' \ {call.key}
  PROVE  \E i \in DOMAIN log[k] : clock - log[k][i].at <= Window + MaxDelay
<1> DEFINE kept == CleanBucket(k, call.now)
<1>1. k \in DOMAIN Retained(call.key, call.now)
  BY LeavesDecided DEF Decide, Admit, Refuse
<1>2. k \in DOMAIN buckets /\ kept # << >>
  BY <1>1 DEF Retained
<1>3. k \in Keys /\ call.now \in Nat /\ log[k] \in Seq(Entry)
  BY <1>2 DEF LimiterInv, TypeOK, Call, Entry
<1>4. Cleaned(k, call.now, kept)
  BY <1>3, CleanBucketIs DEF LimiterInv
<1> HIDE DEF kept
<1>5. kept \in Seq(Nat) /\ Len(kept) > 0
  BY <1>2, <1>4 DEF Cleaned
<1>6. Len(kept) <= Len(log[k])
  BY <1>3, <1>4, CleanedBucket DEF BucketOf
<1>7. clock - log[k][Len(log[k])].at <= Window + MaxDelay
  <2>1. Len(log[k]) \in 1..Len(log[k]) /\ Len(log[k]) > Len(log[k]) - Len(kept)
    BY <1>3, <1>5, <1>6
  <2> QED BY <2>1, <1>3, <1>4, <1>5, CleanedBucket
<1>8. Len(log[k]) \in DOMAIN log[k]
  BY <1>3, <1>5, <1>6
<1> QED BY <1>7, <1>8

\* A key is refused only for Limit calls of its own of late.
THEOREM RefusalsJustified == ASSUME LimitAssumption PROVE Spec => RefusedForCause
<1>1. Init => LimiterInv
  BY InitInv
<1>2. LimiterInv /\ [Next]_vars => LimiterInv'
  BY NextInv
<1>3. LimiterInv /\ [Next]_vars =>
        [\A call \in calls \ calls' : log' = log =>
           /\ Len(log[call.key]) >= Limit
           /\ \A i \in DOMAIN log[call.key] :
                i > Len(log[call.key]) - Limit =>
                  clock - log[call.key][i].at <= Window + MaxDelay]_vars
  BY RefusalHasCause
<1> QED BY <1>1, <1>2, <1>3, PTL DEF Spec, RefusedForCause

\* The map forgets the keys that have been quiet.
THEOREM KeysForgotten == ASSUME LimitAssumption PROVE Spec => IdleKeysForgotten
<1>1. Init => LimiterInv
  BY InitInv
<1>2. LimiterInv /\ [Next]_vars => LimiterInv'
  BY NextInv
<1>3. LimiterInv /\ [Next]_vars =>
        [\A call \in calls \ calls' : \A k \in DOMAIN buckets' \ {call.key} :
           \E i \in DOMAIN log[k] : clock - log[k][i].at <= Window + MaxDelay]_vars
  BY OthersAreRecent
<1> QED BY <1>1, <1>2, <1>3, PTL DEF Spec, IdleKeysForgotten
=============================================================================
