------------------------- MODULE CommandGateProofs -------------------------
(***************************************************************************)
(* The gate of the command connections implements two rate limiters, one   *)
(* behind the other, so what is proved of a limiter holds of both: for any *)
(* connections, peers, limits and windows.  The second limiter is entered  *)
(* with calls the first has let through, so that its calls are calls of    *)
(* connections and peers is the type invariant of the first.  A connection *)
(* has at most one call at a limiter, so that it leaves the ones that wait *)
(* with its call, and every key that is tried is tried by a connection of  *)
(* which a call was let through before.                                    *)
(***************************************************************************)
EXTENDS CommandGate, FiniteSetTheorems, TLAPS

First == INSTANCE RateLimiterProofs WITH
  Callers <- Connections, Keys <- Peers, Limit <- CommandLimit,
  Window <- CommandWindow, buckets <- command_buckets, calls <- command_calls,
  log <- command_log

Second == INSTANCE RateLimiterProofs WITH
  Callers <- Connections, Keys <- Peers, Limit <- AuthLimit,
  Window <- AuthWindow, buckets <- auth_buckets, calls <- auth_calls,
  log <- auth_log

-----------------------------------------------------------------------------
(* The instances above are those of CommandGate, with their theorems. *)

LEMMA Limits == First!LimitAssumption /\ Second!LimitAssumption
BY GateAssumption DEF First!LimitAssumption, Second!LimitAssumption,
   Command!LimitAssumption, Auth!LimitAssumption


LEMMA FirstSame ==
  /\ Command!LimiterInit <=> First!LimiterInit
  /\ \A c, k : Command!Enter(c, k) <=> First!Enter(c, k)
  /\ \A call : Command!Admit(call) <=> First!Admit(call)
  /\ \A call : Command!Refuse(call) <=> First!Refuse(call)
  /\ Command!Tick <=> First!Tick
  /\ Command!TypeOK <=> First!TypeOK
  /\ Command!LimitPerWindow <=> First!LimitPerWindow
<1>1. \A key, now : Command!Retained(key, now) = First!Retained(key, now)
  BY DEF Command!Recent, Command!StaleFront, Command!CleanEntry, Command!CleanBucket, Command!Retained,
     First!Recent, First!StaleFront, First!CleanEntry, First!CleanBucket, First!Retained
<1>2. \A call : Command!Admit(call) <=> First!Admit(call)
  BY <1>1 DEF Command!Admit, First!Admit, Command!HasRoom, First!HasRoom
<1>3. \A call : Command!Refuse(call) <=> First!Refuse(call)
  BY <1>1 DEF Command!Refuse, First!Refuse, Command!HasRoom, First!HasRoom
<1>4. Command!LimiterInit <=> First!LimiterInit
  BY DEF Command!LimiterInit, First!LimiterInit
<1>5. \A c, k : Command!Enter(c, k) <=> First!Enter(c, k)
  BY DEF Command!Enter, First!Enter
<1>6. Command!Tick <=> First!Tick
  BY DEF Command!Tick, First!Tick, Command!limiterVars, First!limiterVars
<1>7. Command!TypeOK <=> First!TypeOK
  BY DEF Command!TypeOK, First!TypeOK, Command!Call, First!Call
<1>8. Command!LimitPerWindow <=> First!LimitPerWindow
  BY DEF Command!LimitPerWindow, First!LimitPerWindow
<1> QED BY <1>2, <1>3, <1>4, <1>5, <1>6, <1>7, <1>8

LEMMA SecondSame ==
  /\ Auth!LimiterInit <=> Second!LimiterInit
  /\ \A c, k : Auth!Enter(c, k) <=> Second!Enter(c, k)
  /\ \A call : Auth!Admit(call) <=> Second!Admit(call)
  /\ \A call : Auth!Refuse(call) <=> Second!Refuse(call)
  /\ Auth!Tick <=> Second!Tick
  /\ Auth!TypeOK <=> Second!TypeOK
  /\ Auth!LimitPerWindow <=> Second!LimitPerWindow
<1>1. \A key, now : Auth!Retained(key, now) = Second!Retained(key, now)
  BY DEF Auth!Recent, Auth!StaleFront, Auth!CleanEntry, Auth!CleanBucket, Auth!Retained,
     Second!Recent, Second!StaleFront, Second!CleanEntry, Second!CleanBucket, Second!Retained
<1>2. \A call : Auth!Admit(call) <=> Second!Admit(call)
  BY <1>1 DEF Auth!Admit, Second!Admit, Auth!HasRoom, Second!HasRoom
<1>3. \A call : Auth!Refuse(call) <=> Second!Refuse(call)
  BY <1>1 DEF Auth!Refuse, Second!Refuse, Auth!HasRoom, Second!HasRoom
<1>4. Auth!LimiterInit <=> Second!LimiterInit
  BY DEF Auth!LimiterInit, Second!LimiterInit
<1>5. \A c, k : Auth!Enter(c, k) <=> Second!Enter(c, k)
  BY DEF Auth!Enter, Second!Enter
<1>6. Auth!Tick <=> Second!Tick
  BY DEF Auth!Tick, Second!Tick, Auth!limiterVars, Second!limiterVars
<1>7. Auth!TypeOK <=> Second!TypeOK
  BY DEF Auth!TypeOK, Second!TypeOK, Auth!Call, Second!Call
<1>8. Auth!LimitPerWindow <=> Second!LimitPerWindow
  BY DEF Auth!LimitPerWindow, Second!LimitPerWindow
<1> QED BY <1>2, <1>3, <1>4, <1>5, <1>6, <1>7, <1>8

-----------------------------------------------------------------------------
(* The gate implements its limiters *)

LEMMA FirstStep == [Next]_vars => [First!Next]_First!vars
<1> SUFFICES ASSUME [Next]_vars PROVE First!Next \/ UNCHANGED First!vars
  OBVIOUS
<1>1. ASSUME NEW c \in Connections, Accept(c) PROVE First!Next
  BY <1>1, FirstSame DEF Accept, First!Next
<1>2. ASSUME NEW call \in command_calls, PassCommandLimit(call) PROVE First!Next
  BY <1>2, FirstSame DEF PassCommandLimit, First!Next
<1>3. ASSUME NEW call \in auth_calls, PassAuthLimit(call) PROVE UNCHANGED First!vars
  BY <1>3 DEF PassAuthLimit, Auth!Admit, commandVars, First!vars, First!limiterVars
<1>4. CASE TurnAway
  <2>1. CASE \E call \in command_calls : Command!Refuse(call)
    BY <2>1, FirstSame DEF First!Next
  <2>2. CASE \E call \in auth_calls : Auth!Refuse(call) /\ UNCHANGED commandVars
    BY <2>2 DEF Auth!Refuse, commandVars, First!vars, First!limiterVars
  <2> QED BY <1>4, <2>1, <2>2 DEF TurnAway
<1>5. ASSUME NEW c \in Connections, ReadKey(c) \/ RejectKey(c) \/ Serve(c) \/ Leave(c)
      PROVE  UNCHANGED First!vars
  BY <1>5 DEF ReadKey, RejectKey, Serve, Leave, commandVars, First!vars, First!limiterVars
<1>6. CASE Tick
  BY <1>6, FirstSame DEF Tick, First!Next
<1>7. CASE UNCHANGED vars
  BY <1>7 DEF vars, commandVars, First!vars, First!limiterVars
<1> QED BY <1>1, <1>2, <1>3, <1>4, <1>5, <1>6, <1>7 DEF Next, Gate, Connection

LEMMA SecondStep == Command!TypeOK /\ [Next]_vars => [Second!Next]_Second!vars
<1> SUFFICES ASSUME Command!TypeOK, [Next]_vars PROVE Second!Next \/ UNCHANGED Second!vars
  OBVIOUS
<1>1. ASSUME NEW c \in Connections, Accept(c) PROVE UNCHANGED Second!vars
  BY <1>1 DEF Accept, Command!Enter, authVars, Second!vars, Second!limiterVars
<1>2. ASSUME NEW call \in command_calls, PassCommandLimit(call) PROVE Second!Next
  <2>1. call.caller \in Connections /\ call.key \in Peers
    BY DEF Command!TypeOK, Command!Call
  <2>2. Second!Enter(call.caller, call.key)
    BY <1>2, SecondSame DEF PassCommandLimit
  <2> QED BY <2>1, <2>2 DEF Second!Next
<1>3. ASSUME NEW call \in auth_calls, PassAuthLimit(call) PROVE Second!Next
  BY <1>3, SecondSame DEF PassAuthLimit, Second!Next
<1>4. CASE TurnAway
  <2>1. CASE \E call \in auth_calls : Auth!Refuse(call)
    BY <2>1, SecondSame DEF Second!Next
  <2>2. CASE \E call \in command_calls : Command!Refuse(call) /\ UNCHANGED authVars
    BY <2>2 DEF Command!Refuse, authVars, Second!vars, Second!limiterVars
  <2> QED BY <1>4, <2>1, <2>2 DEF TurnAway
<1>5. ASSUME NEW c \in Connections, ReadKey(c) \/ RejectKey(c) \/ Serve(c) \/ Leave(c)
      PROVE  UNCHANGED Second!vars
  BY <1>5 DEF ReadKey, RejectKey, Serve, Leave, authVars, Second!vars, Second!limiterVars
<1>6. CASE Tick
  BY <1>6, SecondSame DEF Tick, Second!Next
<1>7. CASE UNCHANGED vars
  BY <1>7 DEF vars, authVars, Second!vars, Second!limiterVars
<1> QED BY <1>1, <1>2, <1>3, <1>4, <1>5, <1>6, <1>7 DEF Next, Gate, Connection

LEMMA CommandLimiterRuns == Spec => First!Spec
<1>1. Init => First!Init
  BY FirstSame DEF Init, First!Init
<1> QED BY <1>1, FirstStep, PTL DEF Spec, First!Spec

LEMMA AuthLimiterRuns == Spec => Second!Spec
<1>1. Init => Second!Init
  BY SecondSame DEF Init, Second!Init
<1>2. First!Spec => []First!TypeOK
  BY First!LimiterTypeCorrect, Limits
<1>3. First!TypeOK => Command!TypeOK
  BY FirstSame
<1> QED BY <1>1, <1>2, <1>3, SecondStep, CommandLimiterRuns, PTL DEF Spec, Second!Spec

-----------------------------------------------------------------------------
(* Connections and their calls *)

\* The connections with a call at a limiter, and that none has two.
Waiting(calls) == {call.caller : call \in calls}
OneCallEach(calls) == \A a, b \in calls : a.caller = b.caller => a = b
At(place) == {c \in Connections : pc[c] = place}

Places == {"closed", "command", "auth", "key", "bad_key", "serving"}

CallsArePlaces ==
  /\ pc \in [Connections -> Places]
  /\ OneCallEach(command_calls) /\ Waiting(command_calls) = At("command")
  /\ OneCallEach(auth_calls) /\ Waiting(auth_calls) = At("auth")

LEMMA CallMade ==
  ASSUME NEW calls, NEW new, \A call \in calls : call.caller # new.caller, OneCallEach(calls)
  PROVE  /\ OneCallEach(calls \cup {new})
         /\ Waiting(calls \cup {new}) = Waiting(calls) \cup {new.caller}
BY DEF OneCallEach, Waiting

LEMMA CallDecided ==
  ASSUME NEW calls, NEW call \in calls, OneCallEach(calls)
  PROVE  /\ OneCallEach(calls \ {call})
         /\ Waiting(calls \ {call}) = Waiting(calls) \ {call.caller}
BY DEF OneCallEach, Waiting

\* A connection that moves is at its new place and at no other.
LEMMA Moved ==
  ASSUME pc \in [Connections -> Places], NEW c \in Connections,
         NEW from \in Places, NEW to \in Places, from # to, Move(c, from, to)
  PROVE  /\ pc' \in [Connections -> Places]
         /\ c \in At(from)
         /\ At(from)' = At(from) \ {c}
         /\ At(to)' = At(to) \cup {c}
         /\ \A place : place # from /\ place # to => At(place)' = At(place)
BY DEF Move, At

LEMMA CallsStep == Command!TypeOK /\ Auth!TypeOK /\ CallsArePlaces /\ [Next]_vars => CallsArePlaces'
<1> SUFFICES ASSUME Command!TypeOK, Auth!TypeOK, CallsArePlaces, [Next]_vars
             PROVE  CallsArePlaces'
  OBVIOUS
<1> USE DEF CallsArePlaces, Places
<1>1. \A call \in command_calls \cup auth_calls : call.caller \in Connections
  BY DEF Command!TypeOK, Command!Call, Auth!TypeOK, Auth!Call
<1>2. ASSUME NEW c \in Connections, Accept(c) PROVE CallsArePlaces'
  <2>1. PICK p \in Peers : Command!Enter(c, p)
    BY <1>2 DEF Accept
  <2> DEFINE new == [caller |-> c, key |-> p, now |-> clock]
  <2>2. /\ \A call \in command_calls : call.caller # new.caller
        /\ command_calls' = command_calls \cup {new} /\ new.caller = c
    BY <2>1 DEF Command!Enter
  <2>3. auth_calls' = auth_calls /\ Move(c, "closed", "command")
    BY <1>2 DEF Accept, authVars
  <2> HIDE DEF new
  <2>4. OneCallEach(command_calls') /\ Waiting(command_calls') = Waiting(command_calls) \cup {c}
    BY <2>2, CallMade
  <2>5. /\ pc' \in [Connections -> Places] /\ At("command")' = At("command") \cup {c}
        /\ At("auth")' = At("auth")
    BY <2>3, Moved
  <2> QED BY <2>3, <2>4, <2>5
<1>3. ASSUME NEW call \in command_calls, PassCommandLimit(call) PROVE CallsArePlaces'
  <2> DEFINE new == [caller |-> call.caller, key |-> call.key, now |-> clock]
  <2>1. /\ command_calls' = command_calls \ {call}
        /\ \A other \in auth_calls : other.caller # new.caller
        /\ auth_calls' = auth_calls \cup {new} /\ new.caller = call.caller
        /\ Move(call.caller, "command", "auth")
    BY <1>3 DEF PassCommandLimit, Command!Admit, Auth!Enter
  <2> HIDE DEF new
  <2>2. /\ OneCallEach(command_calls')
        /\ Waiting(command_calls') = Waiting(command_calls) \ {call.caller}
    BY <2>1, CallDecided
  <2>3. OneCallEach(auth_calls') /\ Waiting(auth_calls') = Waiting(auth_calls) \cup {call.caller}
    BY <2>1, CallMade
  <2>4. /\ pc' \in [Connections -> Places]
        /\ At("command")' = At("command") \ {call.caller}
        /\ At("auth")' = At("auth") \cup {call.caller}
    BY <1>1, <2>1, Moved
  <2> QED BY <2>2, <2>3, <2>4
<1>4. ASSUME NEW call \in command_calls, Command!Refuse(call), UNCHANGED authVars,
             Move(call.caller, "command", "closed")
      PROVE  CallsArePlaces'
  <2>1. command_calls' = command_calls \ {call} /\ auth_calls' = auth_calls
    BY <1>4 DEF Command!Refuse, authVars
  <2>2. /\ OneCallEach(command_calls')
        /\ Waiting(command_calls') = Waiting(command_calls) \ {call.caller}
    BY <2>1, CallDecided
  <2>3. /\ pc' \in [Connections -> Places]
        /\ At("command")' = At("command") \ {call.caller} /\ At("auth")' = At("auth")
    BY <1>1, <1>4, Moved
  <2> QED BY <2>1, <2>2, <2>3
<1>5. ASSUME NEW call \in auth_calls, NEW to \in {"key", "closed"},
             auth_calls' = auth_calls \ {call}, UNCHANGED commandVars,
             Move(call.caller, "auth", to)
      PROVE  CallsArePlaces'
  <2>1. command_calls' = command_calls
    BY <1>5 DEF commandVars
  <2>2. OneCallEach(auth_calls') /\ Waiting(auth_calls') = Waiting(auth_calls) \ {call.caller}
    BY <1>5, CallDecided
  <2>3. /\ pc' \in [Connections -> Places]
        /\ At("auth")' = At("auth") \ {call.caller} /\ At("command")' = At("command")
    BY <1>1, <1>5, Moved
  <2> QED BY <2>1, <2>2, <2>3
<1>6. ASSUME NEW c \in Connections, NEW from \in {"key", "bad_key", "serving"},
             NEW to \in {"closed", "bad_key", "serving"}, from # to, Move(c, from, to),
             UNCHANGED <<commandVars, authVars>>
      PROVE  CallsArePlaces'
  <2>1. command_calls' = command_calls /\ auth_calls' = auth_calls
    BY <1>6 DEF commandVars, authVars
  <2>2. /\ pc' \in [Connections -> Places]
        /\ At("command")' = At("command") /\ At("auth")' = At("auth")
    BY <1>6, Moved
  <2> QED BY <2>1, <2>2
<1>7. ASSUME command_calls' = command_calls, auth_calls' = auth_calls, pc' = pc
      PROVE  CallsArePlaces'
  BY <1>7 DEF At
<1>8. CASE Gate
  <2>1. ASSUME NEW call \in auth_calls, PassAuthLimit(call) PROVE CallsArePlaces'
    BY <1>5, <2>1 DEF PassAuthLimit, Auth!Admit
  <2>2. CASE TurnAway
    BY <1>4, <1>5, <2>2 DEF TurnAway, Auth!Refuse
  <2> QED BY <1>3, <1>8, <2>1, <2>2 DEF Gate
<1>9. ASSUME NEW c \in Connections, ReadKey(c) \/ RejectKey(c) \/ Serve(c) \/ Leave(c) PROVE CallsArePlaces'
  <2>1. CASE ReadKey(c)
    BY <1>6, <2>1 DEF ReadKey
  <2>2. CASE RejectKey(c)
    BY <1>6, <2>2 DEF RejectKey
  <2>3. CASE Leave(c)
    BY <1>6, <2>3 DEF Leave
  <2>4. CASE Serve(c)
    BY <1>7, <2>4 DEF Serve, commandVars, authVars
  <2> QED BY <1>9, <2>1, <2>2, <2>3, <2>4
<1>10. CASE Tick
  BY <1>7, <1>10 DEF Tick, Command!Tick, Command!limiterVars, Auth!Tick, Auth!limiterVars
<1>11. CASE UNCHANGED vars
  BY <1>7, <1>11 DEF vars, commandVars, authVars
<1> QED BY <1>2, <1>8, <1>9, <1>10, <1>11 DEF Next, Connection

-----------------------------------------------------------------------------
(* Keys and the calls let through *)

\* The failures never go below zero, and both sets that are counted are finite,
\* also when there is no end of connections and peers.
KeysCounted ==
  /\ command_auth_failure \in Nat
  /\ IsFiniteSet(PastLimiters) /\ IsFiniteSet(LetThrough)
  /\ EveryKeyIsLimited

\* The call that is let through is one more.
LEMMA OneMoreLetThrough ==
  ASSUME Auth!TypeOK, NEW call \in auth_calls, Auth!Admit(call), IsFiniteSet(LetThrough)
  PROVE  /\ IsFiniteSet(LetThrough') /\ Cardinality(LetThrough') = Cardinality(LetThrough) + 1
         /\ Cardinality(LetThrough) \in Nat
<1> DEFINE k == call.key
           n == Len(auth_log[k])
           entry == [now |-> call.now, at |-> clock]
<1>1. /\ k \in Peers /\ entry \in [now : Nat, at : Nat]
      /\ auth_log \in [Peers -> Seq([now : Nat, at : Nat])]
  BY DEF Auth!TypeOK, Auth!Call
<1>2. auth_log' = [auth_log EXCEPT ![k] = Append(@, entry)]
  BY DEF Auth!Admit
<1> HIDE DEF entry
<1>3. n \in Nat /\ DOMAIN auth_log[k] = 1..n
  BY <1>1
<1>4. DOMAIN auth_log'[k] = 1..(n + 1)
  BY <1>1, <1>2, <1>3
<1>5. DOMAIN auth_log'[k] = DOMAIN auth_log[k] \cup {n + 1} /\ n + 1 \notin DOMAIN auth_log[k]
  BY <1>3, <1>4
<1>6. \A p \in Peers : p # k => auth_log'[p] = auth_log[p]
  BY <1>1, <1>2
<1> HIDE DEF k, n
<1>7. LetThrough' = LetThrough \cup {<<k, n + 1>>} /\ <<k, n + 1>> \notin LetThrough
  BY <1>1, <1>5, <1>6 DEF LetThrough
<1> QED BY <1>7, FS_AddElement, FS_CardinalityType

LEMMA KeysStep ==
  Auth!TypeOK /\ CallsArePlaces /\ KeysCounted /\ [Next]_vars => KeysCounted'
<1> SUFFICES ASSUME Auth!TypeOK, CallsArePlaces, KeysCounted, [Next]_vars
             PROVE  KeysCounted'
  OBVIOUS
<1> DEFINE past == Cardinality(PastLimiters)
           through == Cardinality(LetThrough)
<1>1. past \in Nat /\ through \in Nat /\ command_auth_failure + past <= through
  BY FS_CardinalityType DEF KeysCounted, EveryKeyIsLimited
<1>2. ASSUME PastLimiters' = PastLimiters, LetThrough' = LetThrough,
             command_auth_failure' = command_auth_failure
      PROVE  KeysCounted'
  BY <1>2 DEF KeysCounted, EveryKeyIsLimited
<1>3. ASSUME NEW c \in PastLimiters, PastLimiters' = PastLimiters \ {c},
             LetThrough' = LetThrough,
             command_auth_failure' \in {command_auth_failure, command_auth_failure + 1}
      PROVE  KeysCounted'
  <2>1. IsFiniteSet(PastLimiters') /\ Cardinality(PastLimiters') = past - 1
    BY <1>3, FS_RemoveElement DEF KeysCounted
  <2> QED BY <1>1, <1>3, <2>1 DEF KeysCounted, EveryKeyIsLimited
<1>4. auth_log' = auth_log => LetThrough' = LetThrough
  BY DEF LetThrough
<1>5. pc \in [Connections -> Places]
  BY DEF CallsArePlaces
<1>6. ASSUME NEW c \in Connections, NEW from, NEW to, Move(c, from, to),
             from \notin {"key", "bad_key", "serving"}, to \notin {"key", "bad_key", "serving"}
      PROVE  PastLimiters' = PastLimiters
  BY <1>5, <1>6 DEF Move, PastLimiters
<1>7. ASSUME NEW c \in Connections, NEW from \in {"key", "bad_key", "serving"}, Move(c, from, "closed")
      PROVE  c \in PastLimiters /\ PastLimiters' = PastLimiters \ {c}
  BY <1>5, <1>7 DEF Move, PastLimiters
<1>8. \A call \in command_calls : call.caller \in Connections
  BY DEF CallsArePlaces, Waiting, At
<1>9. \A call \in auth_calls : call.caller \in Connections
  BY DEF CallsArePlaces, Waiting, At
<1>10. ASSUME NEW c \in Connections, Accept(c) PROVE KeysCounted'
  BY <1>2, <1>4, <1>6, <1>10 DEF Accept, authVars
<1>11. ASSUME NEW call \in command_calls, PassCommandLimit(call) PROVE KeysCounted'
  BY <1>2, <1>4, <1>6, <1>8, <1>11 DEF PassCommandLimit, Auth!Enter
<1>12. ASSUME NEW call \in auth_calls, PassAuthLimit(call) PROVE KeysCounted'
  <2>1. /\ Auth!Admit(call) /\ Move(call.caller, "auth", "key")
        /\ command_auth_failure' = command_auth_failure
    BY <1>12 DEF PassAuthLimit
  <2>2. IsFiniteSet(LetThrough') /\ Cardinality(LetThrough') = through + 1
    BY <2>1, OneMoreLetThrough DEF KeysCounted
  <2>3. PastLimiters' = PastLimiters \cup {call.caller} /\ call.caller \notin PastLimiters
    BY <1>5, <1>9, <2>1 DEF Move, PastLimiters
  <2>4. IsFiniteSet(PastLimiters') /\ Cardinality(PastLimiters') = past + 1
    BY <2>3, FS_AddElement DEF KeysCounted
  <2> QED BY <1>1, <2>1, <2>2, <2>4 DEF KeysCounted, EveryKeyIsLimited
<1>13. CASE TurnAway
  <2>1. ASSUME NEW call \in command_calls, Move(call.caller, "command", "closed"), UNCHANGED authVars
        PROVE  KeysCounted'
    BY <1>2, <1>4, <1>6, <1>8, <1>13, <2>1 DEF TurnAway, authVars
  <2>2. ASSUME NEW call \in auth_calls, Move(call.caller, "auth", "closed"), Auth!Refuse(call)
        PROVE  KeysCounted'
    BY <1>2, <1>4, <1>6, <1>9, <1>13, <2>2 DEF TurnAway, Auth!Refuse
  <2> QED BY <1>13, <2>1, <2>2 DEF TurnAway
<1>14. ASSUME NEW c \in Connections, ReadKey(c) PROVE KeysCounted'
  <2>1. LetThrough' = LetThrough /\ command_auth_failure' = command_auth_failure
    BY <1>4, <1>14 DEF ReadKey, authVars
  <2>2. CASE Move(c, "key", "closed")
    BY <1>3, <1>7, <2>1, <2>2
  <2>3. CASE Move(c, "key", "bad_key") \/ Move(c, "key", "serving")
    <3>1. PastLimiters' = PastLimiters
      BY <1>5, <2>3 DEF Move, PastLimiters
    <3> QED BY <1>2, <2>1, <3>1
  <2> QED BY <1>14, <2>2, <2>3 DEF ReadKey
<1>15. ASSUME NEW c \in Connections, RejectKey(c) PROVE KeysCounted'
  BY <1>3, <1>4, <1>7, <1>15 DEF RejectKey, authVars
<1>16. ASSUME NEW c \in Connections, Leave(c) PROVE KeysCounted'
  BY <1>3, <1>4, <1>7, <1>16 DEF Leave, authVars
<1>17. ASSUME auth_log' = auth_log, pc' = pc, command_auth_failure' = command_auth_failure
       PROVE  KeysCounted'
  <2>1. PastLimiters' = PastLimiters
    BY <1>17 DEF PastLimiters
  <2> QED BY <1>2, <1>4, <1>17, <2>1
<1>20. ASSUME NEW c \in Connections, Serve(c) PROVE KeysCounted'
  BY <1>17, <1>20 DEF Serve, authVars
<1>18. CASE Tick
  BY <1>17, <1>18 DEF Tick, Auth!Tick, Auth!limiterVars
<1>19. CASE UNCHANGED vars
  BY <1>17, <1>19 DEF vars, authVars
<1> QED BY <1>10, <1>11, <1>12, <1>13, <1>14, <1>15, <1>16, <1>18, <1>19, <1>20
        DEF Next, Connection, Gate

-----------------------------------------------------------------------------
(* The commands served *)

RequestsTimed == requests \in [Connections -> Seq(Nat)]

LEMMA RequestsStep == Command!TypeOK /\ RequestsTimed /\ [Next]_vars => RequestsTimed'
<1> SUFFICES ASSUME Command!TypeOK, RequestsTimed, [Next]_vars PROVE RequestsTimed'
  OBVIOUS
<1>1. ASSUME NEW c \in Connections, Serve(c) PROVE RequestsTimed'
  <2>1. clock \in Nat
    BY DEF Command!TypeOK
  <2>2. requests[c] \in Seq(Nat)
    BY DEF RequestsTimed
  <2>3. Append(requests[c], clock) \in Seq(Nat)
    BY <2>1, <2>2
  <2> QED BY <1>1, <2>3 DEF Serve, RequestsTimed
<1>2. ASSUME NEW c \in Connections, Leave(c) PROVE RequestsTimed'
  <2>1. << >> \in Seq(Nat)
    OBVIOUS
  <2> QED BY <1>2, <2>1 DEF Leave, RequestsTimed
<1>3. ASSUME UNCHANGED requests PROVE RequestsTimed'
  BY <1>3 DEF RequestsTimed
<1>4. ASSUME NEW c \in Connections, Accept(c) \/ ReadKey(c) \/ RejectKey(c) PROVE RequestsTimed'
  BY <1>3, <1>4 DEF Accept, ReadKey, RejectKey
<1>5. CASE Gate \/ Tick \/ UNCHANGED vars
  BY <1>3, <1>5 DEF Gate, PassCommandLimit, PassAuthLimit, TurnAway, Tick, vars
<1> QED BY <1>1, <1>2, <1>4, <1>5 DEF Next, Connection

\* The inductive invariant of the gate, given the types of its limiters.
LEMMA GateInvariant ==
  Spec => [](Command!TypeOK /\ Auth!TypeOK /\ CallsArePlaces /\ KeysCounted /\ RequestsTimed)
<1>1. Spec => []Command!TypeOK
  <2>1. First!Spec => []First!TypeOK
    BY First!LimiterTypeCorrect, Limits
  <2>2. First!TypeOK => Command!TypeOK
    BY FirstSame
  <2> QED BY <2>1, <2>2, CommandLimiterRuns, PTL
<1>2. Spec => []Auth!TypeOK
  <2>1. Second!Spec => []Second!TypeOK
    BY Second!LimiterTypeCorrect, Limits
  <2>2. Second!TypeOK => Auth!TypeOK
    BY SecondSame
  <2> QED BY <2>1, <2>2, AuthLimiterRuns, PTL
<1>3. Init => CallsArePlaces
  BY DEF Init, Command!LimiterInit, Auth!LimiterInit, CallsArePlaces, Places, OneCallEach,
     Waiting, At
<1>4. Init => KeysCounted
  <2> SUFFICES ASSUME Init PROVE KeysCounted
    OBVIOUS
  <2>1. PastLimiters = {} /\ LetThrough = {} /\ command_auth_failure = 0
    BY DEF Init, Auth!LimiterInit, PastLimiters, LetThrough
  <2> QED BY <2>1, FS_EmptySet DEF KeysCounted, EveryKeyIsLimited
<1>5. Init => RequestsTimed
  BY DEF Init, RequestsTimed
<1> QED BY <1>1, <1>2, <1>3, <1>4, <1>5, CallsStep, KeysStep, RequestsStep, PTL DEF Spec

-----------------------------------------------------------------------------
(* Theorems *)

\* The types of the state; a connection waits for a limiter exactly when it has
\* a call there, and for one of the two at a time.
THEOREM GateTypeCorrect == Spec => []TypeOK
<1>1. Command!TypeOK /\ Auth!TypeOK /\ CallsArePlaces /\ KeysCounted /\ RequestsTimed => TypeOK
  BY DEF RequestsTimed, CallsArePlaces, KeysCounted, TypeOK, Places, Waiting, At
<1> QED BY <1>1, GateInvariant, PTL

\* However many connections and peers there are, a key is tried only by a
\* connection of which the second limiter let a call through, and once for it.
THEOREM KeysAreLimited == Spec => []EveryKeyIsLimited
<1>1. KeysCounted => EveryKeyIsLimited
  BY DEF KeysCounted
<1> QED BY <1>1, GateInvariant, PTL

\* Whatever the order in which connections get a limiter's mutex, no more than
\* CommandLimit of a peer are let through the first limiter in its window, and no
\* more than AuthLimit the second in its own, less the time a call may wait.
THEOREM GateLimits == Spec => []ConnectionsLimited
<1>1. First!Spec => []First!LimitPerWindow
  BY First!LimitHolds, Limits
<1>2. Second!Spec => []Second!LimitPerWindow
  BY Second!LimitHolds, Limits
<1>3. First!LimitPerWindow /\ Second!LimitPerWindow => ConnectionsLimited
  BY FirstSame, SecondSame DEF ConnectionsLimited
<1> QED BY <1>1, <1>2, <1>3, CommandLimiterRuns, AuthLimiterRuns, PTL

\* A peer is turned away only for connections of its own of late.
THEOREM TurnedAwayJustly == Spec => TurnedAwayForCause
<1>1. First!Spec => Command!RefusedForCause
  BY First!RefusalsJustified, Limits, PTL DEF First!RefusedForCause, Command!RefusedForCause,
     First!vars, First!limiterVars, Command!vars, Command!limiterVars
<1>2. Second!Spec => Auth!RefusedForCause
  BY Second!RefusalsJustified, Limits, PTL DEF Second!RefusedForCause, Auth!RefusedForCause,
     Second!vars, Second!limiterVars, Auth!vars, Auth!limiterVars
<1> QED BY <1>1, <1>2, CommandLimiterRuns, AuthLimiterRuns, PTL DEF TurnedAwayForCause

\* Neither limiter keeps peers that have been quiet.
THEOREM PeersForgotten == Spec => QuietPeersForgotten
<1>1. First!Spec => Command!IdleKeysForgotten
  BY First!KeysForgotten, Limits, PTL DEF First!IdleKeysForgotten, Command!IdleKeysForgotten,
     First!vars, First!limiterVars, Command!vars, Command!limiterVars
<1>2. Second!Spec => Auth!IdleKeysForgotten
  BY Second!KeysForgotten, Limits, PTL DEF Second!IdleKeysForgotten, Auth!IdleKeysForgotten,
     Second!vars, Second!limiterVars, Auth!vars, Auth!limiterVars
<1> QED BY <1>1, <1>2, CommandLimiterRuns, AuthLimiterRuns, PTL DEF QuietPeersForgotten
=============================================================================
