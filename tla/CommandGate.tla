----------------------------- MODULE CommandGate -----------------------------
(***************************************************************************)
(* A command connection from accept until it may send commands            *)
(* (handle_command_connection, main.rs): two rate limiters by peer, then   *)
(* the API key.                                                            *)
(*                                                                         *)
(* Both limiters count connections.  A connection that has passed them may *)
(* send any number of commands, of which no limiter is asked; a program    *)
(* that opens a connection for each command, as the interactive prompt of  *)
(* the demo does (send_command), is limited to AuthLimit commands a        *)
(* window.                                                                 *)
(***************************************************************************)
EXTENDS Integers, Sequences, FiniteSets

CONSTANTS
  Connections,    \* connections open at a time
  Peers,          \* the addresses they come from
  CommandLimit, CommandWindow,   \* command_rate_limit
  AuthLimit, AuthWindow,         \* command_auth_rate_limit
  MaxDelay,       \* how long a call may wait for a limiter's mutex
  MaxTime,        \* bound on the clock
  MaxPassed,      \* bound on the connections of a peer let through
  MaxRequests     \* bound on the commands of one connection

VARIABLES
  clock,
  command_buckets, command_calls, command_log,   \* rate_limiter
  auth_buckets, auth_calls, auth_log,            \* command_auth_rate_limiter
  pc,                     \* where each connection is
  command_auth_failure,   \* the counter of AppState
  requests                \* history: when each connection served had commands

Command == INSTANCE RateLimiter WITH
  Callers <- Connections, Keys <- Peers, Limit <- CommandLimit,
  Window <- CommandWindow, buckets <- command_buckets, calls <- command_calls,
  log <- command_log

Auth == INSTANCE RateLimiter WITH
  Callers <- Connections, Keys <- Peers, Limit <- AuthLimit,
  Window <- AuthWindow, buckets <- auth_buckets, calls <- auth_calls,
  log <- auth_log

ASSUME GateAssumption == Command!LimitAssumption /\ Auth!LimitAssumption

commandVars == <<command_buckets, command_calls, command_log>>
authVars == <<auth_buckets, auth_calls, auth_log>>
vars == <<clock, commandVars, authVars, pc, command_auth_failure, requests>>

-----------------------------------------------------------------------------
Move(c, from, to) == pc[c] = from /\ pc' = [pc EXCEPT ![c] = to]

Accept(c) ==
  /\ Move(c, "closed", "command")
  /\ \E p \in Peers : Len(command_log[p]) < MaxPassed /\ Command!Enter(c, p)
  /\ UNCHANGED <<authVars, command_auth_failure, requests>>

\* Mutant of PassCommandLimit: the second verdict is not waited for.
PassUnlimited(call) ==
  /\ Move(call.caller, "command", "key")
  /\ Command!Admit(call)
  /\ Auth!Enter(call.caller, call.key)
  /\ UNCHANGED <<command_auth_failure, requests>>

\* Nothing is awaited between the verdict and the next limiter.
PassCommandLimit(call) ==
  /\ Move(call.caller, "command", "auth")
  /\ Command!Admit(call)
  /\ Auth!Enter(call.caller, call.key)
  /\ UNCHANGED <<command_auth_failure, requests>>

PassAuthLimit(call) ==
  /\ Move(call.caller, "auth", "key")
  /\ Auth!Admit(call)
  /\ UNCHANGED <<commandVars, command_auth_failure, requests>>

\* The connection is closed without a word.
TurnAway ==
  /\ \/ \E call \in command_calls :
          /\ Move(call.caller, "command", "closed")
          /\ Command!Refuse(call)
          /\ UNCHANGED authVars
     \/ \E call \in auth_calls :
          /\ Move(call.caller, "auth", "closed")
          /\ Auth!Refuse(call)
          /\ UNCHANGED commandVars
  /\ UNCHANGED <<command_auth_failure, requests>>

Gate ==
  \/ \E call \in command_calls : PassCommandLimit(call)
  \/ \E call \in auth_calls : PassAuthLimit(call)
  \/ TurnAway

\* The first line is the key, or the connection ends without one.
ReadKey(c) ==
  /\ \E next \in {"closed", "bad_key", "serving"} : Move(c, "key", next)
  /\ UNCHANGED <<clock, commandVars, authVars, command_auth_failure, requests>>

\* Mutant of RejectKey: the connection may try again.
RejectKeyAgain(c) ==
  /\ Move(c, "bad_key", "key")
  /\ command_auth_failure' = command_auth_failure + 1
  /\ UNCHANGED <<clock, commandVars, authVars, requests>>

RejectKey(c) ==
  /\ Move(c, "bad_key", "closed")
  /\ command_auth_failure' = command_auth_failure + 1
  /\ UNCHANGED <<clock, commandVars, authVars, requests>>

\* One turn of the loop; neither limiter has a say in it.
Serve(c) ==
  /\ pc[c] = "serving"
  /\ Len(requests[c]) < MaxRequests
  /\ requests' = [requests EXCEPT ![c] = Append(@, clock)]
  /\ UNCHANGED <<clock, commandVars, authVars, pc, command_auth_failure>>

\* The connection ends, one way or another.
Leave(c) ==
  /\ Move(c, "serving", "closed")
  /\ requests' = [requests EXCEPT ![c] = << >>]
  /\ UNCHANGED <<clock, commandVars, authVars, command_auth_failure>>

Connection(c) == Accept(c) \/ ReadKey(c) \/ RejectKey(c) \/ Serve(c) \/ Leave(c)

Tick ==
  /\ Command!Tick
  /\ Auth!Tick
  /\ UNCHANGED <<pc, command_auth_failure, requests>>

Init ==
  /\ clock = 0
  /\ Command!LimiterInit
  /\ Auth!LimiterInit
  /\ pc = [c \in Connections |-> "closed"]
  /\ command_auth_failure = 0
  /\ requests = [c \in Connections |-> << >>]

Next ==
  \/ \E c \in Connections : Connection(c)
  \/ Gate
  \/ Tick

Spec == Init /\ [][Next]_vars

-----------------------------------------------------------------------------
(* Properties *)

\* The types of the state; a connection waits for a limiter exactly when it has
\* a call there, and for one of the two at a time.
TypeOK ==
  /\ Command!TypeOK /\ Auth!TypeOK
  /\ pc \in [Connections -> {"closed", "command", "auth", "key", "bad_key", "serving"}]
  /\ command_auth_failure \in Nat
  /\ requests \in [Connections -> Seq(Nat)]
  /\ {call.caller : call \in command_calls} = {c \in Connections : pc[c] = "command"}
  /\ {call.caller : call \in auth_calls} = {c \in Connections : pc[c] = "auth"}

\* Per peer no more than CommandLimit connections are looked at in a window, and
\* no more than AuthLimit get to send a key (connections, not the commands they
\* send: see CommandsLimited), whatever the two limiters' mutexes
\* do to the order of the connections.
ConnectionsLimited == Command!LimitPerWindow /\ Auth!LimitPerWindow

\* A peer is turned away only for connections of its own of late that have used
\* up one of the limits.
TurnedAwayForCause == Command!RefusedForCause /\ Auth!RefusedForCause

\* Neither limiter remembers peers that have been quiet.
QuietPeersForgotten == Command!IdleKeysForgotten /\ Auth!IdleKeysForgotten

\* The connections behind both limiters, and the calls the second let through.
PastLimiters == {c \in Connections : pc[c] \in {"key", "bad_key", "serving"}}
LetThrough == UNION {{p} \X DOMAIN auth_log[p] : p \in Peers}

\* Keys are tried by connections that have passed both limiters and by no other,
\* each once: the failures counted, the keys under way and the connections
\* served never exceed the connections let through.
EveryKeyIsLimited ==
  command_auth_failure + Cardinality(PastLimiters) <= Cardinality(LetThrough)

\* The README says of command_rate_limit that it is the number of command
\* requests per window: no connection has more commands served in a window.
CommandsLimited ==
  \A c \in Connections : \A i \in DOMAIN requests[c] :
    LET start == requests[c][i] IN
    Cardinality({j \in DOMAIN requests[c] :
                   start <= requests[c][j] /\ requests[c][j] < start + CommandWindow})
      <= CommandLimit
=============================================================================
