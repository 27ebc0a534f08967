----------------------------- MODULE SyncClient -----------------------------
(***************************************************************************)
(* The connection of the TypeScript client (SyncpondClient, index.ts):     *)
(* connect and disconnect, the handlers of a WebSocket's events and the    *)
(* timers that reconnect.                                                  *)
(*                                                                         *)
(* JavaScript runs one task at a time, so an action is a task.  Within a   *)
(* task a handler calls the listeners of the program, which may call       *)
(* connect or disconnect, and then goes on with what they left: a handler  *)
(* is a composition of operators on the state.  The handlers all use the   *)
(* field ws, whichever socket they were added to.  When the program        *)
(* connects before an earlier socket is closed or an earlier timer has     *)
(* fired, they act on the wrong socket; hasty remembers that it did.       *)
(*                                                                         *)
(* A call of connect that starts an attempt returns a promise that belongs *)
(* to the socket.  A call that finds an attempt under way, or a connection,*)
(* returns a promise that is resolved already: unauthed remembers that one *)
(* was returned without an auth message on the socket in ws, impatient that*)
(* the program called connect while an attempt was under way.              *)
(***************************************************************************)
EXTENDS Naturals, FiniteSets

CONSTANTS
  Sockets,       \* the sockets that may exist at a time
  NoSocket,      \* undefined
  maxReconnectAttempts,
  autoReconnect,
  MaxTimers      \* bound on the timers set at a time

ASSUME SocketAssumption == NoSocket \notin Sockets

ASSUME AttemptsAssumption == maxReconnectAttempts \in Nat /\ MaxTimers \in Nat

VARIABLES
  client,   \* the fields of the client, its sockets and timers; and the history:
            \* wanted, the last call was connect; hasty, impatient, unauthed
  usable    \* the url and the constructor are valid: no socket throws

vars == <<client, usable>>

-----------------------------------------------------------------------------
SocketState ==
  [readyState : {"connecting", "open", "closing", "closed"},
   promise : {"none", "pending", "resolved", "rejected"},   \* what connect returned
   auths : 0..2]                                            \* auth messages sent

ClientState ==
  [ws : Sockets \cup {NoSocket}, connecting : BOOLEAN, closedByUser : BOOLEAN,
   reconnectAttempts : 0..maxReconnectAttempts, timers : 0..MaxTimers,
   socket : [Sockets -> SocketState],
   wanted : BOOLEAN, hasty : BOOLEAN, impatient : BOOLEAN, unauthed : BOOLEAN]

-----------------------------------------------------------------------------
(* Methods: what they make of a state m *)

Live(m) == {s \in Sockets : m.socket[s].readyState # "closed"}

isConnected(m) == m.ws # NoSocket /\ m.socket[m.ws].readyState = "open"

\* connect returns a promise that is resolved already.
ReturnsEarly(m) == m.connecting \/ isConnected(m)

\* One auth message was sent on the socket in ws.
IsAuthed(m) == m.ws # NoSocket /\ m.socket[m.ws].auths = 1

\* A socket that throws when it is constructed gets no events.
createWebSocket(m) ==
  LET s == CHOOSE s \in Sockets : s \notin Live(m) IN
  IF usable
  THEN [m EXCEPT !.ws = s, !.connecting = TRUE, !.closedByUser = FALSE,
                 !.socket[s] = [readyState |-> "connecting", promise |-> "pending", auths |-> 0]]
  ELSE [m EXCEPT !.connecting = FALSE, !.closedByUser = FALSE]

\* Mutant of connect: an attempt under way is not looked at.
connectAgain(m) == IF isConnected(m) \/ Live(m) = Sockets THEN m ELSE createWebSocket(m)

connect(m) == IF ReturnsEarly(m) THEN m ELSE createWebSocket(m)

\* Bound: there is a socket for connect to construct.
CanConnect(m) == ReturnsEarly(m) \/ Live(m) # Sockets

disconnect(m) ==
  IF m.ws = NoSocket THEN [m EXCEPT !.closedByUser = TRUE]
  ELSE [m EXCEPT !.closedByUser = TRUE, !.ws = NoSocket, !.socket[m.ws].readyState = "closing"]

\* A second auth message is one too many; no more are counted.
sendAuth(m) ==
  IF isConnected(m) /\ m.socket[m.ws].auths < 2
  THEN [m EXCEPT !.socket[m.ws].auths = @ + 1] ELSE m

\* Mutant of scheduleReconnect: the limit is passed by one.
scheduleReconnectOnce(m) ==
  IF m.reconnectAttempts <= maxReconnectAttempts
  THEN [m EXCEPT !.reconnectAttempts = @ + 1, !.timers = @ + 1] ELSE m

scheduleReconnect(m) ==
  IF m.reconnectAttempts < maxReconnectAttempts
  THEN [m EXCEPT !.reconnectAttempts = @ + 1, !.timers = @ + 1] ELSE m

\* A promise is settled once.
Settle(m, s, verdict) ==
  IF m.socket[s].promise = "pending" THEN [m EXCEPT !.socket[s].promise = verdict] ELSE m

-----------------------------------------------------------------------------
(* The program *)

\* Nothing is left of an earlier connection, or connect has nothing to do.
Unhurried(m) ==
  \/ Live(m) = {} /\ m.timers = 0
  \/ ~m.closedByUser /\ ReturnsEarly(m)

Connects(m) ==
  [connect(m) EXCEPT !.wanted = TRUE,
                     !.hasty = m.hasty \/ ~Unhurried(m),
                     !.impatient = m.impatient \/ m.connecting,
                     !.unauthed = m.unauthed \/ (ReturnsEarly(m) /\ ~IsAuthed(m))]

Disconnects(m) == [disconnect(m) EXCEPT !.wanted = FALSE]

\* No call or one.
Calls(m) == {m, Disconnects(m)} \cup (IF CanConnect(m) THEN {Connects(m)} ELSE {})

\* One more call, or none, in one of the states of M.
AndThen(M) == UNION {Calls(m) : m \in M}

\* emit: what the listeners may leave of a state.  Every one of them may call
\* several times.  Bound: they make four calls in all.
emit(m) == AndThen(AndThen(AndThen(Calls(m))))

\* The program acts on its own, or when it gets a message.
Program == client' \in emit(client) /\ UNCHANGED usable

-----------------------------------------------------------------------------
(* Events of a socket *)

\* The handler of open.
OpenFires(s) ==
  LET opened == [client EXCEPT !.socket[s].readyState = "open",
                               !.connecting = FALSE, !.reconnectAttempts = 0] IN
  /\ client.socket[s].readyState = "connecting"
  /\ \E m \in emit(sendAuth(opened)) : client' = Settle(m, s, "resolved")
  /\ UNCHANGED usable

\* The handler of error.
OnError(m, s) ==
  {IF isConnected(n) \/ n.connecting THEN n ELSE Settle(n, s, "rejected") : n \in emit(m)}

\* Mutant of Closed: connecting is left as it is.
ClosedConnecting(m) ==
  LET gone == [m EXCEPT !.ws = NoSocket] IN
  IF ~m.closedByUser /\ autoReconnect THEN scheduleReconnect(gone) ELSE gone

\* What the handler of close does once the listeners have been told.
Closed(m) ==
  LET gone == [m EXCEPT !.ws = NoSocket, !.connecting = FALSE] IN
  IF ~m.closedByUser /\ autoReconnect THEN scheduleReconnect(gone) ELSE gone

OnClose(m) == {Closed(n) : n \in emit(m)}

\* The peer starts to close the connection.
PeerCloses(s) ==
  /\ client.socket[s].readyState = "open"
  /\ client' = [client EXCEPT !.socket[s].readyState = "closing"]
  /\ UNCHANGED usable

\* The socket is closed: it could not connect, it was closed or it broke.  An
\* error is fired first unless it was closed in order.  That the handlers see a
\* socket that is no longer open is all they see of its state.
CloseFires(s) ==
  LET closing == [client EXCEPT !.socket[s].readyState = "closing"] IN
  /\ s \in Live(client)
  /\ client.timers < MaxTimers
  /\ \E failed \in BOOLEAN :
       /\ client.socket[s].readyState = "connecting" => failed
       /\ \E m \in UNION {OnClose(n) : n \in IF failed THEN OnError(closing, s) ELSE {closing}} :
            client' = [m EXCEPT !.socket[s].readyState = "closed"]
  /\ UNCHANGED usable

\* Mutant of TimerFires: it was set before the program disconnected.
TimerFiresAnyway ==
  /\ client.timers > 0
  /\ CanConnect(client)
  /\ client' = connect([client EXCEPT !.timers = @ - 1])
  /\ UNCHANGED usable

\* A timer of scheduleReconnect.
TimerFires ==
  /\ client.timers > 0
  /\ CanConnect(client)
  /\ LET fired == [client EXCEPT !.timers = @ - 1] IN
     client' = IF client.closedByUser THEN fired ELSE connect(fired)
  /\ UNCHANGED usable

Init ==
  /\ client = [ws |-> NoSocket, connecting |-> FALSE, closedByUser |-> FALSE,
               reconnectAttempts |-> 0, timers |-> 0,
               socket |-> [s \in Sockets |->
                             [readyState |-> "closed", promise |-> "none", auths |-> 0]],
               wanted |-> FALSE, hasty |-> FALSE,
               impatient |-> FALSE, unauthed |-> FALSE]
  /\ usable \in BOOLEAN

Next ==
  \/ Program
  \/ \E s \in Sockets : OpenFires(s) \/ PeerCloses(s) \/ CloseFires(s)
  \/ TimerFires

Spec == Init /\ [][Next]_vars

\* A socket that is not open opens or closes some time, and timers fire.  The
\* program need not do anything, and the peer need not close.  For the sockets it
\* is said of the states: it is the weak fairness of OpenFires(s) \/ CloseFires(s)
\* where the socket is not open, as no other action opens or closes one and the
\* bound on timers is all that disables them.
Fairness ==
  /\ \A s \in Sockets :
       []<>(\/ client.socket[s].readyState \in {"open", "closed"}
            \/ client.socket[s].readyState = "closing" /\ client.timers >= MaxTimers)
  /\ WF_vars(TimerFires)

FairSpec == Spec /\ Fairness

-----------------------------------------------------------------------------
(* Properties *)

\* The types of the fields, the sockets and the history.
TypeOK == client \in ClientState /\ usable \in BOOLEAN

\* Once the program has called disconnect no socket is opened before it calls
\* connect again, whatever timers were set and whatever sockets are still to
\* close.
DisconnectIsFinal ==
  [][\A s \in Sockets :
       client.socket[s].readyState # "connecting"
         /\ client'.socket[s].readyState = "connecting" => client'.wanted]_vars

\* A program that is not hasty has one connection at a time: one socket, which is
\* in the field ws until it closes, or one timer to open the next.  And it has
\* none once it has called disconnect.
OneConnection ==
  ~client.hasty =>
    /\ Cardinality(Live(client)) + client.timers <= 1
    /\ \A s \in Live(client) : client.socket[s].readyState # "closing" =>
         client.ws = s /\ client.wanted

\* A program that is not hasty is told that it is connected, by the promise of
\* the call that started the attempt, when the auth message was sent, once, on
\* this connection.  The other calls promise as much, but for one made while an
\* attempt is under way, whose promise is resolved before the socket is open.
ResolvedMeansAuthed ==
  ~client.hasty =>
    /\ \A s \in Sockets : client.socket[s].promise = "resolved" => client.socket[s].auths = 1
    /\ client.unauthed => client.impatient

GaveUp ==
  /\ Live(client) = {} /\ client.timers = 0
  /\ client.reconnectAttempts = maxReconnectAttempts

\* A program that wants a connection and is not hasty gets one, unless as many
\* attempts as it allows fail in a row.
KeepsTrying ==
  (client.wanted /\ ~client.hasty /\ usable)
    ~> (isConnected(client) \/ GaveUp \/ ~client.wanted \/ client.hasty)

\* What the library's specification says of connect: "rejects on immediate
\* connection failure or if server socket error occurs before open".  When the
\* socket of a program that still wants its connection fails before it is open,
\* the promise of connect is not left pending: nothing is fired any more that
\* could settle it.
ConnectSettles ==
  [][\A s \in Sockets :
       client.socket[s].readyState = "connecting" /\ client.wanted
         /\ client'.socket[s].readyState = "closed" /\ client'.wanted /\ ~client'.hasty
       => client'.socket[s].promise # "pending"]_vars
=============================================================================
