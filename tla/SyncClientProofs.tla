-------------------------- MODULE SyncClientProofs --------------------------
(***************************************************************************)
(* The client for any number of sockets and any limit of attempts.         *)
(*                                                                         *)
(* A handler runs the listeners of the program in the middle of its work,  *)
(* so every fact is stated of a state m that a task is in and shown to     *)
(* survive emit.  Sound says what holds as long as the program is not      *)
(* hasty; Wished and FewNew hold whatever the program does.                *)
(***************************************************************************)
EXTENDS SyncClient, FiniteSetTheorems, TLAPS

\* A socket that is constructed by connect.
Fresh == [readyState |-> "connecting", promise |-> "pending", auths |-> 0]

\* One socket or one timer; the field ws holds the socket unless it is closing.
One(m) ==
  /\ \A s, t \in Live(m) : s = t
  /\ m.timers <= 1
  /\ m.timers > 0 => Live(m) = {}
  /\ m.ws # NoSocket => m.ws \in Live(m)
  /\ m.connecting => Live(m) # {}
  /\ \A s \in Live(m) : m.socket[s].readyState # "closing" => m.ws = s

\* An auth message is sent when a socket opens, before a promise is resolved, and
\* none before that.
Authed(m) ==
  \A s \in Sockets :
    /\ m.socket[s].readyState = "connecting" => m.socket[s].auths = 0
    /\ m.socket[s].readyState = "open" => m.socket[s].auths = 1
    /\ m.socket[s].promise = "resolved" => m.socket[s].auths = 1

\* closedByUser is what the program last called.
CloseMatches(m) ==
  /\ m.wanted => ~m.closedByUser
  /\ m.closedByUser => m.ws = NoSocket

\* Only a call in the middle of an attempt returns a promise too early.
Told(m) == m.unauthed => m.impatient

Sound(m) == ~m.hasty => One(m) /\ Authed(m) /\ CloseMatches(m) /\ Told(m)

\* Without closedByUser there is nothing under way that the program did not ask for.
Wished(m) == ~m.closedByUser /\ ~m.wanted => m.timers = 0 /\ Live(m) = {}

\* Of the sockets that were not connecting when the task began at most one is now,
\* the one in ws, and the program wants it.
FewNew(m, old) ==
  \A t \in Sockets \ old :
    m.socket[t].readyState = "connecting" => m.ws = t /\ m.connecting /\ m.wanted

Good(m) == m \in ClientState /\ Sound(m) /\ Wished(m)

-----------------------------------------------------------------------------
(* The methods *)

Created(m, n) ==
  /\ n \in ClientState
  /\ n.closedByUser = FALSE
  /\ n.timers = m.timers /\ n.wanted = m.wanted /\ n.hasty = m.hasty
  /\ n.impatient = m.impatient /\ n.unauthed = m.unauthed
  /\ \/ n.ws = m.ws /\ n.connecting = FALSE /\ n.socket = m.socket
     \/ \E s \in Sockets \ Live(m) :
          n.ws = s /\ n.connecting = TRUE /\ n.socket = [m.socket EXCEPT ![s] = Fresh]

LEMMA CreatedIs ==
  ASSUME NEW m \in ClientState, Live(m) # Sockets
  PROVE  Created(m, createWebSocket(m))
<1> DEFINE s == CHOOSE s \in Sockets : s \notin Live(m)
           n == createWebSocket(m)
<1>1. s \in Sockets /\ s \notin Live(m)
  BY DEF Live
<1>2. Fresh \in SocketState
  BY DEF Fresh, SocketState
<1>3. CASE ~usable
  <2>1. n = [m EXCEPT !.connecting = FALSE, !.closedByUser = FALSE]
    BY <1>3 DEF createWebSocket
  <2> HIDE DEF n
  <2> QED BY <2>1 DEF ClientState, Created, n
<1>4. CASE usable
  <2>1. n = [m EXCEPT !.ws = s, !.connecting = TRUE, !.closedByUser = FALSE, !.socket[s] = Fresh]
    BY <1>4 DEF createWebSocket, Fresh
  <2> HIDE DEF n, s
  <2>2. /\ n.ws = s /\ n.connecting = TRUE /\ n.closedByUser = FALSE
        /\ n.socket = [m.socket EXCEPT ![s] = Fresh]
        /\ n.timers = m.timers /\ n.wanted = m.wanted /\ n.hasty = m.hasty
        /\ n.impatient = m.impatient /\ n.unauthed = m.unauthed
    BY <2>1 DEF ClientState
  <2>3. [m.socket EXCEPT ![s] = Fresh] \in [Sockets -> SocketState]
    BY <1>1, <1>2 DEF ClientState
  <2>4. n \in ClientState
    BY <1>1, <2>1, <2>3 DEF ClientState
  <2> QED BY <1>1, <2>2, <2>4 DEF Created, n
<1> QED BY <1>3, <1>4

\* connect has nothing to do, or constructs a socket.
ConnectedOrCreated(m, n) ==
  \/ /\ m.connecting \/ isConnected(m)
     /\ n.ws = m.ws /\ n.connecting = m.connecting /\ n.socket = m.socket
     /\ n.closedByUser = m.closedByUser
  \/ /\ ~m.connecting /\ ~isConnected(m)
     /\ n.closedByUser = FALSE
     /\ \/ n.ws = m.ws /\ n.connecting = FALSE /\ n.socket = m.socket
        \/ \E s \in Sockets \ Live(m) :
             n.ws = s /\ n.connecting = TRUE /\ n.socket = [m.socket EXCEPT ![s] = Fresh]

LEMMA ConnectIs ==
  ASSUME NEW m \in ClientState, CanConnect(m)
  PROVE  /\ connect(m) \in ClientState
         /\ ConnectedOrCreated(m, connect(m))
         /\ connect(m).timers = m.timers /\ connect(m).wanted = m.wanted
         /\ connect(m).hasty = m.hasty /\ connect(m).impatient = m.impatient
         /\ connect(m).unauthed = m.unauthed
<1>1. CASE m.connecting \/ isConnected(m)
  <2>1. connect(m) = m
    BY <1>1 DEF connect, ReturnsEarly
  <2> QED BY <1>1, <2>1 DEF ConnectedOrCreated
<1>2. CASE ~m.connecting /\ ~isConnected(m)
  <2>1. connect(m) = createWebSocket(m)
    BY <1>2 DEF connect, ReturnsEarly
  <2>2. Created(m, connect(m))
    BY <1>2, <2>1, CreatedIs DEF CanConnect, ReturnsEarly
  <2> PICK n : n = connect(m)
    OBVIOUS
  <2>3. Created(m, n)
    BY <2>2
  <2>4. /\ n \in ClientState /\ ConnectedOrCreated(m, n)
        /\ n.timers = m.timers /\ n.wanted = m.wanted /\ n.hasty = m.hasty
        /\ n.impatient = m.impatient /\ n.unauthed = m.unauthed
    BY <1>2, <2>3 DEF Created, ConnectedOrCreated
  <2> QED BY <2>4
<1> QED BY <1>1, <1>2

LEMMA ConnectsIs ==
  ASSUME NEW m \in ClientState, CanConnect(m)
  PROVE  /\ Connects(m) \in ClientState
         /\ ConnectedOrCreated(m, Connects(m))
         /\ Connects(m).timers = m.timers /\ Connects(m).wanted = TRUE
         /\ Connects(m).hasty = (m.hasty \/ ~Unhurried(m))
         /\ Connects(m).impatient = (m.impatient \/ m.connecting)
         /\ Connects(m).unauthed = (m.unauthed \/ (ReturnsEarly(m) /\ ~IsAuthed(m)))
<1> DEFINE c == connect(m)
           n == Connects(m)
           rushed == m.hasty \/ ~Unhurried(m)
           during == m.impatient \/ m.connecting
           early == m.unauthed \/ (ReturnsEarly(m) /\ ~IsAuthed(m))
<1>1. n = [c EXCEPT !.wanted = TRUE, !.hasty = rushed, !.impatient = during, !.unauthed = early]
  BY DEF Connects
<1>2. rushed \in BOOLEAN /\ during \in BOOLEAN /\ early \in BOOLEAN
  BY DEF ClientState, Unhurried, ReturnsEarly, IsAuthed
<1>3. ConnectedOrCreated(m, c) /\ c.timers = m.timers
  BY ConnectIs
<1>c. c \in ClientState
  BY ConnectIs
<1> HIDE DEF c, n, rushed, during, early
<1>4. n \in ClientState
  <2> DEFINE w == [c EXCEPT !.wanted = TRUE, !.hasty = rushed]
  <2>1. w \in ClientState
    BY <1>2, <1>c DEF ClientState
  <2>2. n = [w EXCEPT !.impatient = during, !.unauthed = early]
    BY <1>1, <1>c DEF ClientState
  <2> HIDE DEF w
  <2> QED BY <1>2, <2>1, <2>2 DEF ClientState
<1>5. /\ n.wanted = TRUE /\ n.hasty = rushed /\ n.impatient = during /\ n.unauthed = early
      /\ n.ws = c.ws /\ n.connecting = c.connecting
      /\ n.socket = c.socket /\ n.closedByUser = c.closedByUser /\ n.timers = c.timers
  BY <1>1, <1>c DEF ClientState
<1>6. ConnectedOrCreated(m, n)
  BY <1>3, <1>5 DEF ConnectedOrCreated
<1> QED BY <1>3, <1>4, <1>5, <1>6 DEF n, rushed, during, early

Disconnected(m, n) ==
  /\ n \in ClientState
  /\ n.closedByUser = TRUE /\ n.wanted = FALSE /\ n.ws = NoSocket
  /\ n.timers = m.timers /\ n.hasty = m.hasty /\ n.connecting = m.connecting
  /\ n.impatient = m.impatient /\ n.unauthed = m.unauthed
  /\ \/ m.ws = NoSocket /\ n.socket = m.socket
     \/ /\ m.ws \in Sockets
        /\ n.socket = [m.socket EXCEPT ![m.ws].readyState = "closing"]

LEMMA DisconnectsIs ==
  ASSUME NEW m \in ClientState
  PROVE  Disconnected(m, Disconnects(m))
<1> DEFINE n == Disconnects(m)
<1>1. CASE m.ws = NoSocket
  <2>1. n = [m EXCEPT !.closedByUser = TRUE, !.wanted = FALSE]
    BY <1>1 DEF Disconnects, disconnect, ClientState
  <2> HIDE DEF n
  <2> QED BY <1>1, <2>1 DEF ClientState, Disconnected, n
<1>2. CASE m.ws # NoSocket
  <2>1. m.ws \in Sockets
    BY <1>2 DEF ClientState
  <2>2. n = [m EXCEPT !.closedByUser = TRUE, !.ws = NoSocket,
                      !.socket[m.ws].readyState = "closing", !.wanted = FALSE]
    BY <1>2 DEF Disconnects, disconnect
  <2> HIDE DEF n
  <2>3. [m.socket EXCEPT ![m.ws].readyState = "closing"] \in [Sockets -> SocketState]
    BY <2>1 DEF ClientState, SocketState
  <2>4. /\ n.closedByUser = TRUE /\ n.wanted = FALSE /\ n.ws = NoSocket
        /\ n.timers = m.timers /\ n.hasty = m.hasty /\ n.connecting = m.connecting
        /\ n.impatient = m.impatient /\ n.unauthed = m.unauthed
        /\ n.socket = [m.socket EXCEPT ![m.ws].readyState = "closing"]
    BY <2>2 DEF ClientState
  <2>5. n \in ClientState
    BY <2>2, <2>3 DEF ClientState
  <2> QED BY <2>1, <2>4, <2>5 DEF Disconnected, n
<1> QED BY <1>1, <1>2

-----------------------------------------------------------------------------
(* The listeners *)

\* What the listeners leave alone of a state m, and of the sockets that are
\* connecting in it.
Kept(m, n) ==
  /\ n.timers = m.timers
  /\ m.hasty => n.hasty
  /\ \A s \in Live(m) :
       /\ s \in Live(n)
       /\ n.socket[s].auths = m.socket[s].auths
       /\ n.socket[s].promise = m.socket[s].promise
  /\ \A old \in SUBSET Sockets : FewNew(m, old) => FewNew(n, old)

LEMMA DisconnectsGood ==
  ASSUME NEW m, Good(m)
  PROVE  Good(Disconnects(m)) /\ Kept(m, Disconnects(m))
<1> DEFINE n == Disconnects(m)
<1>1. m \in ClientState
  BY DEF Good
<1>2. Disconnected(m, n)
  BY <1>1, DisconnectsIs
<1> HIDE DEF n
<1>3. /\ Live(n) = Live(m) \cup (IF m.ws = NoSocket THEN {} ELSE {m.ws})
      /\ \A s \in Sockets :
           /\ n.socket[s].auths = m.socket[s].auths
           /\ n.socket[s].promise = m.socket[s].promise
           /\ n.socket[s].readyState = m.socket[s].readyState \/ m.ws # NoSocket
           /\ n.socket[s].readyState = IF s = m.ws THEN "closing" ELSE m.socket[s].readyState
  BY <1>1, <1>2, SocketAssumption DEF Disconnected, Live, ClientState, SocketState
<1>4. Sound(n)
  BY <1>1, <1>2, <1>3 DEF Disconnected, Good, Sound, One, Authed, CloseMatches, Told, Live
<1>5. Wished(n)
  BY <1>2 DEF Disconnected, Wished
<1>6. Good(n)
  BY <1>2, <1>4, <1>5 DEF Disconnected, Good
<1>7. \A old \in SUBSET Sockets : FewNew(m, old) => FewNew(n, old)
  BY <1>2, <1>3 DEF Disconnected, FewNew
<1>8. Kept(m, n)
  BY <1>2, <1>3, <1>7 DEF Disconnected, Kept, Live
<1> QED BY <1>6, <1>8 DEF n

LEMMA ConnectsGood ==
  ASSUME NEW m, Good(m), CanConnect(m)
  PROVE  Good(Connects(m)) /\ Kept(m, Connects(m))
<1> DEFINE n == Connects(m)
<1>1. m \in ClientState
  BY DEF Good
<1>2. /\ n \in ClientState /\ ConnectedOrCreated(m, n)
      /\ n.timers = m.timers /\ n.wanted = TRUE
      /\ n.hasty = (m.hasty \/ ~Unhurried(m))
      /\ n.impatient = (m.impatient \/ m.connecting)
      /\ n.unauthed = (m.unauthed \/ (ReturnsEarly(m) /\ ~IsAuthed(m)))
  BY <1>1, ConnectsIs
<1> HIDE DEF n
<1>7. ~n.hasty => Told(n)
  <2> SUFFICES ASSUME ~n.hasty, ~m.impatient, ~m.connecting
               PROVE  ~n.unauthed
    BY <1>1, <1>2 DEF Told, ClientState
  <2>1. Authed(m) /\ Told(m)
    BY <1>1, <1>2 DEF Good, Sound, ClientState
  <2>2. ReturnsEarly(m) => IsAuthed(m)
    BY <1>1, <2>1 DEF ReturnsEarly, IsAuthed, isConnected, Authed, ClientState
  <2> QED BY <1>1, <1>2, <2>1, <2>2 DEF Told, ClientState
<1>3. Wished(n)
  BY <1>2 DEF Wished
<1>4. CASE /\ m.connecting \/ isConnected(m)
           /\ n.ws = m.ws /\ n.connecting = m.connecting /\ n.socket = m.socket
           /\ n.closedByUser = m.closedByUser
  <2>1. Live(n) = Live(m)
    BY <1>4 DEF Live
  <2>2. Sound(n)
    BY <1>1, <1>2, <1>4, <1>7, <2>1
    DEF Good, Sound, One, Authed, CloseMatches, Unhurried, ReturnsEarly, Live, isConnected,
        ClientState
  <2>3. Kept(m, n)
    BY <1>2, <1>4, <2>1 DEF Kept, FewNew
  <2> QED BY <1>2, <1>3, <2>2, <2>3 DEF Good, n
<1>5. CASE /\ ~m.connecting /\ ~isConnected(m)
           /\ n.closedByUser = FALSE
           /\ n.ws = m.ws /\ n.connecting = FALSE /\ n.socket = m.socket
  <2>1. Live(n) = Live(m)
    BY <1>5 DEF Live
  <2>2. Sound(n)
    BY <1>1, <1>2, <1>5, <1>7, <2>1
    DEF Good, Sound, One, Authed, CloseMatches, Unhurried, ReturnsEarly, ClientState
  <2>3. Kept(m, n)
    BY <1>2, <1>5, <2>1 DEF Kept, FewNew
  <2> QED BY <1>2, <1>3, <2>2, <2>3 DEF Good, n
<1>6. CASE /\ ~m.connecting /\ ~isConnected(m)
           /\ n.closedByUser = FALSE
           /\ \E s \in Sockets \ Live(m) :
                n.ws = s /\ n.connecting = TRUE /\ n.socket = [m.socket EXCEPT ![s] = Fresh]
  <2>1. PICK s \in Sockets \ Live(m) :
               n.ws = s /\ n.connecting = TRUE /\ n.socket = [m.socket EXCEPT ![s] = Fresh]
    BY <1>6
  <2>2. \A t \in Sockets : n.socket[t] = IF t = s THEN Fresh ELSE m.socket[t]
    BY <1>1, <2>1 DEF ClientState
  <2>3. Live(n) = Live(m) \cup {s}
    BY <2>1, <2>2 DEF Live, Fresh
  <2>4. Sound(n)
    <3> SUFFICES ASSUME ~n.hasty
                 PROVE  One(n) /\ Authed(n) /\ CloseMatches(n)
      BY <1>7 DEF Sound
    <3>1. /\ Live(m) = {} /\ m.timers = 0 /\ Authed(m)
      BY <1>1, <1>2, <1>6 DEF Unhurried, ReturnsEarly, Good, Sound, ClientState
    <3>2. One(n)
      BY <1>2, <2>1, <2>3, <3>1 DEF One
    <3>3. Authed(n)
      BY <2>2, <3>1 DEF Authed, Fresh
    <3> QED BY <1>2, <1>6, <3>2, <3>3 DEF CloseMatches
  <2>5. \A old \in SUBSET Sockets : FewNew(m, old) => FewNew(n, old)
    BY <1>2, <1>6, <2>1, <2>2 DEF FewNew
  <2>6. Kept(m, n)
    BY <1>2, <2>1, <2>2, <2>3, <2>5 DEF Kept, Live
  <2> QED BY <1>2, <1>3, <2>4, <2>6 DEF Good, n
<1> QED BY <1>2, <1>4, <1>5, <1>6 DEF ConnectedOrCreated

LEMMA CallsGood ==
  ASSUME NEW m, Good(m), NEW n \in Calls(m)
  PROVE  Good(n) /\ Kept(m, n)
<1>1. CASE n = m
  BY <1>1 DEF Kept
<1>2. CASE n = Disconnects(m)
  BY <1>2, DisconnectsGood
<1>3. CASE CanConnect(m) /\ n = Connects(m)
  BY <1>3, ConnectsGood
<1> QED BY <1>1, <1>2, <1>3 DEF Calls

LEMMA KeptTransitive ==
  ASSUME NEW m, NEW k, NEW n, Kept(m, k), Kept(k, n)
  PROVE  Kept(m, n)
BY DEF Kept

\* After one more call every state of M is still what it has to be.
LEMMA AndThenGood ==
  ASSUME NEW m, NEW M, \A k \in M : Good(k) /\ Kept(m, k), NEW n \in AndThen(M)
  PROVE  Good(n) /\ Kept(m, n)
<1>1. PICK k \in M : n \in Calls(k)
  BY DEF AndThen
<1>2. Good(k) /\ Kept(m, k)
  BY <1>1
<1>3. Good(n) /\ Kept(k, n)
  BY <1>1, <1>2, CallsGood
<1> QED BY <1>2, <1>3, KeptTransitive

LEMMA EmitGood ==
  ASSUME NEW m, Good(m), NEW n \in emit(m)
  PROVE  Good(n) /\ Kept(m, n)
<1>1. \A k \in Calls(m) : Good(k) /\ Kept(m, k)
  BY CallsGood
<1>2. \A k \in AndThen(Calls(m)) : Good(k) /\ Kept(m, k)
  BY <1>1, AndThenGood
<1>3. \A k \in AndThen(AndThen(Calls(m))) : Good(k) /\ Kept(m, k)
  BY <1>2, AndThenGood
<1>4. \A k \in AndThen(AndThen(AndThen(Calls(m)))) : Good(k) /\ Kept(m, k)
  BY <1>3, AndThenGood
<1> QED BY <1>4 DEF emit

-----------------------------------------------------------------------------
(* The events of the sockets *)

LEMMA SettleGood ==
  ASSUME NEW m, Good(m), NEW s \in Sockets, NEW verdict \in {"resolved", "rejected"},
         verdict = "resolved" /\ ~m.hasty => m.socket[s].auths = 1
  PROVE  LET n == Settle(m, s, verdict) IN
         /\ Good(n) /\ Live(n) = Live(m) /\ n.timers = m.timers
         /\ \A old \in SUBSET Sockets : FewNew(m, old) => FewNew(n, old)
<1> DEFINE n == Settle(m, s, verdict)
           f == [m.socket EXCEPT ![s].promise = verdict]
<1>1. m \in ClientState
  BY DEF Good
<1>2. CASE m.socket[s].promise # "pending"
  BY <1>2 DEF Settle
<1>3. CASE m.socket[s].promise = "pending"
  <2>1. n = [m EXCEPT !.socket = f]
    BY <1>1, <1>3 DEF Settle, ClientState
  <2>2. f \in [Sockets -> SocketState]
    BY <1>1 DEF ClientState, SocketState
  <2>3. \A t \in Sockets :
          /\ f[t].readyState = m.socket[t].readyState /\ f[t].auths = m.socket[t].auths
          /\ f[t].promise = IF t = s THEN verdict ELSE m.socket[t].promise
    BY <1>1 DEF ClientState, SocketState
  <2> HIDE DEF n, f
  <2>4. /\ n \in ClientState
        /\ n.ws = m.ws /\ n.closedByUser = m.closedByUser /\ n.timers = m.timers
        /\ n.connecting = m.connecting
        /\ n.wanted = m.wanted /\ n.hasty = m.hasty /\ n.socket = f
        /\ n.impatient = m.impatient /\ n.unauthed = m.unauthed
    BY <1>1, <2>1, <2>2 DEF ClientState
  <2>5. Live(n) = Live(m)
    BY <2>3, <2>4 DEF Live
  <2>6. Sound(n)
    BY <2>3, <2>4, <2>5 DEF Good, Sound, One, Authed, CloseMatches, Told, Live
  <2>7. Wished(n)
    BY <2>4, <2>5 DEF Good, Wished
  <2>8. \A old \in SUBSET Sockets : FewNew(m, old) => FewNew(n, old)
    BY <2>3, <2>4 DEF FewNew
  <2> QED BY <2>4, <2>5, <2>6, <2>7, <2>8 DEF Good, n
<1> QED BY <1>2, <1>3

LEMMA ClosingGood ==
  ASSUME NEW m, Good(m), NEW s \in Live(m)
  PROVE  LET n == [m EXCEPT !.socket[s].readyState = "closing"] IN
         /\ Good(n) /\ s \in Live(n) /\ n.timers = m.timers
         /\ FewNew(n, {t \in Sockets : m.socket[t].readyState = "connecting"})
<1> DEFINE n == [m EXCEPT !.socket[s].readyState = "closing"]
           f == [m.socket EXCEPT ![s].readyState = "closing"]
           old == {t \in Sockets : m.socket[t].readyState = "connecting"}
<1>1. m \in ClientState /\ s \in Sockets
  BY DEF Good, Live
<1>2. f \in [Sockets -> SocketState]
  BY <1>1 DEF ClientState, SocketState
<1>3. \A t \in Sockets :
        /\ f[t].readyState = IF t = s THEN "closing" ELSE m.socket[t].readyState
        /\ f[t].auths = m.socket[t].auths /\ f[t].promise = m.socket[t].promise
  BY <1>1 DEF ClientState, SocketState
<1>4. n = [m EXCEPT !.socket = f]
  BY <1>1 DEF ClientState
<1> HIDE DEF n, f
<1>5. /\ n \in ClientState
      /\ n.ws = m.ws /\ n.closedByUser = m.closedByUser /\ n.timers = m.timers
      /\ n.connecting = m.connecting
      /\ n.wanted = m.wanted /\ n.hasty = m.hasty /\ n.socket = f
      /\ n.impatient = m.impatient /\ n.unauthed = m.unauthed
  BY <1>1, <1>2, <1>4 DEF ClientState
<1>6. Live(n) = Live(m)
  BY <1>3, <1>5 DEF Live
<1>7. Sound(n)
  BY <1>3, <1>5, <1>6 DEF Good, Sound, One, Authed, CloseMatches, Told, Live
<1>8. Wished(n)
  BY <1>5, <1>6 DEF Good, Wished
<1>9. FewNew(n, old)
  BY <1>3, <1>5 DEF FewNew
<1> QED BY <1>5, <1>6, <1>7, <1>8, <1>9 DEF Good, n

\* The sockets that are connecting, when a task begins.
Started == {t \in Sockets : client.socket[t].readyState = "connecting"}

LEMMA ProgramGood ==
  ASSUME Good(client), Program
  PROVE  Good(client') /\ FewNew(client', Started)
<1>1. FewNew(client, Started) /\ Started \in SUBSET Sockets
  BY DEF FewNew, Started
<1>2. Good(client') /\ Kept(client, client')
  BY EmitGood DEF Program
<1> QED BY <1>1, <1>2 DEF Kept

LEMMA OpenGood ==
  ASSUME Good(client), NEW s \in Sockets, OpenFires(s)
  PROVE  Good(client') /\ FewNew(client', Started)
<1> DEFINE o == [client EXCEPT !.socket[s].readyState = "open",
                               !.connecting = FALSE, !.reconnectAttempts = 0]
           f == [client.socket EXCEPT ![s].readyState = "open"]
           a == sendAuth(o)
<1>1. client \in ClientState /\ client.socket[s].readyState = "connecting" /\ s \in Live(client)
  BY DEF Good, OpenFires, Live
<1>2. /\ f \in [Sockets -> SocketState]
      /\ \A t \in Sockets :
           /\ f[t].readyState = IF t = s THEN "open" ELSE client.socket[t].readyState
           /\ f[t].auths = client.socket[t].auths /\ f[t].promise = client.socket[t].promise
  BY <1>1 DEF ClientState, SocketState
<1>3. o = [client EXCEPT !.socket = f, !.connecting = FALSE, !.reconnectAttempts = 0]
  BY <1>1 DEF ClientState
<1>4. \E m \in emit(a) : client' = Settle(m, s, "resolved")
  BY DEF OpenFires
<1> HIDE DEF a, o, f
<1>5. /\ o \in ClientState
      /\ o.ws = client.ws /\ o.closedByUser = client.closedByUser /\ o.timers = client.timers
      /\ o.wanted = client.wanted /\ o.hasty = client.hasty /\ o.socket = f
      /\ o.impatient = client.impatient /\ o.unauthed = client.unauthed
      /\ o.connecting = FALSE
  <2>1. 0 \in 0..maxReconnectAttempts
    BY AttemptsAssumption
  <2> QED BY <1>1, <1>2, <1>3, <2>1 DEF ClientState
<1>6. /\ a \in ClientState
      /\ a.ws = client.ws /\ a.closedByUser = client.closedByUser /\ a.timers = client.timers
      /\ a.wanted = client.wanted /\ a.hasty = client.hasty /\ a.connecting = FALSE
      /\ a.impatient = client.impatient /\ a.unauthed = client.unauthed
      /\ \A t \in Sockets :
           /\ a.socket[t].readyState = f[t].readyState /\ a.socket[t].promise = f[t].promise
           /\ a.socket[t].auths = IF isConnected(o) /\ t = o.ws /\ f[t].auths < 2
                                  THEN f[t].auths + 1 ELSE f[t].auths
  <2>1. CASE ~(isConnected(o) /\ o.socket[o.ws].auths < 2)
    <3>1. a = o
      BY <2>1 DEF a, sendAuth
    <3> QED BY <2>1, <3>1, <1>5
  <2>2. CASE isConnected(o) /\ o.socket[o.ws].auths < 2
    <3> DEFINE g == [f EXCEPT ![o.ws].auths = @ + 1]
    <3>1. o.ws \in Sockets
      BY <2>2, <1>5 DEF isConnected, ClientState
    <3>2. /\ g \in [Sockets -> SocketState]
          /\ \A t \in Sockets :
               /\ g[t].readyState = f[t].readyState /\ g[t].promise = f[t].promise
               /\ g[t].auths = IF t = o.ws THEN f[t].auths + 1 ELSE f[t].auths
      BY <2>2, <3>1, <1>2, <1>5 DEF SocketState
    <3>3. a = [o EXCEPT !.socket = g]
      BY <2>2, <1>5 DEF a, sendAuth, ClientState
    <3> HIDE DEF g
    <3>4. /\ a \in ClientState /\ a.socket = g
          /\ a.ws = o.ws /\ a.closedByUser = o.closedByUser /\ a.timers = o.timers
          /\ a.wanted = o.wanted /\ a.hasty = o.hasty /\ a.connecting = o.connecting
          /\ a.impatient = o.impatient /\ a.unauthed = o.unauthed
      BY <3>2, <3>3, <1>5 DEF ClientState
    <3>5. \A t \in Sockets :
            a.socket[t].auths = IF isConnected(o) /\ t = o.ws /\ f[t].auths < 2
                                THEN f[t].auths + 1 ELSE f[t].auths
      BY <2>2, <3>1, <3>2, <3>4, <1>5
    <3> QED BY <3>2, <3>4, <3>5, <1>5
  <2> QED BY <2>1, <2>2
<1>7. Live(a) = Live(client)
  BY <1>1, <1>2, <1>6 DEF Live
<1>8. ~client.hasty =>
        /\ One(a) /\ CloseMatches(a) /\ Authed(a) /\ Told(a)
        /\ a.socket[s].auths = 1
  <2> SUFFICES ASSUME ~client.hasty
               PROVE  One(a) /\ CloseMatches(a) /\ Authed(a) /\ Told(a) /\ a.socket[s].auths = 1
    OBVIOUS
  <2>1. One(client) /\ Authed(client) /\ CloseMatches(client) /\ Told(client)
    BY DEF Good, Sound
  <2>2. client.ws = s /\ Live(client) = {s}
    BY <1>1, <2>1 DEF One
  <2>3. isConnected(o)
    BY <1>2, <1>5, <2>2, SocketAssumption DEF isConnected
  <2>4. client.socket[s].auths = 0
    BY <1>1, <2>1 DEF Authed
  <2>5. /\ a.socket[s].auths = 1
        /\ \A t \in Sockets \ {s} : a.socket[t].auths = client.socket[t].auths
    BY <1>2, <1>5, <1>6, <2>2, <2>3, <2>4
  <2>6. Authed(a)
    BY <1>2, <1>6, <2>1, <2>5 DEF Authed
  <2>7. One(a)
    BY <1>2, <1>6, <1>7, <2>1, <2>2 DEF One
  <2> QED BY <1>6, <2>1, <2>5, <2>6, <2>7 DEF CloseMatches, Told
<1>9. Good(a)
  BY <1>6, <1>7, <1>8 DEF Good, Sound, Wished
<1>10. FewNew(a, Started)
  BY <1>2, <1>6 DEF FewNew, Started
<1>11. PICK m \in emit(a) : client' = Settle(m, s, "resolved")
  BY <1>4
<1>12. Good(m) /\ Kept(a, m)
  BY <1>9, <1>11, EmitGood
<1>13. ~m.hasty => m.socket[s].auths = 1
  BY <1>1, <1>6, <1>7, <1>8, <1>12 DEF Kept, Good, ClientState
<1>14. FewNew(m, Started) /\ Started \in SUBSET Sockets
  BY <1>10, <1>12 DEF Kept, Started
<1> QED BY <1>11, <1>12, <1>13, <1>14, SettleGood

LEMMA ErrorGood ==
  ASSUME NEW m, Good(m), NEW s \in Live(m), NEW n \in OnError(m, s)
  PROVE  /\ Good(n) /\ s \in Live(n) /\ n.timers = m.timers
         /\ \A old \in SUBSET Sockets : FewNew(m, old) => FewNew(n, old)
<1>1. PICK k \in emit(m) :
             n = IF isConnected(k) \/ k.connecting THEN k ELSE Settle(k, s, "rejected")
  BY DEF OnError
<1>2. Good(k) /\ Kept(m, k) /\ s \in Live(k) /\ s \in Sockets
  BY <1>1, EmitGood DEF Kept, Live
<1>3. CASE n = k
  BY <1>2, <1>3 DEF Kept
<1>4. CASE n = Settle(k, s, "rejected")
  BY <1>2, <1>4, SettleGood DEF Kept
<1> QED BY <1>1, <1>3, <1>4

\* The handler of close has told the listeners, who left k.
LEMMA ClosedGood ==
  ASSUME NEW k, Good(k), NEW s \in Live(k), k.timers < MaxTimers,
         NEW old \in SUBSET Sockets, FewNew(k, old)
  PROVE  LET n == [Closed(k) EXCEPT !.socket[s].readyState = "closed"] IN
         /\ Good(n)
         /\ \A t \in Sockets \ old : n.socket[t].readyState = "connecting" => n.wanted
<1> DEFINE c == Closed(k)
           n == [c EXCEPT !.socket[s].readyState = "closed"]
           f == [k.socket EXCEPT ![s].readyState = "closed"]
<1>1. k \in ClientState /\ s \in Sockets /\ k.socket[s].readyState # "closed"
  BY DEF Good, Live
<1>2. /\ f \in [Sockets -> SocketState]
      /\ \A t \in Sockets :
           /\ f[t].readyState = IF t = s THEN "closed" ELSE k.socket[t].readyState
           /\ f[t].auths = k.socket[t].auths /\ f[t].promise = k.socket[t].promise
  BY <1>1 DEF ClientState, SocketState
<1>3. /\ c \in ClientState /\ c.socket = k.socket
      /\ c.ws = NoSocket /\ c.connecting = FALSE /\ c.closedByUser = k.closedByUser
      /\ c.wanted = k.wanted /\ c.hasty = k.hasty
      /\ c.impatient = k.impatient /\ c.unauthed = k.unauthed
      /\ c.timers = k.timers \/ (c.timers = k.timers + 1 /\ ~k.closedByUser)
  <2> DEFINE g == [k EXCEPT !.ws = NoSocket, !.connecting = FALSE]
  <2>1. /\ g \in ClientState /\ g.socket = k.socket
        /\ g.ws = NoSocket /\ g.connecting = FALSE /\ g.closedByUser = k.closedByUser
        /\ g.wanted = k.wanted /\ g.hasty = k.hasty /\ g.timers = k.timers
        /\ g.impatient = k.impatient /\ g.unauthed = k.unauthed
    BY <1>1 DEF ClientState
  <2>2. CASE c = g
    <3> HIDE DEF c, g
    <3> QED BY <2>1, <2>2
  <2>3. CASE /\ ~k.closedByUser /\ g.reconnectAttempts < maxReconnectAttempts
             /\ c = [g EXCEPT !.reconnectAttempts = @ + 1, !.timers = @ + 1]
    <3> HIDE DEF c, g
    <3>1. /\ g.reconnectAttempts + 1 \in 0..maxReconnectAttempts
          /\ g.timers + 1 \in 0..MaxTimers
      BY <2>1, <2>3, AttemptsAssumption DEF ClientState
    <3> QED BY <2>1, <2>3, <3>1 DEF ClientState
  <2> QED BY <2>2, <2>3 DEF Closed, scheduleReconnect
<1> HIDE DEF c
<1>4. n = [c EXCEPT !.socket = f]
  BY <1>3 DEF ClientState
<1> HIDE DEF n, f
<1>5. /\ n \in ClientState /\ n.socket = f
      /\ n.ws = NoSocket /\ n.connecting = FALSE /\ n.closedByUser = k.closedByUser
      /\ n.wanted = k.wanted /\ n.hasty = k.hasty
      /\ n.impatient = k.impatient /\ n.unauthed = k.unauthed
      /\ n.timers = k.timers \/ (n.timers = k.timers + 1 /\ ~k.closedByUser)
  BY <1>2, <1>3, <1>4 DEF ClientState
<1>6. Live(n) = Live(k) \ {s}
  BY <1>1, <1>2, <1>5 DEF Live
<1>7. Sound(n)
  <2> SUFFICES ASSUME ~n.hasty PROVE One(n) /\ Authed(n) /\ CloseMatches(n) /\ Told(n)
    BY DEF Sound
  <2>1. One(k) /\ Authed(k) /\ CloseMatches(k) /\ Told(k)
    BY <1>5 DEF Good, Sound
  <2>2. Live(n) = {} /\ k.timers = 0
    BY <1>1, <1>6, <2>1 DEF One, ClientState
  <2>3. One(n)
    BY <1>5, <2>2 DEF One
  <2>4. Authed(n)
    BY <1>2, <1>5, <2>1 DEF Authed
  <2> QED BY <1>5, <2>1, <2>3, <2>4 DEF CloseMatches, Told
<1>8. Wished(n)
  BY <1>5 DEF Good, Wished
<1>9. \A t \in Sockets \ old : n.socket[t].readyState = "connecting" => n.wanted
  BY <1>2, <1>5 DEF FewNew
<1> QED BY <1>5, <1>7, <1>8, <1>9 DEF Good, n, c

LEMMA CloseGood ==
  ASSUME Good(client), NEW s \in Sockets, CloseFires(s)
  PROVE  /\ Good(client')
         /\ \A t \in Sockets \ Started :
              client'.socket[t].readyState = "connecting" => client'.wanted
<1> DEFINE closing == [client EXCEPT !.socket[s].readyState = "closing"]
<1>1. s \in Live(client) /\ client.timers < MaxTimers
  BY DEF CloseFires
<1>2. /\ Good(closing) /\ s \in Live(closing) /\ closing.timers = client.timers
      /\ FewNew(closing, Started)
  BY <1>1, ClosingGood DEF Started
<1>3. \E n \in OnError(closing, s) \cup {closing} : \E m \in OnClose(n) :
        client' = [m EXCEPT !.socket[s].readyState = "closed"]
  <2>1. PICK failed \in BOOLEAN :
               \E m \in UNION {OnClose(n) : n \in IF failed THEN OnError(closing, s) ELSE {closing}} :
                 client' = [m EXCEPT !.socket[s].readyState = "closed"]
    BY DEF CloseFires
  <2> HIDE DEF closing
  <2>2. PICK m \in UNION {OnClose(n) : n \in IF failed THEN OnError(closing, s) ELSE {closing}} :
               client' = [m EXCEPT !.socket[s].readyState = "closed"]
    BY <2>1
  <2>3. PICK n \in IF failed THEN OnError(closing, s) ELSE {closing} : m \in OnClose(n)
    BY <2>2
  <2> QED BY <2>2, <2>3
<1> HIDE DEF closing
<1>4. PICK n \in OnError(closing, s) \cup {closing} : \E m \in OnClose(n) :
             client' = [m EXCEPT !.socket[s].readyState = "closed"]
  BY <1>3
<1>5. Started \in SUBSET Sockets
  BY DEF Started
<1>6. Good(n) /\ s \in Live(n) /\ n.timers = client.timers /\ FewNew(n, Started)
  <2>1. CASE n = closing
    BY <1>2, <2>1
  <2>2. CASE n \in OnError(closing, s)
    BY <1>2, <1>5, <2>2, ErrorGood
  <2> QED BY <1>4, <2>1, <2>2
<1>7. PICK k \in emit(n) : client' = [Closed(k) EXCEPT !.socket[s].readyState = "closed"]
  BY <1>4 DEF OnClose
<1>8. Good(k) /\ Kept(n, k)
  BY <1>6, <1>7, EmitGood
<1>9. s \in Live(k) /\ k.timers < MaxTimers /\ FewNew(k, Started)
  BY <1>1, <1>5, <1>6, <1>8 DEF Kept
<1> QED BY <1>5, <1>7, <1>8, <1>9, ClosedGood

LEMMA TimerGood ==
  ASSUME Good(client), TimerFires
  PROVE  /\ Good(client')
         /\ \A t \in Sockets \ Started :
              client'.socket[t].readyState = "connecting" => client'.wanted
<1> DEFINE d == [client EXCEPT !.timers = @ - 1]
<1>1. /\ client \in ClientState /\ client.timers > 0 /\ CanConnect(client)
      /\ client' = IF client.closedByUser THEN d ELSE connect(d)
  BY DEF Good, TimerFires
<1> HIDE DEF d
<1>2. /\ d \in ClientState /\ d.socket = client.socket
      /\ d.ws = client.ws /\ d.connecting = client.connecting
      /\ d.closedByUser = client.closedByUser
      /\ d.wanted = client.wanted /\ d.hasty = client.hasty /\ d.timers = client.timers - 1
      /\ d.impatient = client.impatient /\ d.unauthed = client.unauthed
  BY <1>1, AttemptsAssumption DEF d, ClientState
<1>3. Live(d) = Live(client) /\ CanConnect(d)
  BY <1>1, <1>2 DEF Live, CanConnect, ReturnsEarly, isConnected
<1>4. Good(d)
  BY <1>1, <1>2, <1>3 DEF Good, Sound, One, Authed, CloseMatches, Told, Wished, ClientState
<1>5. CASE client.closedByUser
  BY <1>1, <1>2, <1>4, <1>5 DEF Started
<1>6. CASE ~client.closedByUser
  <2> DEFINE n == connect(d)
  <2>1. /\ n \in ClientState /\ ConnectedOrCreated(d, n)
        /\ n.timers = d.timers /\ n.wanted = d.wanted /\ n.hasty = d.hasty
        /\ n.impatient = d.impatient /\ n.unauthed = d.unauthed
    BY <1>2, <1>3, ConnectIs
  <2> HIDE DEF n
  <2>2. client.wanted
    BY <1>1, <1>6 DEF Good, Wished, ClientState
  <2>3. Wished(n)
    BY <1>2, <2>1, <2>2 DEF Wished
  <2>4. ~client.hasty => /\ Live(d) = {} /\ d.timers = 0
                         /\ One(d) /\ Authed(d) /\ CloseMatches(d) /\ Told(d)
    BY <1>1, <1>2, <1>3, <1>4 DEF Good, Sound, One, ClientState
  <2>5. CASE n.socket = d.socket /\ n.ws = d.ws /\ n.closedByUser = FALSE
             /\ (n.connecting = d.connecting \/ n.connecting = FALSE)
    <3>1. Live(n) = Live(d)
      BY <2>5 DEF Live
    <3>2. Sound(n)
      BY <1>2, <2>1, <2>4, <2>5, <3>1 DEF Sound, One, Authed, CloseMatches, Told
    <3> QED BY <1>1, <1>2, <1>6, <2>1, <2>2, <2>3, <3>2 DEF Good, n
  <2>6. CASE /\ n.closedByUser = FALSE
             /\ \E s \in Sockets \ Live(d) :
                  n.ws = s /\ n.connecting = TRUE /\ n.socket = [d.socket EXCEPT ![s] = Fresh]
    <3>1. PICK s \in Sockets \ Live(d) :
                 n.ws = s /\ n.connecting = TRUE /\ n.socket = [d.socket EXCEPT ![s] = Fresh]
      BY <2>6
    <3>2. \A t \in Sockets : n.socket[t] = IF t = s THEN Fresh ELSE d.socket[t]
      BY <1>2, <3>1 DEF ClientState
    <3>3. Live(n) = Live(d) \cup {s}
      BY <3>1, <3>2 DEF Live, Fresh
    <3>4. Sound(n)
      <4> SUFFICES ASSUME ~n.hasty PROVE One(n) /\ Authed(n) /\ CloseMatches(n) /\ Told(n)
        BY DEF Sound
      <4>1. One(n)
        BY <1>2, <2>1, <2>4, <3>1, <3>3 DEF One
      <4>2. Authed(n)
        BY <1>2, <2>1, <2>4, <3>2 DEF Authed, Fresh
      <4> QED BY <1>2, <2>1, <2>4, <2>6, <4>1, <4>2 DEF CloseMatches, Told
    <3> QED BY <1>1, <1>2, <1>6, <2>1, <2>2, <2>3, <3>4 DEF Good, n
  <2>7. d.closedByUser = FALSE
    BY <1>1, <1>2, <1>6 DEF ClientState
  <2> QED BY <2>1, <2>5, <2>6, <2>7 DEF ConnectedOrCreated
<1> QED BY <1>5, <1>6

-----------------------------------------------------------------------------
(* The theorems *)

LEMMA InitGood == Init => Good(client)
<1> SUFFICES ASSUME Init PROVE Good(client)
  OBVIOUS
<1>1. client \in ClientState
  BY AttemptsAssumption DEF Init, ClientState, SocketState
<1>2. /\ Live(client) = {} /\ client.timers = 0 /\ client.ws = NoSocket
      /\ client.connecting = FALSE /\ client.closedByUser = FALSE /\ client.wanted = FALSE
      /\ client.unauthed = FALSE
      /\ \A s \in Sockets : client.socket[s].promise = "none"
                            /\ client.socket[s].readyState = "closed"
  BY DEF Init, Live
<1> QED BY <1>1, <1>2 DEF Good, Sound, Wished, One, Authed, CloseMatches, Told

\* Every task leaves a good state, and constructs a socket only if the program
\* wants one.
LEMMA TaskGood ==
  ASSUME Good(client), Next
  PROVE  /\ Good(client')
         /\ \A t \in Sockets \ Started :
              client'.socket[t].readyState = "connecting" => client'.wanted
<1>1. CASE Program
  BY <1>1, ProgramGood DEF FewNew
<1>2. ASSUME NEW s \in Sockets, OpenFires(s)
      PROVE  /\ Good(client')
             /\ \A t \in Sockets \ Started :
                  client'.socket[t].readyState = "connecting" => client'.wanted
  BY <1>2, OpenGood DEF FewNew
<1>3. ASSUME NEW s \in Sockets, PeerCloses(s)
      PROVE  /\ Good(client')
             /\ \A t \in Sockets \ Started :
                  client'.socket[t].readyState = "connecting" => client'.wanted
  <2>1. s \in Live(client) /\ client' = [client EXCEPT !.socket[s].readyState = "closing"]
    BY <1>3 DEF PeerCloses, Live
  <2> QED BY <2>1, ClosingGood DEF Started, FewNew
<1>4. ASSUME NEW s \in Sockets, CloseFires(s)
      PROVE  /\ Good(client')
             /\ \A t \in Sockets \ Started :
                  client'.socket[t].readyState = "connecting" => client'.wanted
  BY <1>4, CloseGood
<1>5. CASE TimerFires
  BY <1>5, TimerGood
<1> QED BY <1>1, <1>2, <1>3, <1>4, <1>5 DEF Next

LEMMA UsableKept == usable \in BOOLEAN /\ [Next]_vars => usable' \in BOOLEAN
BY DEF Next, vars, Program, OpenFires, PeerCloses, CloseFires, TimerFires

LEMMA AlwaysGood == Spec => [](Good(client) /\ usable \in BOOLEAN)
<1>1. Init => Good(client) /\ usable \in BOOLEAN
  BY InitGood DEF Init
<1>2. Good(client) /\ usable \in BOOLEAN /\ [Next]_vars
        => (Good(client) /\ usable \in BOOLEAN)'
  <2> SUFFICES ASSUME Good(client), usable \in BOOLEAN, [Next]_vars
               PROVE  (Good(client) /\ usable \in BOOLEAN)'
    OBVIOUS
  <2>1. usable' \in BOOLEAN
    BY UsableKept
  <2>2. CASE Next
    BY <2>1, <2>2, TaskGood
  <2>3. CASE UNCHANGED vars
    BY <2>1, <2>3 DEF vars
  <2> QED BY <2>2, <2>3
<1> QED BY <1>1, <1>2, PTL DEF Spec

\* The fields of the client, its sockets and its timers keep their types, and no
\* more reconnections are counted than maxReconnectAttempts.
THEOREM ClientTypeCorrect == Spec => []TypeOK
<1>1. Good(client) /\ usable \in BOOLEAN => TypeOK
  BY DEF Good, TypeOK
<1> QED BY <1>1, AlwaysGood, PTL

\* A program that is not hasty has one socket or one timer at a time, whatever
\* its listeners call in the middle of a handler.
THEOREM OneConnectionAtATime == Spec => []OneConnection
<1>1. Good(client) => OneConnection
  <2> SUFFICES ASSUME Good(client), ~client.hasty
               PROVE  /\ Cardinality(Live(client)) + client.timers <= 1
                      /\ \A s \in Live(client) : client.socket[s].readyState # "closing" =>
                           client.ws = s /\ client.wanted
    BY DEF OneConnection
  <2>1. client \in ClientState /\ One(client) /\ CloseMatches(client) /\ Wished(client)
    BY DEF Good, Sound
  <2>2. Cardinality(Live(client)) + client.timers <= 1
    <3>1. CASE Live(client) = {}
      BY <2>1, <3>1, FS_EmptySet DEF One, ClientState
    <3>2. CASE Live(client) # {}
      <4>1. PICK s \in Live(client) : Live(client) = {s}
        BY <2>1, <3>2 DEF One
      <4>2. Cardinality(Live(client)) = 1
        BY <4>1, FS_Singleton
      <4>3. client.timers = 0
        BY <2>1, <3>2, AttemptsAssumption DEF One, ClientState
      <4> QED BY <4>2, <4>3
    <3> QED BY <3>1, <3>2
  <2>3. ASSUME NEW s \in Live(client), client.socket[s].readyState # "closing"
        PROVE  client.ws = s /\ client.wanted
    <3>1. client.ws = s /\ s # NoSocket
      BY <2>1, <2>3, SocketAssumption DEF One, Live
    <3>2. client.wanted
      BY <2>1, <2>3, <3>1 DEF CloseMatches, Wished
    <3> QED BY <3>1, <3>2
  <2> QED BY <2>2, <2>3
<1> QED BY <1>1, AlwaysGood, PTL

\* For a program that is not hasty the promise of a connect that started an
\* attempt resolves only after the auth message was sent, once, on that socket;
\* and so it is with the promises of its other calls, as long as it makes none of
\* them while an attempt is under way.
THEOREM ResolvedIsAuthed == Spec => []ResolvedMeansAuthed
<1>1. Good(client) => ResolvedMeansAuthed
  BY DEF Good, Sound, Authed, Told, ResolvedMeansAuthed
<1> QED BY <1>1, AlwaysGood, PTL

\* No socket is constructed for a program that called disconnect last, hasty or
\* not.
THEOREM DisconnectFinal == Spec => DisconnectIsFinal
<1>1. Good(client) /\ [Next]_vars =>
        [\A s \in Sockets :
           client.socket[s].readyState # "connecting"
             /\ client'.socket[s].readyState = "connecting" => client'.wanted]_vars
  BY TaskGood DEF Started
<1> QED BY <1>1, AlwaysGood, PTL DEF Spec, DisconnectIsFinal
=============================================================================
