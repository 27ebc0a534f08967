------------------------------- MODULE Tokens -------------------------------
(***************************************************************************)
(* Room tokens: TOKEN.GEN (create_room_token, state.rs), SET.JWTKEY, and   *)
(* the handshake of a websocket session that presents one                  *)
(* (validate_jwt_claims and handle_ws_connection, ws.rs).                  *)
(*                                                                         *)
(* A token says nothing of the room but its id, and it is checked twice,   *)
(* under two guards: its claims, and later that the room exists.  The key  *)
(* may be replaced, the room deleted and others created at any time        *)
(* between minting and the end of the handshake.                           *)
(*                                                                         *)
(* A signature is the key it was made with.  The library that decodes      *)
(* tokens compares issuer and audience when they are configured and the    *)
(* token names them (only exp is required), and lets tokens pass for a     *)
(* minute after they expire; the check of exp in ws.rs does not, and is    *)
(* the one that decides.  Time does not go back.  As in SyncServer the     *)
(* read guard of ws.rs:298 is taken as dropped when the claims are known.  *)
(* The counters of AppState are left out.                                  *)
(***************************************************************************)
EXTENDS Naturals, FiniteSets

CONSTANTS
  Keys, ShortKeys, NoKey,      \* keys, those under 32 bytes, and None
  Issuer, Audience, Foreign,   \* the values configured, and any other
  Unset,                       \* None, for an issuer and audience that are not set
  Containers, Public,
  Handshakes,                  \* the sessions under way
  jwt_ttl_seconds,
  MaxRooms,        \* bound on the rooms ever created
  MaxTokens,       \* bound on the tokens minted
  MaxTime          \* bound on the clock

ASSUME TokenAssumption ==
  /\ jwt_ttl_seconds \in Nat /\ MaxRooms \in Nat /\ MaxTime \in Nat
  /\ Public \in Containers

VARIABLES
  now,             \* SystemTime::now()
  jwt_key, jwt_issuer, jwt_audience,
  rooms,           \* the rooms; history: for each the how-manieth it is
  next_room_id,
  created,         \* history: how many rooms were created
  tokens,          \* the tokens minted; born is history: the room meant
  handshake

configVars == <<jwt_key, jwt_issuer, jwt_audience>>
roomVars == <<rooms, next_room_id, created>>
vars == <<now, configVars, roomVars, tokens, handshake>>

-----------------------------------------------------------------------------
RoomIds == 1..MaxRooms

NotANumber == 0   \* a room claim that is not the number of a room

\* JwtClaims with the key they are signed with; sub is the room it names.
Token ==
  [key : Keys, sub : Nat, room : Nat,
   containers : SUBSET Containers, exp : Nat, iss : {Issuer, Foreign, Unset},
   aud : {Audience, Foreign, Unset}, born : Nat]

\* What another holder of a key may sign: all is in order but one of the claims,
\* or the claims are left out that the check does not require.
ForeignTokens ==
  LET Signed(sub, room, iss, aud) ==
        [key |-> jwt_key, sub |-> sub, room |-> room, containers |-> {},
         exp |-> MaxTime, iss |-> iss, aud |-> aud, born |-> 0] IN
  {Signed(1, 1, Foreign, Audience), Signed(1, 1, Issuer, Foreign), Signed(1, 1, Unset, Unset),
   Signed(1, 2, Issuer, Audience), Signed(NotANumber, NotANumber, Issuer, Audience)}

\* A session has its token from the first guard on; born is history: the room it has the snapshot of.
Idle == [pc |-> "idle"]

Claimed == [pc : {"valid", "invalid_jwt", "room_not_found"}, token : Token]

Opened == [pc : {"open"}, token : Token, born : Nat]

-----------------------------------------------------------------------------
(* Commands *)

\* Mutant of RoomCreate: the lowest id that is free is taken.
RoomCreateLowest ==
  LET id == CHOOSE r \in RoomIds : r \notin DOMAIN rooms /\ \A q \in 1..(r - 1) : q \in DOMAIN rooms IN
  /\ RoomIds # DOMAIN rooms /\ created < MaxRooms
  /\ rooms' = [r \in DOMAIN rooms \cup {id} |-> IF r = id THEN created + 1 ELSE rooms[r]]
  /\ created' = created + 1
  /\ UNCHANGED <<now, configVars, next_room_id, tokens, handshake>>

RoomCreate ==
  /\ next_room_id <= MaxRooms
  /\ rooms' = [r \in DOMAIN rooms \cup {next_room_id} |->
                 IF r = next_room_id THEN created + 1 ELSE rooms[r]]
  /\ next_room_id' = next_room_id + 1
  /\ created' = created + 1
  /\ UNCHANGED <<now, configVars, tokens, handshake>>

RoomDelete(id) ==
  /\ rooms' = [r \in DOMAIN rooms \ {id} |-> rooms[r]]
  /\ UNCHANGED <<now, configVars, next_room_id, created, tokens, handshake>>

\* SET.JWTKEY takes a key of any length.
SetJwtKey(key) ==
  /\ jwt_key' = key
  /\ UNCHANGED <<now, jwt_issuer, jwt_audience, roomVars, tokens, handshake>>

CanMint(id) ==
  /\ jwt_key \notin ShortKeys \cup {NoKey}
  /\ jwt_issuer # Unset /\ jwt_audience # Unset
  /\ id \in DOMAIN rooms

\* Mutant of Minted: the claims iss and aud are swapped.
MintedSwapped(id, containers) ==
  [key |-> jwt_key, sub |-> id, room |-> id, containers |-> containers \cup {Public},
   exp |-> now + jwt_ttl_seconds, iss |-> jwt_audience, aud |-> jwt_issuer,
   born |-> rooms[id]]

\* last_jwt_issue_seconds is None throughout: now is not adjusted.
Minted(id, containers) ==
  [key |-> jwt_key, sub |-> id, room |-> id, containers |-> containers \cup {Public},
   exp |-> now + jwt_ttl_seconds, iss |-> jwt_issuer, aud |-> jwt_audience,
   born |-> rooms[id]]

CreateRoomToken(id, containers) ==
  /\ CanMint(id) /\ Cardinality(tokens) < MaxTokens
  /\ tokens' = tokens \cup {Minted(id, containers)}
  /\ UNCHANGED <<now, configVars, roomVars, handshake>>

-----------------------------------------------------------------------------
(* The handshake *)

Unexpired(token) == token.exp > now

Consistent(token) == token.sub = token.room /\ token.room # NotANumber

ValidClaims(token) ==
  /\ jwt_key # NoKey /\ token.key = jwt_key
  /\ jwt_issuer # Unset => token.iss \in {jwt_issuer, Unset}
  /\ jwt_audience # Unset => token.aud \in {jwt_audience, Unset}
  /\ Unexpired(token)
  /\ Consistent(token)

\* The first guard: the claims are checked.  When they are not valid the session
\* is told so and ends.
ValidateJwtClaims(h, token) ==
  /\ handshake[h] = Idle
  /\ handshake' = [handshake EXCEPT ![h] =
       [pc |-> IF ValidClaims(token) THEN "valid" ELSE "invalid_jwt", token |-> token]]
  /\ UNCHANGED <<now, configVars, roomVars, tokens>>

\* The second guard: the snapshot, or room_not_found.
TakeSnapshot(h) ==
  /\ handshake[h].pc = "valid"
  /\ LET token == handshake[h].token IN
     handshake' = [handshake EXCEPT ![h] =
       IF token.room \in DOMAIN rooms
       THEN [pc |-> "open", token |-> token, born |-> rooms[token.room]]
       ELSE [pc |-> "room_not_found", token |-> token]]
  /\ UNCHANGED <<now, configVars, roomVars, tokens>>

End(h) ==
  /\ handshake[h].pc \in {"invalid_jwt", "room_not_found", "open"}
  /\ handshake' = [handshake EXCEPT ![h] = Idle]
  /\ UNCHANGED <<now, configVars, roomVars, tokens>>

Tick ==
  /\ now < MaxTime
  /\ now' = now + 1
  /\ UNCHANGED <<configVars, roomVars, tokens, handshake>>

\* Issuer, audience and a first key come from the configuration.
Init ==
  /\ now = 0
  /\ jwt_key \in Keys \cup {NoKey}
  /\ jwt_issuer \in {Issuer, Unset}
  /\ jwt_audience \in {Audience, Unset}
  /\ rooms = [r \in {} |-> 0]
  /\ next_room_id = 1
  /\ created = 0
  /\ tokens = {}
  /\ handshake = [h \in Handshakes |-> Idle]

Command ==
  \/ RoomCreate
  \/ \E id \in DOMAIN rooms : RoomDelete(id)
  \/ \E key \in Keys : SetJwtKey(key)
  \/ \E id \in DOMAIN rooms, containers \in SUBSET Containers : CreateRoomToken(id, containers)

Session(h) ==
  \/ \E token \in tokens \cup (IF jwt_key = NoKey THEN {} ELSE ForeignTokens) :
       ValidateJwtClaims(h, token)
  \/ TakeSnapshot(h)
  \/ End(h)

Next == Command \/ Tick \/ \E h \in Handshakes : Session(h)

Spec == Init /\ [][Next]_vars

-----------------------------------------------------------------------------
(* Properties *)

\* The types of the state; the ids of the rooms are handed out in order.
TypeOK ==
  /\ now \in Nat /\ created \in Nat
  /\ jwt_key \in Keys \cup {NoKey}
  /\ jwt_issuer \in {Issuer, Unset} /\ jwt_audience \in {Audience, Unset}
  /\ next_room_id \in 1..(MaxRooms + 1)
  /\ DOMAIN rooms \subseteq 1..(next_room_id - 1)
  /\ \A r \in DOMAIN rooms : rooms[r] \in 1..created
  /\ tokens \subseteq Token
  /\ handshake \in [Handshakes -> {Idle} \cup Claimed \cup Opened]

\* A session opens the room its token was minted for and not another that has
\* come to have the id: however late the token is presented, and whatever is
\* deleted and created between minting, the check of the claims and the snapshot.
\* A token of other making opens a room only if sub names that room as well.
OpensItsRoom ==
  \A h \in Handshakes : handshake[h].pc = "open" =>
    LET token == handshake[h].token IN
    /\ token.sub = token.room
    /\ token \in tokens => handshake[h].born = token.born

\* A token that TOKEN.GEN has handed out is good until it expires, as long as the
\* key is the one it was minted under, whatever keys were set meanwhile and
\* whatever issuer and audience are configured.
MintedIsAccepted ==
  [][\A h \in Handshakes :
       /\ handshake[h] = Idle /\ handshake'[h].pc = "invalid_jwt"
       /\ handshake'[h].token \in tokens
       => \/ handshake'[h].token.key # jwt_key
          \/ handshake'[h].token.exp <= now]_vars
=============================================================================
