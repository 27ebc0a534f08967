---------------------------- MODULE TokensProofs ----------------------------
(***************************************************************************)
(* Tokens open the rooms they were minted for, for any keys, containers,   *)
(* sessions and rooms.  Ids are handed out in order and never again, so    *)
(* the id of a room is its number in the order of creation: a token that   *)
(* names an id names one room for good, and whoever finds a room under     *)
(* that id, however late, finds that one.                                  *)
(***************************************************************************)
EXTENDS Tokens, TLAPS

\* The id of a room says which room it is.
IdsAreBirths ==
  /\ next_room_id = created + 1
  /\ \A r \in DOMAIN rooms : rooms[r] = r

\* What TOKEN.GEN puts into a token that validation asks for.
MintedWell ==
  \A token \in tokens :
    /\ token.key # NoKey
    /\ token.iss = jwt_issuer /\ token.aud = jwt_audience
    /\ Consistent(token)
    /\ token.born = token.room

\* The claims of a token that was found valid agree, and the snapshot is of the
\* room they name.
HandshakesAgree ==
  \A h \in Handshakes :
    /\ handshake[h].pc = "valid" => Consistent(handshake[h].token)
    /\ handshake[h].pc = "open" =>
         /\ Consistent(handshake[h].token)
         /\ handshake[h].born = handshake[h].token.room

TokensInv == TypeOK /\ IdsAreBirths /\ MintedWell /\ HandshakesAgree

-----------------------------------------------------------------------------
(* Types *)

LEMMA ForeignType ==
  ASSUME TypeOK, jwt_key # NoKey
  PROVE  ForeignTokens \subseteq Token
BY TokenAssumption DEF TypeOK, ForeignTokens, Token, NotANumber

LEMMA MintedType ==
  ASSUME TypeOK, NEW id \in DOMAIN rooms, NEW containers \in SUBSET Containers, CanMint(id)
  PROVE  Minted(id, containers) \in Token
<1>1. id \in Nat /\ rooms[id] \in Nat /\ now + jwt_ttl_seconds \in Nat
  BY TokenAssumption DEF TypeOK
<1>2. jwt_key \in Keys /\ jwt_issuer = Issuer /\ jwt_audience = Audience
  BY DEF TypeOK, CanMint
<1>3. containers \cup {Public} \in SUBSET Containers
  BY TokenAssumption
<1> QED BY <1>1, <1>2, <1>3 DEF Minted, Token

LEMMA InitType == Init => TypeOK
BY TokenAssumption DEF Init, TypeOK, Idle

LEMMA NextType == TypeOK /\ [Next]_vars => TypeOK'
<1> SUFFICES ASSUME TypeOK, [Next]_vars PROVE TypeOK'
  OBVIOUS
<1> USE DEF configVars, roomVars
<1>1. CASE RoomCreate
  <2>1. next_room_id \in 1..MaxRooms /\ created \in Nat
    BY <1>1, TokenAssumption DEF RoomCreate, TypeOK
  <2>2. DOMAIN rooms' = DOMAIN rooms \cup {next_room_id}
    BY <1>1 DEF RoomCreate
  <2>3. \A r \in DOMAIN rooms' : rooms'[r] \in 1..created'
    BY <1>1, <2>1 DEF RoomCreate, TypeOK
  <2>4. next_room_id' \in 1..(MaxRooms + 1) /\ DOMAIN rooms' \subseteq 1..(next_room_id' - 1)
    BY <1>1, <2>1, <2>2, TokenAssumption DEF RoomCreate, TypeOK
  <2> QED BY <1>1, <2>1, <2>3, <2>4 DEF RoomCreate, TypeOK
<1>2. ASSUME NEW id \in DOMAIN rooms, RoomDelete(id) PROVE TypeOK'
  BY <1>2 DEF RoomDelete, TypeOK
<1>3. ASSUME NEW key \in Keys, SetJwtKey(key) PROVE TypeOK'
  BY <1>3 DEF SetJwtKey, TypeOK
<1>4. ASSUME NEW id \in DOMAIN rooms, NEW containers \in SUBSET Containers,
             CreateRoomToken(id, containers)
      PROVE  TypeOK'
  <2>1. tokens' \subseteq Token
    BY <1>4, MintedType DEF CreateRoomToken, TypeOK
  <2> QED BY <1>4, <2>1 DEF CreateRoomToken, TypeOK
<1>5. CASE Tick
  BY <1>5 DEF Tick, TypeOK
<1>6. ASSUME NEW h \in Handshakes, Session(h) PROVE TypeOK'
  <2>1. /\ UNCHANGED <<now, configVars, roomVars, tokens>>
        /\ \E next \in {Idle} \cup Claimed \cup Opened :
             handshake' = [handshake EXCEPT ![h] = next]
    <3>1. ASSUME NEW token \in tokens \cup (IF jwt_key = NoKey THEN {} ELSE ForeignTokens),
                 ValidateJwtClaims(h, token)
          PROVE  \E next \in Claimed : handshake' = [handshake EXCEPT ![h] = next]
      <4>1. token \in Token
        BY <3>1, ForeignType DEF TypeOK
      <4> DEFINE next == [pc |-> IF ValidClaims(token) THEN "valid" ELSE "invalid_jwt",
                          token |-> token]
      <4>2. next \in Claimed
        BY <4>1 DEF Claimed
      <4>3. handshake' = [handshake EXCEPT ![h] = next]
        BY <3>1 DEF ValidateJwtClaims
      <4> QED BY <4>2, <4>3
    <3>2. CASE TakeSnapshot(h)
      <4>1. handshake[h] \in Claimed
        BY <3>2 DEF TakeSnapshot, TypeOK, Idle, Opened
      <4>2. handshake[h].token \in Token
        BY <4>1 DEF Claimed
      <4>3. \A r \in DOMAIN rooms : rooms[r] \in Nat
        BY DEF TypeOK
      <4> QED BY <3>2, <4>2, <4>3 DEF TakeSnapshot, Claimed, Opened
    <3> QED BY <1>6, <3>1, <3>2 DEF Session, End, ValidateJwtClaims, TakeSnapshot
  <2> QED BY <2>1 DEF TypeOK
<1>7. CASE UNCHANGED vars
  BY <1>7 DEF vars, TypeOK
<1> QED BY <1>1, <1>2, <1>3, <1>4, <1>5, <1>6, <1>7 DEF Next, Command

-----------------------------------------------------------------------------
(* The invariant *)

LEMMA InitInv == Init => TokensInv
<1> SUFFICES ASSUME Init PROVE TokensInv
  OBVIOUS
<1>1. DOMAIN rooms = {} /\ next_room_id = created + 1 /\ tokens = {}
  BY DEF Init
<1>2. \A h \in Handshakes : handshake[h].pc = "idle"
  BY DEF Init, Idle
<1> QED BY <1>1, <1>2, InitType DEF TokensInv, IdsAreBirths, MintedWell, HandshakesAgree

LEMMA MintedIsWell ==
  ASSUME TypeOK, IdsAreBirths, NEW id \in DOMAIN rooms,
         NEW containers \in SUBSET Containers, CanMint(id)
  PROVE  LET token == Minted(id, containers) IN
         /\ token.key # NoKey
         /\ token.iss = jwt_issuer /\ token.aud = jwt_audience
         /\ Consistent(token)
         /\ token.born = token.room
<1>1. rooms[id] = id /\ id # NotANumber
  BY DEF TypeOK, IdsAreBirths, NotANumber
<1> QED BY <1>1 DEF Minted, CanMint, Consistent

LEMMA SessionKeeps ==
  ASSUME TokensInv, NEW h \in Handshakes, Session(h)
  PROVE  HandshakesAgree'
<1> SUFFICES ASSUME NEW g \in Handshakes
             PROVE  /\ handshake'[g].pc = "valid" => Consistent(handshake'[g].token)
                    /\ handshake'[g].pc = "open" =>
                         /\ Consistent(handshake'[g].token)
                         /\ handshake'[g].born = handshake'[g].token.room
  BY DEF HandshakesAgree, Consistent
<1>1. CASE g # h \/ UNCHANGED handshake
  <2>1. handshake'[g] = handshake[g]
    BY <1>1 DEF Session, ValidateJwtClaims, TakeSnapshot, End, TokensInv, TypeOK
  <2> QED BY <2>1 DEF TokensInv, HandshakesAgree
<1>2. ASSUME g = h, NEW token, ValidateJwtClaims(h, token)
      PROVE  /\ handshake'[h].pc # "open"
             /\ handshake'[h].pc = "valid" => Consistent(handshake'[h].token)
  <2>1. handshake'[h] = [pc |-> IF ValidClaims(token) THEN "valid" ELSE "invalid_jwt",
                         token |-> token]
    BY <1>2 DEF ValidateJwtClaims, TokensInv, TypeOK
  <2> QED BY <2>1 DEF ValidClaims
<1>3. CASE g = h /\ TakeSnapshot(h)
  <2> DEFINE token == handshake[h].token
  <2>1. handshake'[h] = IF token.room \in DOMAIN rooms
                        THEN [pc |-> "open", token |-> token, born |-> rooms[token.room]]
                        ELSE [pc |-> "room_not_found", token |-> token]
    BY <1>3 DEF TakeSnapshot, TokensInv, TypeOK
  <2>2. Consistent(token)
    BY <1>3 DEF TakeSnapshot, TokensInv, HandshakesAgree
  <2>3. token.room \in DOMAIN rooms => rooms[token.room] = token.room
    BY DEF TokensInv, IdsAreBirths
  <2> HIDE DEF token
  <2> QED BY <1>3, <2>1, <2>2, <2>3
<1>4. CASE g = h /\ End(h)
  <2>1. handshake'[h].pc = "idle"
    BY <1>4 DEF End, TokensInv, TypeOK, Idle
  <2> QED BY <1>4, <2>1
<1> QED BY <1>1, <1>2, <1>3, <1>4 DEF Session

LEMMA NextInv == TokensInv /\ [Next]_vars => TokensInv'
<1> SUFFICES ASSUME TokensInv, [Next]_vars PROVE TokensInv'
  OBVIOUS
<1> USE DEF configVars, roomVars
<1>1. TypeOK'
  BY NextType DEF TokensInv
<1>2. ASSUME UNCHANGED <<rooms, next_room_id, created>> PROVE IdsAreBirths'
  BY <1>2 DEF TokensInv, IdsAreBirths
<1>3. ASSUME UNCHANGED <<tokens, jwt_issuer, jwt_audience>> PROVE MintedWell'
  BY <1>3 DEF TokensInv, MintedWell, Consistent
<1>4. ASSUME UNCHANGED handshake PROVE HandshakesAgree'
  BY <1>4 DEF TokensInv, HandshakesAgree, Consistent
<1>5. CASE RoomCreate
  <2>1. next_room_id = created + 1 /\ created \in Nat
    BY DEF TokensInv, TypeOK, IdsAreBirths
  <2>2. IdsAreBirths'
    BY <1>5, <2>1 DEF RoomCreate, TokensInv, IdsAreBirths
  <2> QED BY <1>1, <1>3, <1>4, <1>5, <2>2 DEF RoomCreate, TokensInv
<1>6. ASSUME NEW id \in DOMAIN rooms, RoomDelete(id) PROVE TokensInv'
  <2>1. IdsAreBirths'
    BY <1>6 DEF RoomDelete, TokensInv, IdsAreBirths
  <2> QED BY <1>1, <1>3, <1>4, <1>6, <2>1 DEF RoomDelete, TokensInv
<1>7. ASSUME NEW id \in DOMAIN rooms, NEW containers \in SUBSET Containers,
             CreateRoomToken(id, containers)
      PROVE  TokensInv'
  <2>1. MintedWell'
    <3> SUFFICES ASSUME NEW token \in tokens'
                 PROVE  /\ token.key # NoKey
                        /\ token.iss = jwt_issuer /\ token.aud = jwt_audience
                        /\ Consistent(token)
                        /\ token.born = token.room
      BY <1>7 DEF CreateRoomToken, MintedWell, Consistent
    <3>1. CASE token \in tokens
      BY <3>1 DEF TokensInv, MintedWell
    <3>2. CASE token = Minted(id, containers)
      BY <1>7, <3>2, MintedIsWell DEF CreateRoomToken, TokensInv
    <3> QED BY <1>7, <3>1, <3>2 DEF CreateRoomToken
  <2> QED BY <1>1, <1>2, <1>4, <1>7, <2>1 DEF CreateRoomToken, TokensInv
<1>8. ASSUME NEW h \in Handshakes, Session(h) PROVE TokensInv'
  <2>1. UNCHANGED <<rooms, next_room_id, created, tokens, jwt_issuer, jwt_audience>>
    BY <1>8 DEF Session, ValidateJwtClaims, TakeSnapshot, End
  <2> QED BY <1>1, <1>2, <1>3, <1>8, <2>1, SessionKeeps DEF TokensInv
<1>9. ASSUME (\E key \in Keys : SetJwtKey(key)) \/ Tick \/ UNCHANGED vars PROVE TokensInv'
  <2>1. UNCHANGED <<rooms, next_room_id, created, tokens, jwt_issuer, jwt_audience, handshake>>
    BY <1>9 DEF SetJwtKey, Tick, vars
  <2> QED BY <1>1, <1>2, <1>3, <1>4, <2>1 DEF TokensInv
<1> QED BY <1>5, <1>6, <1>7, <1>8, <1>9 DEF Next, Command

-----------------------------------------------------------------------------
(* Theorems *)

\* The types of the state; ids of rooms are handed out in order.
THEOREM TokensTypeCorrect == Spec => []TypeOK
BY InitType, NextType, PTL DEF Spec

\* A session has the snapshot of the room its token was minted for, however late
\* it comes.
THEOREM TokensOpenTheirRooms == Spec => []OpensItsRoom
<1>1. TokensInv => OpensItsRoom
  <2> SUFFICES ASSUME TokensInv, NEW h \in Handshakes, handshake[h].pc = "open"
               PROVE  LET token == handshake[h].token IN
                      /\ token.sub = token.room
                      /\ token \in tokens => handshake[h].born = token.born
    BY DEF OpensItsRoom
  <2>1. Consistent(handshake[h].token) /\ handshake[h].born = handshake[h].token.room
    BY DEF TokensInv, HandshakesAgree
  <2>2. handshake[h].token \in tokens => handshake[h].token.born = handshake[h].token.room
    BY DEF TokensInv, MintedWell
  <2> QED BY <2>1, <2>2 DEF Consistent
<1> QED BY <1>1, InitInv, NextInv, PTL DEF Spec

\* A token that was handed out is refused only when its key is not the one in
\* use any more or its time is over.
THEOREM TokensAreAccepted == Spec => MintedIsAccepted
<1>1. TokensInv /\ [Next]_vars =>
        [\A h \in Handshakes :
           /\ handshake[h] = Idle /\ handshake'[h].pc = "invalid_jwt"
           /\ handshake'[h].token \in tokens
           => \/ handshake'[h].token.key # jwt_key
              \/ handshake'[h].token.exp <= now]_vars
  <2> SUFFICES ASSUME TokensInv, Next, NEW h \in Handshakes,
                      handshake[h] = Idle, handshake'[h].pc = "invalid_jwt",
                      handshake'[h].token \in tokens
               PROVE  \/ handshake'[h].token.key # jwt_key
                      \/ handshake'[h].token.exp <= now
    OBVIOUS
  <2>1. handshake[h].pc = "idle"
    BY DEF Idle
  <2>2. handshake'[h] # handshake[h]
    BY <2>1
  <2>3. PICK token : ValidateJwtClaims(h, token)
    <3>1. \E g \in Handshakes : Session(g)
      BY <2>2 DEF Next, Command, RoomCreate, RoomDelete, SetJwtKey, CreateRoomToken, Tick
    <3>2. Session(h)
      BY <2>2, <3>1 DEF Session, ValidateJwtClaims, TakeSnapshot, End, TokensInv, TypeOK
    <3> QED BY <2>1, <3>2 DEF Session, TakeSnapshot, End
  <2>4. ~ValidClaims(token) /\ handshake'[h].token = token
    <3>1. handshake'[h] = [pc |-> IF ValidClaims(token) THEN "valid" ELSE "invalid_jwt",
                           token |-> token]
      BY <2>3 DEF ValidateJwtClaims, TokensInv, TypeOK
    <3> QED BY <3>1
  <2>5. /\ token.key # NoKey /\ token.iss = jwt_issuer /\ token.aud = jwt_audience
        /\ Consistent(token)
    BY <2>4 DEF TokensInv, MintedWell
  <2>6. token.exp \in Nat /\ now \in Nat
    BY <2>4 DEF TokensInv, TypeOK, Token
  <2> QED BY <2>4, <2>5, <2>6 DEF ValidClaims, Unexpired
<1> QED BY <1>1, InitInv, NextInv, PTL DEF Spec, MintedIsAccepted
=============================================================================
