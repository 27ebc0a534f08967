SPECIFICATION Spec
CONSTANTS
  k1 = k1
  k2 = k2
  k3 = k3
  h1 = h1
  h2 = h2
  public = public
  notes = notes
  NoKey = NoKey
  Issuer = Issuer
  Audience = Audience
  Foreign = Foreign
  Unset = Unset
  Keys <- MCKeys
  ShortKeys <- MCShortKeys
  Containers <- MCContainers
  Public = public
  Handshakes <- MCHandshakes
  jwt_ttl_seconds = 1
  MaxRooms = 2
  MaxTokens = 2
  MaxTime = 2
SYMMETRY Names
INVARIANTS
  TypeOK
  OpensItsRoom
PROPERTIES
  MintedIsAccepted
