SPECIFICATION Spec
CONSTANTS
  c1 = c1
  c2 = c2
  p1 = p1
  p2 = p2
  Connections <- MCConnections
  Peers <- MCPeers
  CommandLimit = 2
  CommandWindow = 1
  AuthLimit = 1
  AuthWindow = 2
  MaxDelay = 1
  MaxTime = 3
  MaxPassed = 3
  MaxRequests = 1
SYMMETRY Names
INVARIANTS
  TypeOK
  ConnectionsLimited
  EveryKeyIsLimited
PROPERTIES
  TurnedAwayForCause
  QuietPeersForgotten
CHECK_DEADLOCK FALSE
