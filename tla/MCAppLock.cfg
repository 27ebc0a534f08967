SPECIFICATION FairSpec
CONSTANTS
  c1 = c1
  c2 = c2
  s1 = s1
  s2 = s2
  Connections <- MCConnections
  Sessions <- MCSessions
  AuthMessages <- MessageKinds
INVARIANTS
  TypeOK
  AuthNeverAnswered
PROPERTIES
  OneAuthStopsTheServer
  CommandsAnswered
  MalformedAnswered
CHECK_DEADLOCK FALSE
