SPECIFICATION FairSpec
CONSTANTS
  c1 = c1
  c2 = c2
  s1 = s1
  s2 = s2
  Connections <- MCConnections
  Sessions <- MCSessions
  AuthMessages <- MessageKinds
PROPERTIES
  FirstMessagesAnswered
CHECK_DEADLOCK FALSE
