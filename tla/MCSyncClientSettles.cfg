SPECIFICATION FairSpec
CONSTANTS
  s1 = s1
  s2 = s2
  s3 = s3
  NoSocket = NoSocket
  Sockets <- MCSockets
  maxReconnectAttempts = 2
  autoReconnect = TRUE
  MaxTimers = 3
PROPERTIES
  ConnectSettles
CHECK_DEADLOCK FALSE
