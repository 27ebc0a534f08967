SPECIFICATION FairServerSpec
CONSTANTS
  s1 = s1
  s2 = s2
  public = public
  private = private
  star = star
  Star = star
  Connections = {c1, c2}
  Sessions <- MCSessions
  Public = public
  Granted <- MCGranted
  Containers = {private}
  Keys = {k}
  Values = {null, x}
  Null = null
  Absent = absent
  MaxRooms = 1
  MaxCounter <- RoomBounds
  MaxBuffer = 1
  MaxClients = 1
  MaxPending = 1
  Transactions = FALSE
INVARIANTS
  HubHoldsSessions
  OnlyGrantedReach
  CountersTellTheOrder
  ConnectionsCounted
PROPERTIES
  DroppedSessionsClose
CHECK_DEADLOCK FALSE
