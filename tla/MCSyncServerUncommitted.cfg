SPECIFICATION ServerSpec
CONSTANTS
  s1 = s1
  s2 = s2
  public = public
  private = private
  star = star
  Star = star
  Connections = {c1}
  Sessions <- OneSession
  Public = public
  Granted <- MCGranted
  Containers = {public, private}
  Keys = {k}
  Values = {null, x}
  Null = null
  Absent = absent
  MaxRooms = 1
  MaxCounter <- LongRoomBounds
  MaxBuffer = 2
  MaxClients = 1
  MaxPending = 2
  Transactions = TRUE
INVARIANTS
  UpdatesAreApplied
CHECK_DEADLOCK FALSE
