SPECIFICATION DeltaSpec
CONSTANTS
  reader = reader
  public = public
  shared = shared
  secret = secret
  Readers = {reader}
  Public = public
  Granted <- MCGranted
  Containers = {shared, secret}
  Keys = {k1, k2}
  Values = {null, x}
  Null = null
  Absent = absent
  MaxRooms = 2
  MaxCounter <- RoomBounds
  MaxBuffer = 3
SYMMETRY Symmetry
INVARIANTS
  TypeOK
  VersionOrder
  CommitIsTheLoop
  CopyTypeOK
  CatchUpIsComplete
  OnlyGranted
PROPERTIES
  TxIsAtomic
  RefinesVersionedRooms
CHECK_DEADLOCK FALSE
