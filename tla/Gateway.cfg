SPECIFICATION GwSpec
CONSTANTS
  c1 = c1
  c2 = c2
  user = user
  viewed = viewed
  Client = {c1, c2}
  User = {user}
  UserOf <- Users
  Op = {}
  Deletion = {}
  ViewerOp = {}
  AppendOp = {}
  Null = Null
  RedisMayFail = FALSE
  PresenceMayFail = TRUE
  DbMayFail = TRUE
  StrayMessages = TRUE
  MaxQueue = 1
  MaxFailures = 1
  MaxCrashes = 1
  MaxSpare = 0
SYMMETRY Symmetry
INVARIANTS
  GwTypeOK
  RegisteredIsTracked
  RoomIsServed
  ClosedHasLeft
  ListedIsConnected
  JoinedIsListed
  RoomSeesPresence
CHECK_DEADLOCK FALSE
