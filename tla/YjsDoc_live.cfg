SPECIFICATION FairSpec
CONSTANTS
  c1 = c1
  c2 = c2
  typed = typed
  more = more
  erased = erased
  viewed = viewed
  appended = appended
  Client = {c1}
  Op = {viewed, appended}
  Deletion = {}
  ViewerOp = {viewed}
  AppendOp = {appended}
  Null = Null
  RedisMayFail = TRUE
  DbMayFail = TRUE
  StrayMessages = TRUE
  MaxQueue = 2
  MaxFailures = 1
  MaxCrashes = 0
  MaxSpare = 1
PROPERTIES
  OpenDocStays
  InsertsReachDb
  AppendsAreAnswered
  GoneDocIsDropped
  EmptyDocIsEvicted
