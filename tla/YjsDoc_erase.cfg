SPECIFICATION Spec
CONSTANTS
  c1 = c1
  c2 = c2
  typed = typed
  more = more
  erased = erased
  viewed = viewed
  appended = appended
  Client = {c1}
  Op = {typed, erased}
  Deletion = {erased}
  ViewerOp = {}
  AppendOp = {}
  Null = Null
  RedisMayFail = FALSE
  DbMayFail = FALSE
  StrayMessages = FALSE
  MaxQueue = 2
  MaxFailures = 0
  MaxCrashes = 0
  MaxSpare = 0
INVARIANTS
  SkipOnlyWhenStored
