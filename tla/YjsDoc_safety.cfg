SPECIFICATION Spec
CONSTANTS
  c1 = c1
  c2 = c2
  typed = typed
  more = more
  erased = erased
  viewed = viewed
  appended = appended
  Client = {c1}
  Op = {typed, erased, appended}
  Deletion = {erased}
  ViewerOp = {}
  AppendOp = {appended}
  Null = Null
  RedisMayFail = FALSE
  DbMayFail = TRUE
  StrayMessages = FALSE
  MaxQueue = 2
  MaxFailures = 1
  MaxCrashes = 1
  MaxSpare = 0
INVARIANTS
  TypeOK
  CacheCoversRow
  RecordedVectorIsDurable
  AnsweredAppendIsDurable
  ScheduledEditIsPending
PROPERTIES
  DbNeverRegresses
  EvictedDocWasFlushed
  ImplementsDurableDoc
