SPECIFICATION SaveFairSpec
CONSTANTS
  n1 = n1
  n2 = n2
  f1 = f1
  f2 = f2
  s1 = s1
  s2 = s2
  s3 = s3
  Node = {n1, n2}
  File = {f1, f2}
  Shown <- ShownFiles
  Sync = {s1, s2, s3}
  Of <- NodeOfSync
  StatementsMayFail = TRUE
  MaxEdits = 2
  MaxRunning = 2
  MaxFailures = 1
  MaxApiWrites = 1
INVARIANTS
  RowsFollowContent
  NoStatusLagsBehind
  SnapshotIsCurrent
PROPERTIES
  OlderApiWritesSurvive
  RowsCatchUp
CHECK_DEADLOCK FALSE
