SPECIFICATION Spec
CONSTANTS
  n1 = n1
  n2 = n2
  f1 = f1
  s1 = s1
  s2 = s2
  Node = {n1, n2}
  File = {f1}
  Shown <- ShownFiles
  Sync = {s1, s2}
  Of <- NodeOfSync
  StatementsMayFail = FALSE
  MaxRunning = 2
  MaxEdits = 3
  MaxFailures = 0
INVARIANTS
  OrphanIsUnreferenced
CHECK_DEADLOCK FALSE
