SPECIFICATION PoolFairSpec
CONSTANTS
  n1 = n1
  n2 = n2
  n3 = n3
  r1 = r1
  r2 = r2
  other = other
  Node = {n1, n2, n3}
  Round = {r1, r2}
  Concurrency = 2
  Lists <- MCLists
  Call <- MCCall
  NodeOf <- MCNodeOf
  MayReject <- MCMayReject
  None = None
INVARIANTS
  PoolTypeOK
  MutualExclusion
  EntryIsRemoved
  RoundCovers
  PoolIsBounded
PROPERTIES
  ImplementsTaskLine
  RoundsEnd
CHECK_DEADLOCK FALSE
