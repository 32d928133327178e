SPECIFICATION OpFairSpec
CONSTANTS
  first = first
  retry = retry
  other = other
  patch = patch
  resent = resent
  k1 = k1
  k2 = k2
  b1 = b1
  b2 = b2
  Client = {}
  Op = {first, retry, other}
  Deletion = {}
  ViewerOp = {}
  AppendOp = {first, retry, other}
  Patch = {}
  Key = {k1}
  KeyOf <- Keys
  Body = {b1, b2}
  BodyOf <- Bodies
  ClaimsMayLapse = FALSE
  Null = Null
  RedisMayFail = TRUE
  DbMayFail = TRUE
  StrayMessages = FALSE
  MaxQueue = 1
  MaxFailures = 1
  MaxCrashes = 1
  MaxSpare = 0
INVARIANTS
  OneSuccessPerKey
  SuccessIsStored
  NeverAppendedTwice
PROPERTIES
  ClaimsEnd
CHECK_DEADLOCK FALSE
