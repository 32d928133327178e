SPECIFICATION OpSpec
CONSTANTS
  first = first
  retry = retry
  other = other
  patch = patch
  resent = resent
  k1 = k1
  k2 = k2
  b1 = b1
  b2 = b2
  Client = {}
  Op = {patch, resent}
  Deletion = {}
  ViewerOp = {}
  AppendOp = {patch, resent}
  Patch = {patch, resent}
  Key = {k2}
  KeyOf <- Keys
  Body = {b1, b2}
  BodyOf <- Bodies
  ClaimsMayLapse = FALSE
  Null = Null
  RedisMayFail = FALSE
  DbMayFail = TRUE
  StrayMessages = FALSE
  MaxQueue = 2
  MaxFailures = 1
  MaxCrashes = 0
  MaxSpare = 0
INVARIANTS
  AppendedOnce
CHECK_DEADLOCK FALSE
