CONSTANTS
  Scale = 20
  TLow = 7
  THigh = 13
  TLock = 18
  NaN = NaN
  Capabilities <- MCCapabilities
  HighThreshold = 13
  Requests <- MCRequests
  MaxCalls = 2
  MaxTime = 1
SPECIFICATION Spec
INVARIANTS
  TypeOK
  PostureMonotone
  ConsentBinds
  AllowsExactlyReleasable
CHECK_DEADLOCK FALSE
