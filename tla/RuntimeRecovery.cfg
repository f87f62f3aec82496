CONSTANTS
  Scale = 20
  TLow = 7
  THigh = 13
  TLock = 18
  NaN = NaN
  Capabilities <- MCCapabilities
  HighThreshold = 13
  Procs = {p1}
  p1 = p1
  Proposals <- PostureProposals
  Faults = {}
  MaxCycles = 2
SPECIFICATION Spec
INVARIANTS
  LockdownPendingRecovery
CHECK_DEADLOCK FALSE
