CONSTANTS
  Scale = 20
  TLow = 7
  THigh = 13
  TLock = 18
  NaN = NaN
  Capabilities <- MCCapabilities
  HighThreshold = 13
  Procs = {p1}
  p1 = p1
  Proposals <- SharedProposals
  Faults = {"timeout"}
  MaxCycles = 2
SPECIFICATION Spec
INVARIANTS
  ReleaseTraced
CHECK_DEADLOCK FALSE
