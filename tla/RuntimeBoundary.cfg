CONSTANTS
  Scale = 20
  TLow = 7
  THigh = 15
  TLock = 18
  NaN = NaN
  Capabilities <- MCCapabilities
  HighThreshold = 13
  Procs = {p1,p2}
  p1 = p1
  p2 = p2
  Proposals <- PostureProposals
  Faults = {"crash", "timeout", "audit"}
  MaxCycles = 3
SYMMETRY ProcSymmetry
SPECIFICATION Spec
INVARIANTS
  NoReleaseInLockdown
  StrictUntilRecovery
PROPERTIES
  ImplementsBoundary
CHECK_DEADLOCK FALSE
