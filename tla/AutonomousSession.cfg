CONSTANTS
  Scale = 20
  TLow = 7
  THigh = 13
  TLock = 18
  NaN = NaN
  Capabilities <- MCCapabilities
  HighThreshold = 13
  Procs = {p1,p2}
  p1 = p1
  p2 = p2
  Proposals <- MCProposals
  Faults = {"crash", "timeout", "tear", "audit"}
  MaxCycles = 4
  Calls <- MCCalls
  BiasUnit = 12
  MaxSessions = 2
  MemoryTears = TRUE
SPECIFICATION FairSessionSpec
INVARIANTS
  SessionTypeOK
  WithinLimits
  StopsForItsReason
  MemoryMatchesLedger
  TornMemoryStops
  ReleasesWithoutConsent
  SelectsNearBest
PROPERTIES
  SessionEnds
CHECK_DEADLOCK FALSE
