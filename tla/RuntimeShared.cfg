CONSTANTS
  Scale = 20
  TLow = 7
  THigh = 13
  TLock = 18
  NaN = NaN
  Capabilities <- MCCapabilities
  HighThreshold = 13
  Procs = {p1,p2}
  p1 = p1
  p2 = p2
  Proposals <- SharedProposals
  Faults = {"crash", "timeout", "tear", "audit"}
  MaxCycles = 3
SPECIFICATION FairSpec
INVARIANTS
  TypeOK
  TraceFaithful
  AnswerDurable
  Links
  ForkIsTheOnlyBreak
PROPERTIES
  UsesLedger
  AppendOnly
  DamageIsPermanent
  Answered
CHECK_DEADLOCK FALSE
