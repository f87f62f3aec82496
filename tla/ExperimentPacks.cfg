CONSTANTS
  Scale = 100
  TLow = 35
  THigh = 65
  TLock = 90
  NaN = NaN
  Capabilities <- MCCapabilities
  HighThreshold = 65
  Draws <- MCDraws
  Probes <- MCProbes
  SeedLists <- MCSeedLists
  Breakages <- MCBreakages
  Foreign <- MCForeign
  NoSeed = NoSeed
  JsonSchema = FALSE
  Window = 0
  MaxTime = 1
SPECIFICATION FairPacksSpec
INVARIANTS
  PacksTypeOK
  CleanHandoffBacked
  SupportsWhatWasSeen
  RulesSupport
PROPERTIES
  PacksOnlyGrow
  HandoffEnds
CHECK_DEADLOCK FALSE
