CONSTANTS
  Scale = 80
  TLow = 28
  THigh = 52
  TLock = 72
  NaN = NaN
  Scores <- MCScores
  Weights <- MCWeights
  Unit = 2
  Signals <- MCSignals
SPECIFICATION ScoredSpec
INVARIANTS
  TypeOK
  EdgesOutsideBand
PROPERTIES
  ImplementsLatch
  StrictPostureCorroborated
