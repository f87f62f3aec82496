CONSTANTS
  Scale = 20
  TLow = 7
  THigh = 13
  TLock = 18
  NaN = NaN
  Scores <- MCScores
SPECIFICATION Spec
INVARIANT AcceptedScoreInRange
