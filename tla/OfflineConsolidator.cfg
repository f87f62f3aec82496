CONSTANTS
  Writers = {w1}
  w1 = w1
  Payloads <- MCPayloads
  MaxLines = 3
  Consolidators = {c1, c2}
  c1 = c1
  c2 = c2
  Triggers <- MCTriggers
  MaxJobs = 2
SYMMETRY Interchangeable
SPECIFICATION OfflineSpec
INVARIANTS
  OfflineTypeOK
  SummarisesPrefix
  NotOlderThanAnswered
  AnswerMatchesFile
CHECK_DEADLOCK FALSE
