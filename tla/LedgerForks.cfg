CONSTANTS
  Writers = {w1, w2}
  w1 = w1
  w2 = w2
  Payloads = {x, y}
  x = x
  y = y
  MaxLines = 4
SYMMETRY WriterSymmetry
SPECIFICATION Spec
INVARIANTS
  ChainIntact
CHECK_DEADLOCK FALSE
