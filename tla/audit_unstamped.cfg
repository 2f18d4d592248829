SPECIFICATION Spec
CONSTANTS
  Rows = {r1, r2}
  Bad = {}
  Workers = {w1, w2}
  Capacity = 2
  BatchSize = 2
  MaxFaults = 0
  MaxLostAcks = 0
INVARIANTS
  Stamped
CHECK_DEADLOCK FALSE
