SPECIFICATION FairSpec
CONSTANTS
  Rows = {r1, r2}
  Bad = {r2}
  Workers = {w1, w2}
  Capacity = 1
  BatchSize = 2
  MaxFaults = 1
  MaxLostAcks = 1
INVARIANTS
  InFlightExact
  StoredOnce
  BadRowsIsolated
  CleanMeansStored
PROPERTIES
  ImplementsFates
  ShutdownEnds
  RowsSettle
CHECK_DEADLOCK FALSE
