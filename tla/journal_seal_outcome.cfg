SPECIFICATION Spec
CONSTANTS
  Slots = 4
  MaxSeq = 3
  MaxCrashes = 0
  MaxFaults = 0
  MaxRejected = 0
INVARIANTS RecordsReplayed
CHECK_DEADLOCK FALSE
