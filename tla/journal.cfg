SPECIFICATION FairSpec
CONSTANTS
  Slots = 3
  MaxSeq = 2
  MaxCrashes = 2
  MaxFaults = 1
  MaxRejected = 1
INVARIANTS
  HeaderDurable
  AckedSurvives
  NumbersFresh
  AttemptsReplayed
  NothingUncounted
  RejectedOnce
PROPERTIES
  FaultClears
CHECK_DEADLOCK FALSE
