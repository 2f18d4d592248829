SPECIFICATION FairSpec
CONSTANTS
  Recordings = {1}
  Graphics = {1}
  Gone = {2}
  BackfillBatch = 1
  MaxGenerations = 2
  MaxAttempts = 2
  MaxMishaps = 1
INVARIANTS
  RecordedIsStored
PROPERTIES
  ImplementsCustody
  RowsSettle
  BackfillCovers
  ExpiredLeaves
CHECK_DEADLOCK FALSE
