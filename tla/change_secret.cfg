SPECIFICATION FairSpec
CONSTANTS
  c1 = c1
  MaxJobs = 2
  Scheduler = Scheduler
  Clickers = {c1}
  Methods = {"password", "append"}
  MaxMishaps = 1
  Free = Free
  None = None
CHECK_DEADLOCK FALSE
INVARIANTS
  NeverLockedOut
PROPERTIES
  ImplementsVault
  LateCommit
