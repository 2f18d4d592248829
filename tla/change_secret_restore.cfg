SPECIFICATION Spec
CONSTANTS
  c1 = c1
  MaxJobs = 2
  Scheduler = Scheduler
  Clickers = {c1}
  Methods = {"append"}
  MaxMishaps = 1
  Free = Free
  None = None
CHECK_DEADLOCK FALSE
PROPERTY FailedLocksNobodyOut
