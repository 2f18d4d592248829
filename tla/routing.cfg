SPECIFICATION RoutingFairSpec
CONSTANTS
  a1 = a1
  a2 = a2
  src1 = src1
  None = None
  Attempts = {a1, a2}
  Sealers = {}
  Users = {}
  Sources = {src1}
  SourceOf <- OneSource
  Threshold = 1
  MaxBoots = 1
INVARIANTS
  OneLiveGraph
  GateMatchesGraph
PROPERTIES
  LimiterHonoured
  RequestsAnswered
  UnsealingEnds
  CleanupEnds
CHECK_DEADLOCK FALSE
