SPECIFICATION FairSpec
CONSTANTS
  a1 = a1
  a2 = a2
  src1 = src1
  None = None
  Attempts = {a1, a2}
  Sealers = {s1}
  Users = {u1}
  Sources = {src1}
  SourceOf <- OneSource
  Threshold = 2
  MaxBoots = 1
INVARIANTS
  HolderOwnsNode
  WriteAhead
  OneOutcome
PROPERTIES
  ZombiesAreHarmless
  GatesLend
  ImplementsTable
  SealEnds
CHECK_DEADLOCK FALSE
