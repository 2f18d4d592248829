SPECIFICATION Spec
CONSTANTS
  Users = {u1, u2, u3}
  Sealers = {s1, s2}
  Releasers = {r1}
INVARIANTS
  SignalExact
  NoWipeUnderBorrow
PROPERTIES
  ImplementsLease
CHECK_DEADLOCK FALSE
