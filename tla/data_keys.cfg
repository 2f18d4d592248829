\* Two processes, one local and one delegated KEK, one encrypted column, two
\* versions of each key.
SPECIFICATION Spec
CONSTANTS
  None = None
  Instances = {i1, i2}
  KEKs = {A, C}
  Delegated = {C}
  Secrets = {x}
  AuditRows = {}
  MaxVersion = 2
SYMMETRY Alike
INVARIANTS
  Bootable
PROPERTIES
  ImplementsRing
CHECK_DEADLOCK FALSE
