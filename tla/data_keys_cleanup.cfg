\* One process; the delegated KEK is abandoned once before it is switched to.
SPECIFICATION Spec
CONSTANTS
  None = None
  Instances = {i1}
  KEKs = {A, C}
  Delegated = {C}
  Secrets = {x}
  AuditRows = {y}
  MaxVersion = 2
INVARIANT KeysAtHand
CHECK_DEADLOCK FALSE
