SPECIFICATION BothSpec
CONSTANTS
  v1 = v1
  v2 = v2
  d1 = d1
  d2 = d2
  None = None
  Value = {v1, v2}
  Defs = {d1, d2}
  Allowed <- TwoRegistries
  Slot = {r1, r2}
  MaxAttempts = 3
  MaxMoves = 6
  rule1 = rule1
  Code = {1, 2}
  TypeOf <- NumberAndText
  Limit = {}
  Rule = {rule1}
  Admin = {r1, r2}
  Nothing = Nothing
  Keep = Keep
  MaxVersion = 2
  MaxSteps = 2
SYMMETRY Interchangeable
INVARIANTS
  DecisionsAreCurrent
  AuditChain
  ApprovedIsValid
PROPERTIES ContentFrozen RegistryIsConsistent
