SPECIFICATION Spec
CONSTANTS
  v1 = v1
  v2 = v2
  d1 = d1
  d2 = d2
  None = None
  Value = {v1}
  Defs = {d1}
  Allowed <- OneRegistry
  Slot = {r1, r2}
  MaxAttempts = 1
  MaxMoves = 2
INVARIANT ReviewHasPor
