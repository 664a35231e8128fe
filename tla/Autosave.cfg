SPECIFICATION Spec
CONSTANTS
  Cell = {c1, c2}
  None = None
  MaxRetries = 1
  MaxRevision = 3
  MaxToken = 2
  MaxLate = 1
  MayValidate = TRUE
SYMMETRY Interchangeable
CHECK_DEADLOCK FALSE
INVARIANTS EditsAreKept SavedIsStored
PROPERTIES ValidationSeesEdits
