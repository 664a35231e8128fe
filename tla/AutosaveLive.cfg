SPECIFICATION FairSpec
CONSTANTS
  Cell = {c1, c2}
  None = None
  MaxRetries = 1
  MaxRevision = 2
  MaxToken = 2
  MaxLate = 0
  MayValidate = TRUE
CHECK_DEADLOCK FALSE
PROPERTIES StoredInOrder WorkComesToAnEnd
