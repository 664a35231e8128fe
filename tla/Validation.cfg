SPECIFICATION Spec
CONSTANTS
  Dot = Dot
  None = None
  Bad = {2}
  MaxWrites = 2
  OthersWrite = FALSE
  MaxSteps = 3
INVARIANTS IssuesFitTheRows IssuesAreTheRules ScanIsExact
PROPERTIES SavesAreValidated
CHECK_DEADLOCK FALSE
