SPECIFICATION Spec
CONSTANTS
  LateAnswers = FALSE
  MaxSteps = 7
INVARIANT KeptLockIsRenewed
CHECK_DEADLOCK FALSE
