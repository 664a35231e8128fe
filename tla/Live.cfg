SPECIFICATION Spec
CONSTANTS
  t1 = t1
  t2 = t2
  t3 = t3
  t4 = t4
  u1 = u1
  u2 = u2
  v1 = v1
  d1 = d1
  r1 = r1
  r2 = r2
  None = None
PROPERTIES OrphanedLockRunsOut RequestsAreAnswered
CHECK_DEADLOCK FALSE
