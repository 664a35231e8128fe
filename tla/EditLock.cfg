\* Two tabs of one user: the token alone must tell them apart.
CONSTANTS
  s1 = s1
  s2 = s2
  u1 = u1
  u2 = u2
  Session = {s1, s2}
  User = {u1, u2}
  UserOf <- OneUser
  Slot = {r1, r2}
  Token = {t1, t2, t3, t4, t5}
  TTL = 2
  None = None
SPECIFICATION Spec
INVARIANTS
  CheckedEditHoldsLock
PROPERTIES
  HandoverIsJustified
  ImplementsFencedEditing
SYMMETRY Interchangeable
