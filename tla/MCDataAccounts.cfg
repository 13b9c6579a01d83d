SPECIFICATION Spec
CONSTANTS
  Parts = {"keys", "rates", "admins", "members", "write", "oauth"}
  a1 = a1
  a2 = a2
  r1 = r1
  r2 = r2
  r3 = r3
  u1 = u1
  u2 = u2
  d1 = d1
  d2 = d2
  none = none
SYMMETRY SymmetricUsers
INVARIANTS AccountsHold  
CHECK_DEADLOCK FALSE
