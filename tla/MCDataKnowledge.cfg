SPECIFICATION Spec
CONSTANTS
  Parts = {"facts", "index", "ask", "digest"}
  a1 = a1
  a2 = a2
  r1 = r1
  r2 = r2
  r3 = r3
  u1 = u1
  u2 = u2
  d1 = d1
  d2 = d2
  none = none
SYMMETRY SymmetricDocuments
INVARIANTS FactsHold IndexHolds AskHolds
CHECK_DEADLOCK FALSE
