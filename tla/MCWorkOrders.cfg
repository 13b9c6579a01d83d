SPECIFICATION Spec
CONSTANTS
  Parts = {"questions", "delegation", "review", "order"}
  r1 = r1
  r2 = r2
SYMMETRY SymmetricProcesses
INVARIANTS  AuthorityHolds OrdersHold
 
CHECK_DEADLOCK FALSE
