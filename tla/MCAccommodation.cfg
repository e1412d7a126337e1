CONSTANTS
  Students = {s1}
  Apps = {p1, p2}
  Allocations = {a1, a2}
  Fees = {f1, f2}
  Refs = {r1, r2}
  Workers = {w1, w2}
  Due = 5
  Cash = 3
  Policies <- MCPolicies
SPECIFICATION Spec
SYMMETRY Keys
CONSTRAINT Bounds
CHECK_DEADLOCK FALSE
INVARIANTS
  TypeOK
  PaidIsBacked

  
