CONSTANTS
  Beds = {b1, b2}
  Students = {s1, s2}
  Sessions = {y1}
  Allocations = {a1, a2, a3}
  Transfers = {t1}
  Records = {r1}
SPECIFICATION Spec
SYMMETRY Keys
INVARIANTS
  TypeOK
  BedsAgree
PROPERTIES
  HistoryStands
  KeepsPromise
