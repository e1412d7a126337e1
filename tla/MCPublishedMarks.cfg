\* One worker, one student, no superuser: the smallest instance that publishes and re-enters.
CONSTANTS
  Workers = {w1}
  Students = {s1}
  Scores = {good}
  Schemes = {k1, k2}
  MaxRevision = 2
  Requests <- StaffRequests
SPECIFICATION Spec
SYMMETRY Keys
CHECK_DEADLOCK FALSE
INVARIANTS PublishedIsImmutable
