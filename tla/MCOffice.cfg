\* Two workers at each desk, and the smallest sets that let their requests cross:
\* one cycle with two application types, both open to the programme, one user
\* account and one recipient over every channel.
CONSTANTS
  Workers = {w1, w2}
  Offers = {o1}
  Payments = {p1, p2}
  Sufficient <- MCSufficient
  FeeRequired = TRUE
  MaxDay = 1
  Requests <- RacingRequests
  Applications = {a1}
  Slots = {k1}
  Papers = {r1}
  Users = {u1}
  CycleCount = 1
  TypeCount = 2
  ProgramTypes = {1, 2}
  MaxVersions = 2
  MaxNumber = 1
  Recipients = {"student"}
  Channels = {"app", "email", "sms"}
SPECIFICATION OfficeSpec
SYMMETRY OfficeKeys
CHECK_DEADLOCK FALSE
INVARIANTS TypesOK ReviewedOnlyIfSettled StudentOnlyByOffer TypeWasOffered NotifiedOnce
PROPERTIES ActivatedByDecision ReopenedOnlyByStale
