CONSTANTS
  Workers = {w1, w2}
  Offers = {o1}
  Payments = {p1}
  Sufficient <- MCSufficient
  FeeRequired = TRUE
  MaxDay = 0
  Requests <- RacingRequests
SPECIFICATION Spec
CHECK_DEADLOCK FALSE
PROPERTIES ClosedForGood
