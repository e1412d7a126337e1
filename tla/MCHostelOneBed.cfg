CONSTANTS
  Beds = {b1}
  Students = {s1}
  Sessions = {y1}
  Allocations = {a1, a2}
  Transfers = {t1}
  Records = {r1, r2}
SPECIFICATION FairSpec
PROPERTIES
  LetAfterRecords
  OverdueReleased
