\* One document and the office at its desk, with the view as the only way in.
CONSTANTS
  Slots = {k1}
  Requests = {r1}
  Workers = {w1}
  MaxVersions = 1
  DirectCalls = FALSE
  Stages = {"submitted", "under_review", "needs_correction", "rejected"}
SPECIFICATION FairSpec
CHECK_DEADLOCK FALSE
PROPERTY
  UploadsAreJudged
