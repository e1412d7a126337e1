CONSTANTS
  Students = {Ama}
  Workers = {w1, w2}
  Policies <- MCPolicies
  MaxCards = 2
  MaxRequests = 1
SPECIFICATION Spec
SYMMETRY Keys
INVARIANTS TypeOK ReplacedForGood
PROPERTIES ReplacedByLive RevivedOnlyByStale
