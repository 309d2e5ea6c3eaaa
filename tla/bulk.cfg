\* A request of three resources, or of one twice, and anything that fails.
CONSTANTS
  a = a
  b = b
  c = c
  Resources = {a, b, c}
  Requests <- SomeRequests
  BatchSize = 2
  MaxReceive = 2
  TroubleKinds = {"again", "update", "stale", "api", "worker"}
SPECIFICATION FairSpec
INVARIANTS Conserved Truthful
PROPERTIES Finishes
CHECK_DEADLOCK FALSE
