\* Two routers, a person and the tick on the incidents of one axis.
CONSTANTS
  Series = {s1, s2}
  People = {p1}
  Nobody = nobody
  Routers = {r1, r2}
  MaxAttempts = 2
  MaxMembers = 2
  MergeMax = 1
  Grace = 0
  TickRuns = TRUE
  Horizon = 1
  MaxFires = 2
  MaxDeletes = 0
  MaxRenotices = 1
  MaxFaults = 0
SPECIFICATION Spec
SYMMETRY Symmetric
INVARIANTS TypeOK Covered
PROPERTIES OneLife
CHECK_DEADLOCK FALSE
