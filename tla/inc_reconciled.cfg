\* From an incident that is open: its alarms clear or vanish, one fires
\* again, and a router, a tick or a read fails.
CONSTANTS
  Series = {s1, s2}
  People = {}
  Nobody = nobody
  Routers = {r1}
  MaxAttempts = 2
  MaxMembers = 2
  MergeMax = 0
  Grace = 1
  TickRuns = TRUE
  Horizon = 2
  MaxFires = 2
  MaxDeletes = 2
  MaxRenotices = 0
  MaxFaults = 1
SPECIFICATION FairFromOpen
PROPERTIES Reconciled
CHECK_DEADLOCK FALSE
