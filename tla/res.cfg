\* Periodic runs and one call of the dashboard, with one failure.
CONSTANTS
  cpu = cpu
  root = root
  log = log
  req = req
  w1 = w1
  w2 = w2
  low = low
  high = high
  Standard = {cpu}
  Disks = {root, log}
  Root = root
  Hidden = {}
  Nested = {log}
  Dynamic = {req}
  Order <- AllMetrics
  Thresholds = {low, high}
  SystemDefault <- AllLow
  Workers = {w1}
  Here = TRUE
  Runner = w1
  Customer <- CpuDefault
  MaxTrouble = 1
  Listed = TRUE
  Follows = TRUE
  Deletes = TRUE
  Callers = {"run", "toggle", "bulk", "edit", "add", "events"}
  MaxCalls = 1
  Retaggings <- Retags
  MaxChanges = 1
  StartTags <- Asking
SPECIFICATION Spec
INVARIANTS TypeOK Established Quiet
CHECK_DEADLOCK FALSE
