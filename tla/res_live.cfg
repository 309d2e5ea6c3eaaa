\* The periodic run overlaps the remediation handler, with one failure, or a
\* second run or a call of the dashboard.
CONSTANTS
  cpu = cpu
  root = root
  log = log
  req = req
  w1 = w1
  w2 = w2
  low = low
  high = high
  Standard = {cpu}
  Disks = {}
  Root = root
  Hidden = {}
  Nested = {}
  Dynamic = {}
  Order <- CpuOnly
  Thresholds = {low, high}
  SystemDefault <- AllLow
  Workers = {w1, w2}
  Here = TRUE
  Runner = w1
  Customer <- CpuDefault
  MaxTrouble = 1
  Listed = TRUE
  Follows = TRUE
  Deletes = TRUE
  Callers = {"run", "toggle", "bulk", "edit", "events"}
  MaxCalls = 1
  Retaggings <- CpuRetags
  MaxChanges = 1
  StartTags <- Untagged
SPECIFICATION LiveSpec
PROPERTIES Converges
CHECK_DEADLOCK FALSE
