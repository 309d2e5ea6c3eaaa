\* Two events; any one thing fails; an invocation may take longer than the grace.
CONSTANTS
  Events = {e1, e2}
  GroupWait = 2
  Grace = 1
  StaleMargin = 2
  HandlerTime = 2
  MaxAttempts = 2
  Horizon = 2
  FaultKinds = {"store", "start", "invocation", "execution", "router"}
  MaxFaults = 1
SPECIFICATION FairSpec
INVARIANTS NoOrphan CloseCloses
PROPERTIES FreshNames EventuallyFinal AxisFreed
CHECK_DEADLOCK FALSE
