\* Two events, nothing fails: an invocation may take longer than the grace.
CONSTANTS
  Events = {e1, e2}
  GroupWait = 2
  Grace = 1
  StaleMargin = 2
  HandlerTime = 2
  MaxAttempts = 2
  Horizon = 2
  FaultKinds = {}
  MaxFaults = 0
SPECIFICATION Spec
INVARIANTS NoGap
CHECK_DEADLOCK FALSE
