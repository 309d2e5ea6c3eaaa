\* Three events and no failure, or two with one failure and one duplicate.
CONSTANTS
  RepeatInterval = 3
  FlapWindow = 0
  FlapLimit = 3
  QuarantineTime = 2
  Severities <- MCSeverities
  ExemptSeverities <- MCExempt
  AutoPause <- MCAutoPause
  Silences <- NoSilences
  MaxRecent = 3
  Events <- AllEvents
  Workers = {w1, w2}
  Finalizers = {f1}
  MaxAttempts = 2
  MarkAttempts = 2
  MaxFaults = 1
  MaxDuplicates = 1
SPECIFICATION MCSpec
INVARIANTS
  IngestInv
  NoAlarmLost
  ClearedOnlyIfTold
PROPERTIES
  AtomicJudgements
  RowStable
  EventuallyRecorded
CHECK_DEADLOCK FALSE
