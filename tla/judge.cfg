\* Up to seven judgements in order, or four in any order.
CONSTANTS
  RepeatInterval = 3
  FlapWindow = 4
  FlapLimit = 3
  QuarantineTime = 4
  Severities <- MCSeverities
  ExemptSeverities <- MCExempt
  AutoPause <- MCAutoPause
  Silences <- MCSilences
  MaxRecent = 3
  Events <- MCEvents
  Times = {1, 2, 3, 4, 5, 6, 7, 8}
  FewTimes = {1, 2, 4}
  MaxLog = 7
  MaxAnyLog = 4
SPECIFICATION MCSpec
INVARIANTS
  RateLimited
  FlappingContained
  QuarantineServed
  DedupCovered
  ClearNoticePaired
  RedeliveryIdempotent
CHECK_DEADLOCK FALSE
