\* Settings, forms and deliveries, with the times of the code.
CONSTANTS
  own = own
  everybody = everybody
  repeat = repeat
  renotify = renotify
  Fields = {repeat, renotify}
  Values = {0, 1}
  FromEnv <- EnvPolicy
  Built <- BuiltPolicy
  Dropped = {renotify}
  Windows = {s1}
  Containers = {c1}
  TTL = 2
  MaxClock = 4
  MaxEdits = 3
  MaxFaults = 1
  Ids = {own, everybody}
  Global = {everybody}
  Kinds = {k1}
  People = {p1, p2}
  MaxChannels = 1
  Rank <- ByName
  TypeOf <- OneType
  MaxAttempts = 3
  Timeout = 10
  Backoff <- HalfSeconds
  Gap = 2
  Limit = 55
  Reserve = 30
  MaxNotices = 1
SPECIFICATION Spec
INVARIANTS TypeOK Obeyed Accounted
CHECK_DEADLOCK FALSE
CONSTRAINT Apart
