\* Two requests at a time and the hourly comparison, with one failure or death.
CONSTANTS
  k1 = k1
  k2 = k2
  k3 = k3
  a1 = a1
  a2 = a2
  Rows = {k1, k2, k3}
  Accounts = {a1, a2}
  AccountOf <- InRows
  Own = us
  First = k1
  People = {p1, p2}
  Schedule = hourly
  MaxRequests = 2
  MaxFaults = 1
SPECIFICATION FairSpec
PROPERTIES ForwardingConverges LossTold
CHECK_DEADLOCK FALSE
