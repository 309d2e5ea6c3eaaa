\* Runs, jobs of one region and toggles, with one failure.
CONSTANTS
  r1 = r1
  r2 = r2
  ours = ours
  seoul = seoul
  oregon = oregon
  east = east
  w1 = w1
  w2 = w2
  Resources = {r1, r2}
  Accounts = {ours}
  Regions = {seoul, oregon, east}
  AccountOf <- Owner
  RegionOf <- Place
  Home = ours
  Registered <- Record
  DefaultRegions = {seoul}
  East = east
  Scopes = {{seoul}, {oregon}}
  Lenient = {r1}
  Global = {r1}
  Lazy = {r2}
  Workers = {w1, w2}
  Runner = w1
  MaxTrouble = 1
  MaxChanges = 1
  MaxCalls = 1
SPECIFICATION FairSpec
INVARIANTS TypeOK NotWiped
CHECK_DEADLOCK FALSE
PROPERTIES AlarmJobConfined TableConverges JobsEnd
