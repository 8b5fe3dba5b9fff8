SPECIFICATION FairSpec
CONSTANTS
  s1 = s1
  a = a
  b = b
  NoPlan = NoPlan
  Schedules = {s1}
  Files = {a, b}
  Plans <- SomePlans
  MaxRuns = 2
  MaxEvents = 3
INVARIANTS StatusIsTruthful ResultIsHonest
PROPERTIES  ReportsAreDelivered
CHECK_DEADLOCK FALSE
