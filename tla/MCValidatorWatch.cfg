CONSTANTS
  Counters <- MCCounters
  Gauges <- MCNone
  Unmapped <- MCUnmapped
  Queries <- MCQueries
  QueryOf <- MCQueryOf
  Matching <- MCAll
  CheckIngest = TRUE
  Watch = TRUE
  MaxVal = 1
  Skew = 1
  MaxRestarts = 1
  TolCounter = 5
  TolGauge = 2
  AbsEpsilon = 0
SPECIFICATION FairSpec
INVARIANT NoFalseAlarm
PROPERTY WatchGoesOn
CHECK_DEADLOCK FALSE
