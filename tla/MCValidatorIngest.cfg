CONSTANTS
  Counters <- MCCounters
  Gauges <- MCNone
  Unmapped <- MCUnmapped
  Queries <- MCQueries
  QueryOf <- MCQueryOf
  Matching <- MCCounters
  CheckIngest = TRUE
  Watch = FALSE
  MaxVal = 1
  Skew = 1
  MaxRestarts = 1
  TolCounter = 5
  TolGauge = 2
  AbsEpsilon = 0
SPECIFICATION FairSpec
INVARIANT ExitCodeIsTrue
PROPERTY OneShotEnds
CHECK_DEADLOCK FALSE
