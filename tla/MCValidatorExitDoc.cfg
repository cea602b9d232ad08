CONSTANTS
  Counters <- MCCounters
  Gauges <- MCNone
  Unmapped <- MCNone
  Queries <- MCQueries
  QueryOf <- MCQueryOf
  Matching <- MCAll
  CheckIngest = TRUE
  Watch = FALSE
  MaxVal = 1
  Skew = 1
  MaxRestarts = 1
  TolCounter = 5
  TolGauge = 2
  AbsEpsilon = 0
SPECIFICATION Spec
INVARIANT EitherMismatchExitsOne
CHECK_DEADLOCK FALSE
