CONSTANTS
  Counters <- MCCounters
  Gauges <- MCGauges
  Unmapped <- MCNone
  Queries <- MCQueries
  QueryOf <- MCQueryOf
  Matching <- MCOne
  CheckIngest = FALSE
  Watch = FALSE
  MaxVal = 1
  Skew = 1
  MaxRestarts = 1
  TolCounter = 5
  TolGauge = 2
  AbsEpsilon = 0
SPECIFICATION Spec
INVARIANTS TypeOK NoFalseAlarm CounterNeverAhead WrongValueIsFound ExitCodeIsTrue
CHECK_DEADLOCK FALSE
