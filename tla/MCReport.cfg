CONSTANTS
  TolCounter = 5
  TolGauge = 2
  AbsEpsilon = 1
  Epsilons <- MCEpsilons
  AllSeries <- MCSeries
  Pairs <- MCPairs
  IngestStatuses <- MCStatuses
  Notes = {"HTTP 401"}
  Matching = {2}
  Filters = {TRUE, FALSE}
  None = None
  nil = nil
SPECIFICATION Spec
INVARIANTS TypeOK FailureIsShown SummaryAddsUp
CHECK_DEADLOCK FALSE
