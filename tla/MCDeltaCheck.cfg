CONSTANTS
  Own = "h1"
  Others <- MCOtherHost
  Scoped = TRUE
  NsPerMs = 2
  GaugeSlackMs = 2
  ScrapeNs = 4
  Gaps <- MCGaps
  Written <- MCTorn
  MaxVal = 2
  MaxRows = 3
  TolCounter = 5
  TolGauge = 2
  AbsEpsilon = 0
SPECIFICATION Spec
INVARIANTS TypeOK WindowExact CounterTelescopes GaugeIsLatest OkHasEvidence RawCounterIsCaught
CHECK_DEADLOCK FALSE
