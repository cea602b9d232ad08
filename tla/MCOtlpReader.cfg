CONSTANTS
  Keys <- MCKeys
  Resources <- MCResources
  Values <- MCValues
  Lines <- MCLines
  Windows <- MCWindows
  RotateAt = 3
  MaxInodes = 2
SPECIFICATION FairSpec
INVARIANTS TypeOK LatestWins SeriesEndpoints SecondReadCoversFirst
PROPERTIES ReadsAreSnapshots ReadReturns
CHECK_DEADLOCK FALSE
