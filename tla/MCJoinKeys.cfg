CONSTANTS
  AttrKeys <- MCKeys
  AttrValues <- MCValues
  Hosts <- MCHosts
  Scoped = TRUE
  MaxRows = 3
SPECIFICATION KeysSpec
INVARIANTS KeysTypeOK RowsNameTheirSeries WhereIsTheSeries
CHECK_DEADLOCK FALSE
