CONSTANTS
  Databases <- MCDatabases
  MayFail <- MCMayFail
SPECIFICATION Spec
INVARIANTS TypeOK EveryRowIsExpected TypesAgree PerPdbWins InstanceFillsGaps
PROPERTY ImplementsQueryByQuery
CHECK_DEADLOCK FALSE
