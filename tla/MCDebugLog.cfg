CONSTANTS
  Metrics <- MCMetrics
  AttrKeys = {"pdb", "odd-key"}
  OddKeys = {"odd-key"}
  AttrValues <- MCAttrValues
  Cut <- MCCut
  Numbers <- MCNumbers
  NoMetric = "none named"
  Empty = ""
  None = "no entry"
  MaxPoints = 2
SPECIFICATION Spec
INVARIANTS TypeOK ParsedIsPrinted NothingInvented MetricIsSeen
CHECK_DEADLOCK FALSE
