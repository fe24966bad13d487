SPECIFICATION WriteoutSpec
CONSTANTS
  m1 = m1
  m2 = m2
  Nil = Nil
  Metric <- MCMetric
  Timestamp <- MCTimestamp
  MaxSerial = 3
  MaxBatch = 2
  InputCap = 1
  OutputCap = 1
  QueryCap = 1
  ConfirmCap = 1
  MaxSize = 0
  Strategies = {"max", "sort", "noop"}
  Query = {}
INVARIANTS
  BoundedBypass
CHECK_DEADLOCK FALSE
