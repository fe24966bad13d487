SPECIFICATION FairSpec
CONSTANTS
  m1 = m1
  m2 = m2
  Nil = Nil
  Metric = {m1}
  Timestamp <- MCTimestamp
  MaxSerial = 2
  MaxBatch = 1
  InputCap = 1
  OutputCap = 1
  QueryCap = 1
  ConfirmCap = 1
  MaxSize = 0
  Strategies = {"sort"}
  Query = {q1, q2}
PROPERTIES
  EventuallyWritten
  QueryAnswered
  StopReturns
CHECK_DEADLOCK FALSE
