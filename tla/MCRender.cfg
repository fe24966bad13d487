SPECIFICATION RenderSpec
CONSTANTS
  m1 = m1
  Nil = Nil
  Metric = {m1}
  Timestamp <- MCTimestamp
  MaxSerial = 3
  MaxBatch = 2
  InputCap = 1
  OutputCap = 1
  QueryCap = 1
  ConfirmCap = 1
  MaxSize = 0
  Strategies = {"max"}
  Query = {q1}
  Step = 2
  Stamps <- MCStamps
  Requests <- MCRequests
INVARIANTS
  ValuesInPlace
  KnownShown
CHECK_DEADLOCK FALSE
