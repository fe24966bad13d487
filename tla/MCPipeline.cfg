SPECIFICATION FairPipelineSpec
CONSTANTS
  m1 = m1
  m2 = m2
  Nil = Nil
  Metric = {m1}
  Timestamp <- MCTimestamp
  MaxSerial = 2
  MaxBatch = 1
  InputCap = 10
  OutputCap = 1
  QueryCap = 1
  ConfirmCap = 1
  MaxSize = 0
  Strategies = {"max"}
  Query = {}
  MaxStarts = 2
  WorkerCounts = {1, 2}
  Throttling = {FALSE, TRUE}
  Chunk = 1
  Hash <- MCHash
  WorkerCap = 1
  AppOps = {"reload", "grace", "stop"}
INVARIANTS
  ConfirmsHead
PROPERTIES
  OperationReturns
  TakenConfirmed
  CacheContract
CHECK_DEADLOCK FALSE
