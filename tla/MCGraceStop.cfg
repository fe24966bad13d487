SPECIFICATION PipelineSpec
CONSTANTS
  m1 = m1
  m2 = m2
  Nil = Nil
  Metric = {m1}
  Timestamp <- MCTimestamp
  MaxSerial = 1
  MaxBatch = 1
  InputCap = 10
  OutputCap = 1
  QueryCap = 1
  ConfirmCap = 1
  MaxSize = 0
  Strategies = {"max"}
  Query = {}
  MaxStarts = 1
  WorkerCounts = {1}
  Throttling = {FALSE}
  Chunk = 1
  Hash <- MCHash
  WorkerCap = 1
  AppOps = {"grace"}
INVARIANTS
  GraceStopFlushes
CHECK_DEADLOCK FALSE
