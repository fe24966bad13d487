SPECIFICATION SystemSpec
CONSTANTS
  m1 = m1
  m2 = m2
  None = None
  Metric <- MCMetric
  Hash <- MCHash
  MaxBatches = 2
  MaxStarts = 2
  WorkerCounts = {1, 2}
  Throttling = {FALSE, TRUE}
  Chunk = 2
  ThrottleCap = 1
  WorkerCap = 1
  InCap = 1
  ConfirmCap = 1
INVARIANTS
  InOrderOnce
  FileExclusive
  StoppedEmpty
CHECK_DEADLOCK FALSE
