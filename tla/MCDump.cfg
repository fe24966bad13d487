SPECIFICATION FairDumpSpec
CONSTANTS
  m1 = m1
  m2 = m2
  Nil = Nil
  Metric = {m1}
  Timestamp <- MCTimestamp
  MaxSerial = 2
  MaxBatch = 1
  InputCap = 1
  OutputCap = 1
  QueryCap = 1
  ConfirmCap = 1
  MaxSize = 0
  Strategies = {"max"}
  Query = {q1, q2}
  ChunkLines = 1
  Unreadable <- MCUnreadable
  MaxRestarts = 1
INVARIANTS
  DumpLosesOnlyInHand
  DumpedOnce
  RestoredAll
PROPERTIES
  DumpEnds
CHECK_DEADLOCK FALSE
