SPECIFICATION Spec
CONSTANTS
  m1 = m1
  m2 = m2
  Nil = Nil
  Metric <- MCMetric
  Timestamp <- MCTimestamp
  MaxSerial = 2
  MaxBatch = 2
  InputCap = 9
  OutputCap = 1
  QueryCap = 1
  ConfirmCap = 1
  MaxSize = 2
  Strategies = {"max"}
  Query = {q1}
INVARIANTS
  TypeOK
  QueueFresh
  NoLoss
  SizeExact
  TrackerExact
  OvershootBounded
  ReplyHasNoHole
PROPERTIES
  IsWriteBehind
  HandedOutFrozen
CHECK_DEADLOCK FALSE
