SPECIFICATION ReceiversSpec
CONSTANTS
  Schemes = {"tcp", "pickle", "udp"}
  Conn = {c1}
  Items <- MCItems
  MaxItems = 3
  MaxFrame = 2
  InputCap = 1
  MaxStats <- MCMaxStats
  Wrap = 3
  u1 = u1
  u2 = u2
  Peer <- MCPeer
  Lines <- MCLines
  Parts = 1
  MaxBreaks = 2
  MaxRecords = 2
INVARIANTS
  NothingDropped
  StatExact
  IntactPeer
  DamageContained
PROPERTIES
  QuietAfterStop
  StopReturns
CHECK_DEADLOCK FALSE
