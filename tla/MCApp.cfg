SPECIFICATION Spec
CONSTANTS
  MaxReloads = 1
  MaxMessages = 1
  MaxLines = 1
  MaxTicks = 1
  InputCap = 1
  ConfirmCap = 1
  DataCap = 1
  Configs <- MCConfigs
  Servers = {"scan", "plain"}
INVARIANTS
  PanicsOnlyUnlocked
  OnePersister
  CollectorCurrent
  OnlyOwnPointsLeft
PROPERTIES
  StopEnds
CHECK_DEADLOCK FALSE
