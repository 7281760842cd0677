SPECIFICATION Spec
CONSTANTS
  N = 2
  MaxReload = 3
INVARIANTS DeleteIsLast ReloadAlive
PROPERTIES LatestUsed StopEnds
CHECK_DEADLOCK FALSE
