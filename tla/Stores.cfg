SPECIFICATION Spec
CONSTANTS
  Confs <- MCConfs
  Started <- MCStarted
  Topics = {"debug", "log"}
  Rotate = 3
  Flush = 1
  Reconnect = 2
  Start = {5}
  MaxTime = 8
INVARIANTS AcceptedIsBuilt RightPeriod FlushTried StoredOnce BlockedForAReason
CHECK_DEADLOCK FALSE
