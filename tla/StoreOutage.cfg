SPECIFICATION Spec
CONSTANTS
  MaxMsgs = 3
  Empty = {}
  PerCron = 1
  Reconnect = 2
  DiskFails = FALSE
  MaxOutages = 2
  MaxReloads = 0
  MaxCrashes = 0
  MaxDirErrors = 0
INVARIANT TransferSurvivesOutage
CHECK_DEADLOCK FALSE
