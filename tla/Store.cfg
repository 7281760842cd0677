SPECIFICATION FairSpec
CONSTANTS
  MaxMsgs = 3
  Empty = {2}
  PerCron = 1
  Reconnect = 2
  DiskFails = TRUE
  MaxOutages = 1
  MaxReloads = 1
  MaxCrashes = 1
  MaxDirErrors = 1
INVARIANTS Conserved NothingStranded LossHasACause
PROPERTIES BufferDrains StorerProceeds ImplementsPromise
CHECK_DEADLOCK FALSE
