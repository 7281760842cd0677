SPECIFICATION FairSpec
CONSTANTS
  NumWorkers = 1
  PipeCap = 1
  QueueLimit = 2
  MaxMsgs = 4
PROPERTIES
  QueueDrains
  ImplementsFairLog
