SPECIFICATION FairSpec
CONSTANTS
  NumWorkers = 2
  Hosts = {h1, h2}
  LongNames = {h2}
  MaxClients = 1
  Wrap = 4
  PipeCap = 1
  MaxConns = 3
  AcceptErrors = TRUE
INVARIANTS OneNoticeEach OneOwner LimitHeld
PROPERTIES Served
CHECK_DEADLOCK FALSE
