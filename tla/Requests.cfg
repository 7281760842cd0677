SPECIFICATION Spec
CONSTANTS
  Streams <- MCStreams
  Width = 8
  MaxRead = 7
  MaxQuery = 14
  MaxArgs = 4
  MaxBulk = 5
INVARIANTS MemoryFollowsUse CommandsAsSent PiecesDoNotMatter
CHECK_DEADLOCK FALSE
