SPECIFICATION FairSpec
CONSTANTS
  Shapes <- MCShapes
  Hard <- MCHard
  Soft <- MCSoft
  Seconds <- MCSeconds
  MaxFrames = 3
  MaxTime = 4
INVARIANTS WholeFrames WriteEventArmed
PROPERTIES LeavingEnds Flushed
CHECK_DEADLOCK FALSE
