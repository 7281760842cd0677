SPECIFICATION Spec
CONSTANTS
  Shapes <- MCShapes
  Hard <- MCHard
  Soft <- MCSoft
  Seconds <- MCSeconds
  MaxFrames = 3
  MaxTime = 4
INVARIANT NoMessageLost
CHECK_DEADLOCK FALSE
