SPECIFICATION Spec
CONSTANTS
  NumWorkers = 2
  PipeCap = 1
  QueueLimit = 1
  MaxMsgs = 2
INVARIANTS
  NoWrongNotice
  NoForgottenMessage
  NoUseAfterFree
  Accounting
  QueueBound
PROPERTY
  ImplementsLog
