CONSTANTS
  EventsCap = 2
  RetrySteps = 2
  Scalings = 2
  Mishaps = 2
SPECIFICATION FairSpec
INVARIANTS InitialKept InSync
PROPERTIES Settles
CHECK_DEADLOCK FALSE
