CONSTANTS
  Execs = {e1, e2}
  Restores = 1
  Faults = {"start", "dump"}
  NoChan = NoChan
  NoExit = NoExit
SPECIFICATION FairSpec
INVARIANTS ExitOrder Room CountExact
PROPERTIES SessionsKeepAwake ExitPublished
CHECK_DEADLOCK FALSE
