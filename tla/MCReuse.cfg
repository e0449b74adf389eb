CONSTANTS
  Keys = {p1, p2}
  Conns = {c1, c2}
  MayProbe = {c2}
  Watchers = {1, 2, 3}
  Faults = {"capacity", "restore", "slow", "register", "listen", "dump"}
  Prompt = TRUE
  Timer = Timer
  NoThread = NoThread
SPECIFICATION FairSpec
INVARIANTS Wakeable Direct
PROPERTIES Woken Implements
CHECK_DEADLOCK FALSE
