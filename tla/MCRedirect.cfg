CONSTANTS
  Ports = {p1}
  Conns = {c1, c2}
  MayProbe = {c2}
  Sources = {1, 2}
  MaxActive = 1
  TCX = TRUE
  Faults = {"attach", "link", "sibling", "capacity", "target", "restore", "slow", "reset", "dump", "snapshot", "kill"}
  NoThread = NoThread
SPECIFICATION FairSpec
INVARIANTS StaysRedirected Wakeable Direct
PROPERTIES Ending Implements
CHECK_DEADLOCK FALSE
