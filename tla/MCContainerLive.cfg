CONSTANTS
  k1 = k1
  c1 = c1
  c2 = c2
  e1 = e1
  d1 = d1
  Checks = {k1}
  Conns = {c1}
  Execs = {}
  Kills = {}
  Pids = {1, 2}
  Faults = {"crash", "config", "snapshot", "predump", "dump", "restore"}
  SkipStart = FALSE
  NoThread = NoThread
  NoPid = 0
SPECIFICATION FairSpec
PROPERTIES ScalesDown LostExitHeals Wakes
