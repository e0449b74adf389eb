CONSTANTS
  k1 = k1
  c1 = c1
  c2 = c2
  e1 = e1
  d1 = d1
  Checks = {k1}
  Conns = {}
  Execs = {e1}
  Kills = {d1}
  Pids = {1, 2}
  Faults = {"crash", "clock", "snapshot", "delete", "restore", "redirects", "capacity", "forward", "exec"}
  SkipStart = TRUE
  NoThread = NoThread
  NoPid = 0
SPECIFICATION Spec
INVARIANTS ExitHasCause
PROPERTIES StateSurvives
