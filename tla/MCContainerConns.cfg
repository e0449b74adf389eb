CONSTANTS
  k1 = k1
  c1 = c1
  c2 = c2
  e1 = e1
  d1 = d1
  Checks = {k1}
  Conns = {c1, c2}
  Execs = {}
  Kills = {}
  Pids = {1, 2}
  Faults = {"crash", "config", "reset", "predump", "dump", "restore", "capacity", "forward"}
  SkipStart = FALSE
  NoThread = NoThread
  NoPid = 0
SPECIFICATION Spec
SYMMETRY Symmetry
INVARIANTS TypeOK ExitHasCause Restorable Reachable
