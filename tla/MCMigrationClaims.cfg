CONSTANTS
  s1 = s1
  t1 = t1
  t2 = t2
  c1 = c1
  c2 = c2
  n1 = n1
  n2 = n2
  Sources = {s1}
  Targets = {t1, t2}
  Containers = {c1}
  Nodes = {n1, n2}
  NodeOf <- MCNodeOf
  Hash <- MCHash
  LiveMigrate = FALSE
  AutoGC = TRUE
  Faults = {"pull"}
  NoPod = NoPod
SPECIFICATION Spec
INVARIANTS OneCopy
PROPERTIES ClaimStable
CHECK_DEADLOCK FALSE
