CONSTANTS
  Pods = {a, b}
  Migratable = {a}
  Awake = {a}
  Capacity = 1
  MaxWakes = 2
  Mishaps = 1
SPECIFICATION FairSpec
INVARIANTS RefusedLeaves
PROPERTIES YoungTaintStays TaintGoes
CHECK_DEADLOCK FALSE
