CONSTANTS
  Keys = {p1, p2}
  Conns = {c1, c2}
  MayProbe = {}
  Watchers = {1, 2, 3}
  Faults = {}
  Prompt = TRUE
  Timer = Timer
  NoThread = NoThread
SPECIFICATION Spec
INVARIANTS AlwaysTransparent
CHECK_DEADLOCK FALSE
