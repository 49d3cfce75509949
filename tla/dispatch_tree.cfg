SPECIFICATION FairSpec
CONSTANTS
  root = root
  a = a
  b = b
  c = c
  d = d
  Tasks = {root, a, b, c, d}
  Children <- FourTasks
  Workers = {w1, w2}
  WorkStealing = TRUE
  StealThreshold = 1
  LeaveBehind = 1
  None = None
INVARIANTS ServerSurvives IdleBooks TasksCounted
PROPERTIES RootsEnd ImplementsCompilation
CHECK_DEADLOCK FALSE
