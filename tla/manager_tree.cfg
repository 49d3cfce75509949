SPECIFICATION Spec
CONSTANTS
  server = server
  m0 = m0
  m1 = m1
  m2 = m2
  w1 = w1
  w2 = w2
  w3 = w3
  root = root
  a = a
  b = b
  single = single
  c = c
  Tasks = {root, a, b, single, c}
  Children <- MCChildren
  Workers = {w1, w2, w3}
  Server = server
  Managers = {m0, m1, m2}
  Systems <- MCSystems
  IdRange = 8
  WorkStealing = TRUE
  None = None
INVARIANTS TreeServes TreeCounts TreeIdle
PROPERTY TreeCompiles
CHECK_DEADLOCK FALSE
