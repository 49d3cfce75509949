SPECIFICATION Spec
CONSTANTS
  server = server
  m1 = m1
  m2 = m2
  w1 = w1
  w2 = w2
  Server = server
  Managers = {m1, m2}
  Workers = {w1, w2}
  Client = client
  Systems <- MCSystems
  Killable = {server, m1}
  MaxFaults = 1
INVARIANT NothingLeft
PROPERTY StopsAll
CHECK_DEADLOCK FALSE
