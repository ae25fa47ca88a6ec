SPECIFICATION Spec
CONSTANTS
  Connectors = {c1}
  Configs = {k1, k2}
  Pids = {p1, p2, p3}
  c1 = c1
  k2 = k2
  k1 = k1
  p1 = p1
  p2 = p2
  p3 = p3
  None = None
PROPERTIES RespawnIsFresh
CHECK_DEADLOCK FALSE
