SPECIFICATION Spec
CONSTANTS
  e1 = e1
  e2 = e2
  e3 = e3
  k1 = k1
  k2 = k2
  k3 = k3
  Addr = {e1, e2, e3}
  Keys = {k1, k2}
  None = None
  Configs <- LongConfig
  MaxTime = 3
  MaxGets = 0
  Horizon = 4
SYMMETRY Symmetry
CHECK_DEADLOCK FALSE
PROPERTIES
  GotIsKept
