SPECIFICATION Spec
CONSTANTS
  e1 = e1
  e2 = e2
  e3 = e3
  k1 = k1
  k2 = k2
  k3 = k3
  Addr = {e1, e2, e3}
  Keys = {k1, k2}
  None = None
  Configs <- AllConfigs
  MaxTime = 4
  MaxGets = 5
  Horizon = 8
SYMMETRY Symmetry
CHECK_DEADLOCK FALSE
INVARIANTS
  TypeOK
  LimitActs
  StatsBalance
PROPERTIES
  AccessKept
  GotIsKept
