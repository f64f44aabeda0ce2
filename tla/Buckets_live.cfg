SPECIFICATION FairSpec
CONSTANTS
  a1 = a1
  a2 = a2
  a3 = a3
  k1 = k1
  k2 = k2
  k3 = k3
  Addr = {a1, a2}
  Keys = {k1, k2, k3}
  None = None
  Dangling = Dangling
  Hash <- HashMC
  Spread = 2
  Async = FALSE
  Queue = TRUE
  Recursive = FALSE
CHECK_DEADLOCK FALSE
PROPERTIES
  WalksEnd
