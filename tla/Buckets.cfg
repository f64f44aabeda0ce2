SPECIFICATION BuiltSpec
CONSTANTS
  a1 = a1
  a2 = a2
  a3 = a3
  k1 = k1
  k2 = k2
  k3 = k3
  k4 = k4
  MaxBacks = 3
  Addr = {a1, a2, a3}
  Keys = {k1, k2, k3, k4}
  None = None
  Dangling = Dangling
  Hash <- HashMC
  Spread = 2
  Async = FALSE
  Queue = TRUE
  Recursive = TRUE
SYMMETRY Symmetry
CHECK_DEADLOCK FALSE
INVARIANTS
  Threaded
  Findable
PROPERTIES
  ImplementsTable
