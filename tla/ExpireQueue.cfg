SPECIFICATION Spec
CONSTANTS
  Elem = {e1, e2, e3, e4}
  MaxSize = 3
  Pressure = TRUE
SYMMETRY Symmetry
INVARIANTS
  Balanced
  SizeBound
  QueueLinksLive
  QueuedIsStrong
PROPERTIES
  ScanResistance
  EvictedIsRevived
