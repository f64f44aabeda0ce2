SPECIFICATION Spec
CONSTANTS
  t1 = t1
  t2 = t2
  b1 = b1
  b2 = b2
  b3 = b3
  None = None
  Thread = {t1, t2}
  Block = {b1, b2, b3}
  Size = 2
  Overhead = 1
  Values = 8
  MaxMem = 4
  Accuracy = 4
SYMMETRY Symmetry
INVARIANTS
  Accounted
  TrackerOutlivesUse
PROPERTIES
  QueueFits
  ImplementsQueue
CHECK_DEADLOCK FALSE
