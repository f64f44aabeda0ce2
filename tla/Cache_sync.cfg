SPECIFICATION Spec
CONSTANTS
  t1 = t1
  t2 = t2
  t3 = t3
  ka = ka
  kb = kb
  a1 = a1
  a2 = a2
  a3 = a3
  b1 = b1
  None = None
  Threads = {t1, t2}
  Keys = {ka, kb}
  Elem = {a1, a2, b1}
  KeyOf <- KeyAB
  Hash <- HashAB
  Spread = 2
  Async = FALSE
  Queue = TRUE
  MaxSize = 1
  Pressure = FALSE
  MaxAge = FALSE
  Ops = {"get", "peek", "expire"}
  Outcomes = {"value", "throw"}
SYMMETRY Symmetry
PROPERTIES
  ExpiredNotServed
  KeepsContract
