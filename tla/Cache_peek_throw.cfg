SPECIFICATION Spec
CONSTANTS
  t1 = t1
  t2 = t2
  t3 = t3
  ka = ka
  kb = kb
  a1 = a1
  a2 = a2
  a3 = a3
  b1 = b1
  None = None
  Threads = {t1, t2}
  Keys = {ka}
  Elem = {a1}
  KeyOf <- KeyAB
  Hash <- HashAB
  Spread = 4
  Async = TRUE
  Queue = FALSE
  MaxSize = 1
  Pressure = FALSE
  MaxAge = FALSE
  Ops = {"get", "peek"}
  Outcomes = {"value", "throw"}
INVARIANTS
  PeekNeverTerminates
