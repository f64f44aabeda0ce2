SPECIFICATION Spec
CONSTANTS
  ka = ka
  kb = kb
  kc = kc
  kd = kd
  t1 = t1
  t2 = t2
  t3 = t3
  None = None
  Threads = {t1, t2, t3}
  Keys = {ka, kb, kc}
  NumCaches = 1
  CacheOf <- OneCache
  Needs <- Chain
  Kinds = {"future"}
  Own = {"future"}
SYMMETRY ThreadSymmetry
INVARIANTS
  NoCircularWait
