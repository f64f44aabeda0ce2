SPECIFICATION FairSpec
CONSTANTS
  ka = ka
  kb = kb
  kc = kc
  kd = kd
  t1 = t1
  t2 = t2
  t3 = t3
  None = None
  Threads = {t1, t2}
  Keys = {ka, kb, kc, kd}
  NumCaches = 3
  CacheOf <- CacheMC
  Needs <- NeedsMC
  Kinds = {"sync", "deferred", "future"}
  Own = {"deferred"}
INVARIANTS
  LocksAreShort
  CreatedOnce
  NoCircularWait
PROPERTIES
  NestedCallsReturn
