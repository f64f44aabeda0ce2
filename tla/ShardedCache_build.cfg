SPECIFICATION ShardsSpec
CONSTANTS
  ka = ka
  kb = kb
  kc = kc
  Key = {ka, kb, kc}
  HashCode <- HashABC
  Multiplier = 9
  Values = 16
  MaxConc = 3
  SizeLimit = 2
INVARIANTS
  ShardsAccounted
  OwnTracker
  FoundAgain
CHECK_DEADLOCK FALSE
