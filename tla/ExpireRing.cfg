SPECIFICATION FairSpec
CONSTANTS
  Elem = {e1, e2, e3}
  None = None
INVARIANTS
  Rings
  ComputesQueue
PROPERTIES
  LoopsEnd
