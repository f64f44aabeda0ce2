SPECIFICATION BuilderSpec
CONSTANTS
  Keyed = FALSE
  Limits = {0, 1}
  Seconds = {0, 1}
  Concurrency = {0, 2}
  LoadFactors = {0, 1}
  Types = {std, own}
  Default = std
  Hardware = {0, 4}
CHECK_DEADLOCK FALSE
INVARIANTS
  AsyncIsIgnored
