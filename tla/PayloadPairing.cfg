SPECIFICATION Spec
CONSTANTS
  Depth = 2
  MaxSamples = 2
  MaxDecodes = 1
INVARIANT
  PayloadIsPaired
CHECK_DEADLOCK FALSE
