SPECIFICATION FairSpec
CONSTANTS
  Writer = {near, far}
  near = near
  far = far
  Offset <- MCOffset
  Depth = 2
  Batch = 1
  Capacity = 3
  LatencyLimit = 2
  MaxTime = 3
  MaxNumber = 3
INVARIANT TypeOK
PROPERTIES
  RateIsTrue
  Drains
