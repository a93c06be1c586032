SPECIFICATION FairSpec
CONSTANTS
  Depth = 2
  MaxSamples = 4
  MaxDecodes = 4
INVARIANTS
  TypeOK
  OneImage
PROPERTIES
  ImplementsDisplay
  LastSampleArrives
CHECK_DEADLOCK FALSE
