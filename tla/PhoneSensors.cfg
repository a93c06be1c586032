SPECIFICATION FairSpec
CONSTANTS
  imu = imu
  gps = gps
  here = here
  there = there
  Instant <- OneInstant
  Located <- None
  Camera = camera
  Topic <- TwoTopics
  NoTopic = NoTopic
  NoKind = NoKind
  MaxCalls = 1
INVARIANTS
  TypeOK
  OnlyItsTopic
  WriterHasPublisher
PROPERTY
  OffIsSilent
CHECK_DEADLOCK FALSE
