SPECIFICATION Spec
CONSTANTS
  imu = imu
  gps = gps
  here = here
  there = there
  Instant <- None
  Located <- OneLocated
  Camera = camera
  Topic <- TwoTopics
  NoTopic = NoTopic
  NoKind = NoKind
  MaxCalls = 2
INVARIANT
  NoStrayListener
CHECK_DEADLOCK FALSE
