SPECIFICATION FairSpec
CONSTANTS
  cmdVel = cmdVel
  otherVel = otherVel
  Topic <- TwoTopics
  NoTopic = NoTopic
  SpringFrames = 3
  MaxTimers = 2
INVARIANTS
  TypeOK
  StoppedIsZero
  YawIsHeld
PROPERTIES
  RestIsZero
  ImplementsDrive
  ReleasedStops
CHECK_DEADLOCK FALSE
