SPECIFICATION Spec
CONSTANTS
  cmdVel = cmdVel
  otherVel = otherVel
  Topic <- TwoTopics
  NoTopic = NoTopic
  SpringFrames = 3
  MaxTimers = 2
INVARIANT
  LeftIsZero
CHECK_DEADLOCK FALSE
