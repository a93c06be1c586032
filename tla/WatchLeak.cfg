SPECIFICATION Spec
CONSTANTS
  cmd = cmd
  scan = scan
  TopicOrder <- TwoTopics
  NoTopic = NoTopic
  MaxCount = 3
  MaxViewers = 2
INVARIANT
  NoLeakedReader
