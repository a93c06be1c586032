SPECIFICATION Spec
CONSTANTS
  cmd = cmd
  scan = scan
  TopicOrder <- TwoTopics
  NoTopic = NoTopic
  MaxCount = 3
  MaxViewers = 2
INVARIANTS
  TypeOK
  CountIsWatchers
  WatchedIsTracked
  NoUnwantedReader
PROPERTY
  ImplementsWatching
