SPECIFICATION MCSpec
CONSTANTS
  Topic = {camera}
  NoTopic = NoTopic
  Type = {"Image", "Request"}
  Participant = {p1}
  OwnParticipant = Own
  p1 = p1
  camera = camera
  driver = driver
  viewer = viewer
  service = service
  Endpoint <- GraphEndpoints
  TopicOf <- GraphTopicOf
  TypeOf <- GraphTypeOf
  IsPublication <- GraphIsPub
  QosOf <- GraphQosOf
  OwnerOf <- GraphOwnerOf
  KnownTypes = {"Image"}
  DecodableTypes = {"Image"}
  PublishTopics = {camera}
INVARIANTS
  TypeOK
  IndexIsInverse
  NoOrphanTopic
  OwnIsNotPresence
  TrackersFollowTopics
  UnknownIsTransient
  LiveIsListed
PROPERTIES
  OnlyPublishersSetQos
  ImplementsRegistry
  Converges
