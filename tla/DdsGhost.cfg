SPECIFICATION Spec
CONSTANTS
  Topic = {camera}
  NoTopic = NoTopic
  Type = {"Image", "Request"}
  Participant = {p1}
  OwnParticipant = Own
  p1 = p1
  camera = camera
  driver = driver
  viewer = viewer
  service = service
  Endpoint <- GraphEndpoints
  TopicOf <- GraphTopicOf
  TypeOf <- GraphTypeOf
  IsPublication <- GraphIsPub
  QosOf <- GraphQosOf
  OwnerOf <- GraphOwnerOf
  KnownTypes = {}
  DecodableTypes = {}
  PublishTopics = {}
INVARIANT
  TopicsDisappear
