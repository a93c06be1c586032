SPECIFICATION FairSpec
CONSTANTS
  Topic = {camera}
  camera = camera
  Word <- MCWord
  NonFinite = NonFinite
  NoMessage = NoMessage
  Message <- MCMessage
  KnownTypes <- MCKnownTypes
  MessageKind = {kTwist, kImage}
  kTwist = kTwist
  kImage = kImage
INVARIANTS
  TypeOK
  EntitiesAreRecorded
  WorkerOwnsTheMap
  CopiesAreFreed
  ReadsInBuffer
  BlobMatchesJson
  TextReadsBack
PROPERTY CallsReturn
