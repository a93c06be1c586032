--------------------------- MODULE DdsManagerProofs ---------------------------
(***************************************************************************)
(* Proofs about DdsManager, for every graph of participants and endpoints. *)
(***************************************************************************)
EXTENDS DdsManager, TLAPS

-----------------------------------------------------------------------------
(* Lemmas about the map and sample operators.                               *)

\* The operators on pending samples keep them well-formed.
LEMMA SamplesType ==
  ASSUME NEW S, NEW T, NEW g \in S,
         NEW pending \in [S -> SUBSET {"data", "dispose"}]
  PROVE  /\ Announced(pending, T) \in [S -> SUBSET {"data", "dispose"}]
         /\ Disposals(pending, T) \subseteq [S -> SUBSET {"data", "dispose"}]
         /\ Taken(pending, g) \in [S -> SUBSET {"data", "dispose"}]
<1>1. Announced(pending, T) \in [S -> SUBSET {"data", "dispose"}]
  BY DEF Announced
<1>2. Disposals(pending, T) \subseteq [S -> SUBSET {"data", "dispose"}]
  BY DEF Disposals
<1>3. Taken(pending, g) \in [S -> SUBSET {"data", "dispose"}]
  BY DEF Taken
<1> QED BY <1>1, <1>2, <1>3

\* Samples of a topic's own entities have a place in the readers.
LEMMA OwnGuidExists ==
  ASSUME NEW t \in Topic
  PROVE  <<"stats", t>> \in Guid /\ <<"payload", t>> \in Guid /\ <<"writer", t>> \in Guid
BY DEF Guid, OwnGuid

\* A disposal changes only the samples of what goes, and an unread data sample
\* may stay the only one.
LEMMA DisposalEffect ==
  ASSUME NEW pending, NEW T, NEW new \in Disposals(pending, T)
  PROVE  /\ DOMAIN new = DOMAIN pending
         /\ \A g \in DOMAIN pending \ T : new[g] = pending[g]
         /\ \A g \in DOMAIN pending \cap T :
              \/ new[g] = pending[g] \cup {"dispose"}
              \/ new[g] = pending[g] /\ "data" \in pending[g]
BY DEF Disposals

\* Every guid is on one side, and what drainEndpoints registers has a topic.
LEMMA SideOf ==
  ASSUME NEW g \in Guid
  PROVE  IsPub(g) \in BOOLEAN /\ (Registers(g) => TopicName(g) \in Topic)
BY GraphAssumption DEF Registers, IsPub, Guid

-----------------------------------------------------------------------------
(* Type correctness.                                                        *)

LEMMA TypeInit == Init => TypeOK
BY DEF Init, TypeOK, NothingPending, NoEntries, Phases

\* The entry drainEndpoints works on, new or not, and the one it leaves.
LEMMA InfoType ==
  ASSUME TypeOK, NEW t
  PROVE  InfoOf(t) \in TopicInfo
<1>1. NewTopicInfo \in TopicInfo
  <2>1. NewTopicInfo.qos \in Labels
    BY DEF NewTopicInfo, Labels
  <2> QED BY <2>1 DEF NewTopicInfo, TopicInfo
<1> QED BY <1>1 DEF InfoOf, TypeOK

LEMMA LabelsType ==
  ASSUME NEW old \in Labels, NEW qos \in Qos
  PROVE  QosLabels(old, qos) \in Labels
<1>1. /\ ReliabilityLabel(qos) \in {"unknown", "reliable", "best_effort"}
      /\ HistoryLabel(qos) \in {"unknown", "keep_all", "keep_last"}
  BY DEF Qos, ReliabilityLabel, HistoryLabel
<1>2. DurabilityLabel(qos) \in {"unknown", "volatile", "transient_local", "transient", "persistent"}
  BY DEF Qos, DurabilityLabel
<1>3. (IF qos.history = "absent" THEN old.depth ELSE qos.depth) \in Int
  BY DEF Qos, Labels
<1> QED BY <1>1, <1>2, <1>3 DEF QosLabels, Labels

LEMMA WithEndpointType ==
  ASSUME NEW info \in TopicInfo, NEW g \in Guid
  PROVE  WithEndpoint(info, g) \in TopicInfo
<1>1. QosOf[g] \in Qos /\ TypeOf[g] \in Type
  BY GraphAssumption
<1>2. info.qos \in Labels
  BY DEF TopicInfo
<1>3. QosLabels(info.qos, QosOf[g]) \in Labels
  BY <1>1, <1>2, LabelsType
<1> QED BY <1>1, <1>3 DEF WithEndpoint, TopicInfo

LEMMA TypeRegister ==
  ASSUME TypeOK, NEW g \in Guid, Registers(g), RegisterEndpoint(g)
  PROVE  /\ DOMAIN topics' \subseteq Topic
         /\ topics' \in [DOMAIN topics' -> TopicInfo]
         /\ DOMAIN endpointIndex' \subseteq Guid
         /\ endpointIndex' \in [DOMAIN endpointIndex' -> [topic : Topic, pub : BOOLEAN]]
         /\ endpointSamples' \in [Guid -> SUBSET {"data", "dispose"}]
<1> DEFINE name == TopicName(g)
           info == WithEndpoint(InfoOf(name), g)
<1>1. name \in Topic
  BY SideOf
<1>2. IsPub(g) \in BOOLEAN
  BY SideOf
<1>3. InfoOf(name) \in TopicInfo
  BY InfoType
<1>4. info \in TopicInfo
  BY <1>1, <1>3, WithEndpointType
<1>5. topics' = With(topics, name, info)
  BY DEF RegisterEndpoint
<1>6. endpointIndex' = With(endpointIndex, g, [topic |-> name, pub |-> IsPub(g)])
  BY DEF RegisterEndpoint
<1>7. endpointSamples' = Taken(endpointSamples, g)
  BY DEF RegisterEndpoint
<1> HIDE DEF name, info
<1>8. /\ DOMAIN topics' = DOMAIN topics \cup {name}
      /\ topics' \in [DOMAIN topics' -> TopicInfo]
  BY <1>4, <1>5 DEF TypeOK, With
<1>9. /\ DOMAIN endpointIndex' = DOMAIN endpointIndex \cup {g}
      /\ endpointIndex' \in [DOMAIN endpointIndex' -> [topic : Topic, pub : BOOLEAN]]
  BY <1>1, <1>2, <1>6 DEF TypeOK, With
<1>10. endpointSamples' \in [Guid -> SUBSET {"data", "dispose"}]
  BY <1>7, SamplesType DEF TypeOK
<1> QED BY <1>1, <1>8, <1>9, <1>10 DEF TypeOK

LEMMA TypeRemove ==
  ASSUME TypeOK, NEW g \in Guid, RemoveEndpoint(g)
  PROVE  /\ DOMAIN topics' \subseteq DOMAIN topics
         /\ topics' \in [DOMAIN topics' -> TopicInfo]
         /\ DOMAIN endpointIndex' = DOMAIN endpointIndex \ {g}
         /\ endpointIndex' \in [DOMAIN endpointIndex' -> [topic : Topic, pub : BOOLEAN]]
         /\ endpointSamples' \in [Guid -> SUBSET {"data", "dispose"}]
         /\ DOMAIN statsReaders' \subseteq DOMAIN statsReaders
         /\ statsReaders' \in [DOMAIN statsReaders' -> BOOLEAN]
         /\ DOMAIN payloadReaders' \subseteq DOMAIN payloadReaders
         /\ payloadReaders' \in [DOMAIN payloadReaders' -> BOOLEAN]
<1> DEFINE name == endpointIndex[g].topic
           info == WithoutEndpoint(topics[name], g)
           left == Taken(endpointSamples, g)
<1>1. left \in [Guid -> SUBSET {"data", "dispose"}]
  BY SamplesType DEF TypeOK
<1>2. name \in DOMAIN topics => info \in TopicInfo
  <2> SUFFICES ASSUME name \in DOMAIN topics PROVE info \in TopicInfo
    OBVIOUS
  <2> HIDE DEF name
  <2>1. topics[name] \in TopicInfo
    BY DEF TypeOK
  <2> QED BY <2>1 DEF WithoutEndpoint, TopicInfo
<1>3. CASE g \notin DOMAIN endpointIndex
  BY <1>1, <1>3 DEF RemoveEndpoint, TypeOK
<1>4. CASE /\ g \in DOMAIN endpointIndex
           /\ topics' = [topics EXCEPT ![name] = info]
           /\ endpointIndex' = Without(endpointIndex, g)
           /\ endpointSamples' = left
           /\ UNCHANGED <<statsReaders, payloadReaders>>
  <2>1. /\ DOMAIN endpointIndex' = DOMAIN endpointIndex \ {g}
        /\ endpointIndex' \in [DOMAIN endpointIndex' -> [topic : Topic, pub : BOOLEAN]]
    BY <1>4 DEF TypeOK, Without, Restrict
  <2>2. DOMAIN topics' = DOMAIN topics /\ topics' \in [DOMAIN topics -> TopicInfo]
    <3> HIDE DEF name, info
    <3> QED BY <1>2, <1>4 DEF TypeOK
  <2> QED BY <1>1, <1>4, <2>1, <2>2 DEF TypeOK
<1>5. CASE /\ g \in DOMAIN endpointIndex
           /\ topics' = Without(topics, name)
           /\ endpointIndex' = Without(endpointIndex, g)
           /\ DropTrackers(name)
           /\ endpointSamples' \in Disposals(left, TrackerGuids(name))
  <2>1. /\ DOMAIN endpointIndex' = DOMAIN endpointIndex \ {g}
        /\ endpointIndex' \in [DOMAIN endpointIndex' -> [topic : Topic, pub : BOOLEAN]]
    BY <1>5 DEF TypeOK, Without, Restrict
  <2>2. /\ DOMAIN topics' = DOMAIN topics \ {name}
        /\ topics' \in [DOMAIN topics' -> TopicInfo]
    BY <1>5 DEF TypeOK, Without, Restrict
  <2>3. /\ DOMAIN statsReaders' = DOMAIN statsReaders \ {name}
        /\ statsReaders' \in [DOMAIN statsReaders' -> BOOLEAN]
    BY <1>5 DEF TypeOK, DropTrackers, Without, Restrict
  <2>4. /\ DOMAIN payloadReaders' = DOMAIN payloadReaders \ {name}
        /\ payloadReaders' \in [DOMAIN payloadReaders' -> BOOLEAN]
    BY <1>5 DEF TypeOK, DropTrackers, Without, Restrict
  <2>5. endpointSamples' \in [Guid -> SUBSET {"data", "dispose"}]
    <3> HIDE DEF left
    <3> QED BY <1>1, <1>5, SamplesType
  <2> QED BY <2>1, <2>2, <2>3, <2>4, <2>5
<1> QED BY <1>3, <1>4, <1>5 DEF RemoveEndpoint

\* Every step keeps every field in its type.
LEMMA TypeStep == TypeOK /\ [Next]_vars => TypeOK'
<1> SUFFICES ASSUME TypeOK, [Next]_vars PROVE TypeOK'
  OBVIOUS
<1>1. CASE UNCHANGED vars
  BY <1>1 DEF TypeOK, vars, graphVars, sampleVars, registryVars, trackerVars
<1>2. CASE GraphStep
  <2> USE SamplesType DEF TypeOK, registryVars, trackerVars, Guid
  <2>1. ASSUME NEW p \in Participant, ParticipantUp(p) PROVE TypeOK'
    BY <2>1 DEF ParticipantUp
  <2>2. ASSUME NEW p \in Participant, ParticipantLost(p) PROVE TypeOK'
    BY <2>2 DEF ParticipantLost
  <2>3. ASSUME NEW e \in Endpoint, EndpointUp(e) PROVE TypeOK'
    BY <2>3 DEF EndpointUp
  <2>4. ASSUME NEW e \in Endpoint, EndpointLost(e) PROVE TypeOK'
    BY <2>4 DEF EndpointLost
  <2> QED BY <1>2, <2>1, <2>2, <2>3, <2>4 DEF GraphStep
<1>3. CASE PollStep
  <2>1. ASSUME NEW p \in Participant, TakeParticipant(p) PROVE TypeOK'
    <3>1. participantSamples' \in [Participant -> SUBSET {"data", "dispose"}]
      BY <2>1, SamplesType DEF TakeParticipant, TypeOK
    <3>2. participants' \in SUBSET Participant
      BY <2>1 DEF TakeParticipant, KnownAfter, TypeOK
    <3> QED BY <2>1, <3>1, <3>2 DEF TakeParticipant, TypeOK, graphVars, trackerVars
  <2>2. ASSUME NEW g \in Guid, TakeEndpoint(g) PROVE TypeOK'
    <3> DEFINE data == FirstSample(endpointSamples[g]) = "data"
    <3>1. UNCHANGED <<graphVars, participantSamples, participant, ownKeyKnown, phase,
                      participants, writers>>
      BY <2>2 DEF TakeEndpoint
    <3>2. CASE Registers(g) /\ RegisterEndpoint(g)
      <4>1. UNCHANGED <<statsReaders, payloadReaders>>
        BY <3>2 DEF RegisterEndpoint
      <4> QED BY <3>1, <3>2, <4>1, TypeRegister DEF TypeOK, graphVars
    <3>3. CASE SkipOwn(g)
      <4>1. endpointSamples' \in [Guid -> SUBSET {"data", "dispose"}]
        BY <3>3, SamplesType DEF SkipOwn, TypeOK
      <4> QED BY <3>1, <3>3, <4>1 DEF SkipOwn, TypeOK, graphVars
    <3>4. CASE RemoveEndpoint(g)
      BY <3>1, <3>4, TypeRemove DEF TypeOK, graphVars
    <3> QED BY <2>2, <3>2, <3>3, <3>4 DEF TakeEndpoint
  <2>3. CASE PollBegin \/ ParticipantsDrained \/ PublicationsDrained \/ SubscriptionsDrained
    BY <2>3 DEF PollBegin, ParticipantsDrained, PublicationsDrained, SubscriptionsDrained,
                TypeOK, Phases, graphVars, sampleVars, registryVars, trackerVars
  <2> QED BY <1>3, <2>1, <2>2, <2>3 DEF PollStep
<1>4. CASE CallStep
  <2>1. CASE Initialize
    BY <2>1 DEF Initialize, TypeOK, graphVars, sampleVars, registryVars, trackerVars
  <2>2. CASE Shutdown
    BY <2>2 DEF Shutdown, ClearTables, TypeOK, NothingPending, NoEntries
  <2>3. ASSUME NEW t \in Topic, WatchTopic(t) PROVE TypeOK'
    <3>1. endpointSamples' \in [Guid -> SUBSET {"data", "dispose"}]
      BY <2>3, SamplesType, OwnGuidExists DEF WatchTopic, TypeOK
    <3> QED BY <2>3, <3>1 DEF WatchTopic, With, TypeOK, graphVars, registryVars
  <2>4. ASSUME NEW t \in Topic, UnwatchTopic(t) PROVE TypeOK'
    <3>1. endpointSamples' \in [Guid -> SUBSET {"data", "dispose"}]
      BY <2>4, SamplesType, OwnGuidExists DEF UnwatchTopic, TypeOK
    <3> QED BY <2>4, <3>1 DEF UnwatchTopic, Without, Restrict, TypeOK, graphVars, registryVars
  <2>5. ASSUME NEW t \in Topic, WatchPayload(t) PROVE TypeOK'
    <3>1. endpointSamples' \in [Guid -> SUBSET {"data", "dispose"}]
      BY <2>5, SamplesType, OwnGuidExists DEF WatchPayload, TypeOK
    <3> QED BY <2>5, <3>1 DEF WatchPayload, With, TypeOK, graphVars, registryVars
  <2>6. ASSUME NEW t \in Topic, UnwatchPayload(t) PROVE TypeOK'
    <3>1. endpointSamples' \in [Guid -> SUBSET {"data", "dispose"}]
      BY <2>6, SamplesType, OwnGuidExists DEF UnwatchPayload, TypeOK
    <3> QED BY <2>6, <3>1 DEF UnwatchPayload, Without, Restrict, TypeOK, graphVars, registryVars
  <2>7. ASSUME NEW t \in PublishTopics, Publish(t) \/ StopPublishing(t) PROVE TypeOK'
    <3>1. t \in Topic
      BY TableAssumption
    <3>2. <<"writer", t>> \in Guid
      BY <3>1, OwnGuidExists
    <3>3. CASE Publish(t)
      BY <3>1, <3>2, <3>3, SamplesType DEF Publish, TypeOK, graphVars, registryVars
    <3>4. CASE StopPublishing(t)
      BY <3>1, <3>2, <3>4, SamplesType DEF StopPublishing, TypeOK, graphVars, registryVars
    <3> QED BY <2>7, <3>3, <3>4
  <2> QED BY <1>4, <2>1, <2>2, <2>3, <2>4, <2>5, <2>6, <2>7 DEF CallStep
<1> QED BY <1>1, <1>2, <1>3, <1>4 DEF Next

\* Every field of DDSManager, and every pending sample, has its type in every
\* reachable state, for every graph.
THEOREM TypeCorrect == Spec => []TypeOK
<1>1. Init => TypeOK
  BY TypeInit
<1>2. TypeOK /\ [Next]_vars => TypeOK'
  BY TypeStep
<1> QED BY <1>1, <1>2, PTL DEF Spec

-----------------------------------------------------------------------------
(* The registry: index, entries, trackers and participant together.  None   *)
(* of the parts is inductive alone: removeEndpoint trusts the index to find *)
(* the entry and the side, and the trackers go only because the entry does. *)

\* Nothing of a session survives shutdown into the next initialize: with no
\* participant there is no entry, no identity, no reader, no writer.
DownIsEmpty ==
  ~participant =>
    /\ phase = "idle"
    /\ DOMAIN topics = {} /\ DOMAIN endpointIndex = {} /\ participants = {}
    /\ DOMAIN statsReaders = {} /\ DOMAIN payloadReaders = {} /\ writers = {}

RegistryInv ==
  /\ TypeOK
  /\ IndexIsInverse
  /\ NoOrphanTopic
  /\ TrackersFollowTopics
  /\ DownIsEmpty

\* A tracker step leaves the entries alone.
LEMMA RegistryFrame ==
  ASSUME IndexIsInverse, NoOrphanTopic, UNCHANGED <<topics, endpointIndex>>
  PROVE  IndexIsInverse' /\ NoOrphanTopic'
BY DEF IndexIsInverse, NoOrphanTopic, Side

LEMMA RegistryRegister ==
  ASSUME RegistryInv, NEW g \in Guid, Registers(g), RegisterEndpoint(g)
  PROVE  IndexIsInverse' /\ NoOrphanTopic' /\ TrackersFollowTopics'
<1> DEFINE name == TopicName(g)
           info == WithEndpoint(InfoOf(name), g)
<1>1. name \in Topic /\ IsPub(g) \in BOOLEAN
  BY SideOf
<1>2. InfoOf(name) \in TopicInfo
  BY InfoType DEF RegistryInv
<1>3. /\ info.publishers = InfoOf(name).publishers \cup (IF IsPub(g) THEN {g} ELSE {})
      /\ info.subscribers = InfoOf(name).subscribers \cup (IF IsPub(g) THEN {} ELSE {g})
  BY <1>1, <1>2 DEF WithEndpoint, TopicInfo
<1>4. /\ DOMAIN topics' = DOMAIN topics \cup {name}
      /\ topics'[name] = info
      /\ \A t \in DOMAIN topics \ {name} : topics'[t] = topics[t]
  BY DEF RegisterEndpoint, With
<1>5. /\ DOMAIN endpointIndex' = DOMAIN endpointIndex \cup {g}
      /\ endpointIndex'[g] = [topic |-> name, pub |-> IsPub(g)]
      /\ \A k \in DOMAIN endpointIndex \ {g} : endpointIndex'[k] = endpointIndex[k]
  BY DEF RegisterEndpoint, With
<1>6. UNCHANGED <<statsReaders, payloadReaders>>
  BY DEF RegisterEndpoint
<1>7. \A b \in BOOLEAN :
        Side(name, b)' = (IF name \in DOMAIN topics THEN Side(name, b) ELSE {})
                           \cup (IF b = IsPub(g) THEN {g} ELSE {})
  <2> HIDE DEF name, info
  <2>1. InfoOf(name).publishers = (IF name \in DOMAIN topics THEN Side(name, TRUE) ELSE {})
    BY DEF InfoOf, NewTopicInfo, Side
  <2>2. InfoOf(name).subscribers = (IF name \in DOMAIN topics THEN Side(name, FALSE) ELSE {})
    BY DEF InfoOf, NewTopicInfo, Side
  <2> QED BY <1>1, <1>3, <1>4, <2>1, <2>2 DEF Side
<1>8. \A b \in BOOLEAN, t \in DOMAIN topics \ {name} : Side(t, b)' = Side(t, b)
  BY <1>4 DEF Side
<1> HIDE DEF name, info
<1>9. IndexIsInverse'
  <2>1. ASSUME NEW k \in DOMAIN endpointIndex'
        PROVE  /\ endpointIndex'[k] = [topic |-> TopicName(k), pub |-> IsPub(k)]
               /\ endpointIndex'[k].topic \in DOMAIN topics'
               /\ k \in Side(endpointIndex[k].topic, endpointIndex[k].pub)'
    <3>1. CASE k = g
      BY <1>1, <1>4, <1>5, <1>7, <3>1 DEF name
    <3>2. CASE k # g
      <4>1. /\ k \in DOMAIN endpointIndex
            /\ endpointIndex'[k] = endpointIndex[k]
            /\ endpointIndex[k] = [topic |-> TopicName(k), pub |-> IsPub(k)]
            /\ endpointIndex[k].topic \in DOMAIN topics
            /\ endpointIndex[k].pub \in BOOLEAN
            /\ k \in Side(endpointIndex[k].topic, endpointIndex[k].pub)
        BY <1>5, <3>2 DEF RegistryInv, IndexIsInverse, TypeOK
      <4> DEFINE t == endpointIndex[k].topic
                 b == endpointIndex[k].pub
      <4>2. k \in Side(t, b)'
        <5> HIDE DEF t, b
        <5> QED BY <1>7, <1>8, <4>1 DEF t, b
      <4> QED BY <1>4, <4>1, <4>2 DEF Side
    <3> QED BY <3>1, <3>2
  <2>2. ASSUME NEW t \in DOMAIN topics', NEW b \in BOOLEAN, NEW k \in Side(t, b)'
        PROVE  k \in DOMAIN endpointIndex' /\ endpointIndex'[k] = [topic |-> t, pub |-> b]
    <3>1. CASE k = g /\ t = name /\ b = IsPub(g)
      BY <1>5, <3>1
    <3>2. CASE ~(k = g /\ t = name /\ b = IsPub(g))
      <4>1. t \in DOMAIN topics /\ k \in Side(t, b)
        BY <1>4, <1>7, <1>8, <3>2
      <4>2. k \in DOMAIN endpointIndex /\ endpointIndex[k] = [topic |-> t, pub |-> b]
        BY <4>1 DEF RegistryInv, IndexIsInverse
      <4>3. k # g
        BY <3>2, <4>2 DEF name, RegistryInv, IndexIsInverse
      <4> QED BY <1>5, <4>2, <4>3
    <3> QED BY <3>1, <3>2
  <2> QED BY <2>1, <2>2 DEF IndexIsInverse, Side
<1>10. NoOrphanTopic'
  <2>1. ASSUME NEW t \in DOMAIN topics'
        PROVE  topics'[t].publishers \cup topics'[t].subscribers # {}
    <3>1. CASE t = name
      BY <1>3, <1>4, <3>1
    <3>2. CASE t # name
      BY <1>4, <3>2 DEF RegistryInv, NoOrphanTopic
    <3> QED BY <3>1, <3>2
  <2> QED BY <2>1 DEF NoOrphanTopic
<1>11. TrackersFollowTopics'
  BY <1>4, <1>6 DEF RegistryInv, TrackersFollowTopics
<1> QED BY <1>9, <1>10, <1>11

LEMMA RegistryRemove ==
  ASSUME RegistryInv, NEW g \in Guid, RemoveEndpoint(g)
  PROVE  IndexIsInverse' /\ NoOrphanTopic' /\ TrackersFollowTopics'
<1> DEFINE name == endpointIndex[g].topic
           isPub == endpointIndex[g].pub
           info == WithoutEndpoint(topics[name], g)
<1>1. CASE g \notin DOMAIN endpointIndex
  BY <1>1, RegistryFrame DEF RemoveEndpoint, RegistryInv, TrackersFollowTopics
<1>2. CASE g \in DOMAIN endpointIndex
  <2>1. /\ name \in DOMAIN topics
        /\ isPub \in BOOLEAN
        /\ topics[name] \in TopicInfo
        /\ g \in Side(name, isPub)
    BY <1>2 DEF RegistryInv, IndexIsInverse, TypeOK
  \* A guid is on one side of one entry only.
  <2>2. ASSUME NEW t \in DOMAIN topics, NEW b \in BOOLEAN, g \in Side(t, b)
        PROVE  t = name /\ b = isPub
    <3>1. endpointIndex[g] = [topic |-> t, pub |-> b]
      BY <2>2 DEF RegistryInv, IndexIsInverse
    <3> QED BY <3>1
  <2>3. /\ info \in TopicInfo
        /\ info.publishers = topics[name].publishers \ (IF isPub THEN {g} ELSE {})
        /\ info.subscribers = topics[name].subscribers \ (IF isPub THEN {} ELSE {g})
    <3> HIDE DEF name
    <3> QED BY <2>1 DEF WithoutEndpoint, TopicInfo
  <2>4. /\ DOMAIN endpointIndex' = DOMAIN endpointIndex \ {g}
        /\ \A k \in DOMAIN endpointIndex \ {g} : endpointIndex'[k] = endpointIndex[k]
    BY <1>2 DEF RemoveEndpoint, Without, Restrict
  <2> HIDE DEF name, isPub, info
  <2>5. CASE /\ ~Orphaned(info)
             /\ topics' = [topics EXCEPT ![name] = info]
             /\ UNCHANGED <<statsReaders, payloadReaders>>
    <3>1. /\ DOMAIN topics' = DOMAIN topics
          /\ topics'[name] = info
          /\ \A t \in DOMAIN topics \ {name} : topics'[t] = topics[t]
      BY <2>1, <2>5 DEF RegistryInv, TypeOK
    <3>2. \A t \in DOMAIN topics, b \in BOOLEAN : Side(t, b)' = Side(t, b) \ {g}
      <4>1. ASSUME NEW t \in DOMAIN topics, NEW b \in BOOLEAN
            PROVE  Side(t, b)' = Side(t, b) \ {g}
        <5>1. CASE t = name
          BY <2>2, <2>3, <3>1, <5>1 DEF Side
        <5>2. CASE t # name
          BY <2>2, <3>1, <5>2 DEF Side
        <5> QED BY <5>1, <5>2
      <4> QED BY <4>1
    <3>3. ASSUME NEW k \in DOMAIN endpointIndex'
          PROVE  /\ endpointIndex'[k] = [topic |-> TopicName(k), pub |-> IsPub(k)]
                 /\ endpointIndex'[k].topic \in DOMAIN topics'
                 /\ k \in Side(endpointIndex[k].topic, endpointIndex[k].pub)'
      <4>1. /\ k \in DOMAIN endpointIndex /\ k # g
            /\ endpointIndex'[k] = endpointIndex[k]
            /\ endpointIndex[k] = [topic |-> TopicName(k), pub |-> IsPub(k)]
            /\ endpointIndex[k].topic \in DOMAIN topics
            /\ endpointIndex[k].pub \in BOOLEAN
            /\ k \in Side(endpointIndex[k].topic, endpointIndex[k].pub)
        BY <2>4 DEF RegistryInv, IndexIsInverse, TypeOK
      <4> DEFINE t == endpointIndex[k].topic
                 b == endpointIndex[k].pub
      <4>2. k \in Side(t, b)'
        <5> HIDE DEF t, b
        <5> QED BY <3>2, <4>1 DEF t, b
      <4> QED BY <3>1, <4>1, <4>2 DEF Side
    <3>4. ASSUME NEW t \in DOMAIN topics', NEW b \in BOOLEAN, NEW k \in Side(t, b)'
          PROVE  k \in DOMAIN endpointIndex' /\ endpointIndex'[k] = [topic |-> t, pub |-> b]
      <4>1. t \in DOMAIN topics /\ k \in Side(t, b) /\ k # g
        BY <3>1, <3>2
      <4> QED BY <2>4, <4>1 DEF RegistryInv, IndexIsInverse
    <3>5. IndexIsInverse'
      BY <3>3, <3>4 DEF IndexIsInverse, Side
    <3>6. NoOrphanTopic'
      BY <2>5, <3>1 DEF NoOrphanTopic, Orphaned, RegistryInv
    <3>7. TrackersFollowTopics'
      BY <2>5, <3>1 DEF TrackersFollowTopics, RegistryInv
    <3> QED BY <3>5, <3>6, <3>7
  <2>6. CASE /\ Orphaned(info)
             /\ topics' = Without(topics, name)
             /\ DropTrackers(name)
    <3>1. /\ DOMAIN topics' = DOMAIN topics \ {name}
          /\ \A t \in DOMAIN topics \ {name} : topics'[t] = topics[t]
      BY <2>6 DEF Without, Restrict
    \* g was the last endpoint of the entry that goes
    <3>2. \A b \in BOOLEAN : Side(name, b) \subseteq {g}
      BY <2>3, <2>6 DEF Orphaned, Side
    <3>3. ASSUME NEW k \in DOMAIN endpointIndex'
          PROVE  /\ endpointIndex'[k] = [topic |-> TopicName(k), pub |-> IsPub(k)]
                 /\ endpointIndex'[k].topic \in DOMAIN topics'
                 /\ k \in Side(endpointIndex[k].topic, endpointIndex[k].pub)'
      <4>1. /\ k \in DOMAIN endpointIndex /\ k # g
            /\ endpointIndex'[k] = endpointIndex[k]
            /\ endpointIndex[k] = [topic |-> TopicName(k), pub |-> IsPub(k)]
            /\ endpointIndex[k].topic \in DOMAIN topics
            /\ endpointIndex[k].pub \in BOOLEAN
            /\ k \in Side(endpointIndex[k].topic, endpointIndex[k].pub)
        BY <2>4 DEF RegistryInv, IndexIsInverse, TypeOK
      <4> DEFINE t == endpointIndex[k].topic
                 b == endpointIndex[k].pub
      <4>2. t # name
        <5> HIDE DEF t, b
        <5> QED BY <3>2, <4>1 DEF t, b
      <4>3. k \in Side(t, b)'
        <5> HIDE DEF t, b
        <5> QED BY <3>1, <4>1, <4>2 DEF t, b, Side
      <4> QED BY <3>1, <4>1, <4>2, <4>3 DEF Side
    <3>4. ASSUME NEW t \in DOMAIN topics', NEW b \in BOOLEAN, NEW k \in Side(t, b)'
          PROVE  k \in DOMAIN endpointIndex' /\ endpointIndex'[k] = [topic |-> t, pub |-> b]
      <4>1. t \in DOMAIN topics \ {name} /\ k \in Side(t, b)
        BY <3>1 DEF Side
      <4>2. k # g
        BY <2>2, <4>1
      <4> QED BY <2>4, <4>1, <4>2 DEF RegistryInv, IndexIsInverse
    <3>5. IndexIsInverse'
      BY <3>3, <3>4 DEF IndexIsInverse, Side
    <3>6. NoOrphanTopic'
      BY <3>1 DEF NoOrphanTopic, RegistryInv
    <3>7. TrackersFollowTopics'
      BY <2>6, <3>1 DEF TrackersFollowTopics, RegistryInv, DropTrackers, Without, Restrict
    <3> QED BY <3>5, <3>6, <3>7
  <2>7. \/ /\ ~Orphaned(info)
           /\ topics' = [topics EXCEPT ![name] = info]
           /\ UNCHANGED <<statsReaders, payloadReaders>>
        \/ /\ Orphaned(info)
           /\ topics' = Without(topics, name)
           /\ DropTrackers(name)
    BY <1>2, <2>1 DEF RemoveEndpoint, name, info
  <2> QED BY <2>5, <2>6, <2>7
<1> QED BY <1>1, <1>2

\* Every step keeps the registry consistent.
LEMMA RegistryStep == RegistryInv /\ [Next]_vars => RegistryInv'
<1> SUFFICES ASSUME RegistryInv, [Next]_vars PROVE RegistryInv'
  OBVIOUS
<1>1. TypeOK'
  BY TypeStep DEF RegistryInv
<1> USE DEF TrackersFollowTopics, DownIsEmpty
<1>2. CASE UNCHANGED <<participant, ownKeyKnown, phase, registryVars, trackerVars>>
  BY <1>1, <1>2, RegistryFrame DEF RegistryInv, registryVars, trackerVars
<1>3. CASE GraphStep
  BY <1>2, <1>3 DEF GraphStep, ParticipantUp, ParticipantLost, EndpointUp, EndpointLost
<1>4. CASE PollStep
  <2>1. ASSUME NEW p \in Participant, TakeParticipant(p) PROVE RegistryInv'
    BY <1>1, <2>1, RegistryFrame DEF TakeParticipant, RegistryInv, trackerVars, graphVars
  <2>2. ASSUME NEW g \in Guid, TakeEndpoint(g) PROVE RegistryInv'
    <3>1. /\ UNCHANGED <<participant, phase, participants, writers>>
          /\ phase # "idle"
      BY <2>2 DEF TakeEndpoint
    <3>2. DownIsEmpty'
      BY <3>1 DEF RegistryInv
    <3>3. CASE Registers(g) /\ RegisterEndpoint(g)
      BY <1>1, <3>2, <3>3, RegistryRegister DEF RegistryInv
    <3>4. CASE SkipOwn(g)
      BY <1>1, <3>2, <3>4, RegistryFrame DEF RegistryInv, SkipOwn
    <3>5. CASE RemoveEndpoint(g)
      BY <1>1, <3>2, <3>5, RegistryRemove DEF RegistryInv
    <3> QED BY <2>2, <3>3, <3>4, <3>5 DEF TakeEndpoint
  <2>3. CASE PollBegin \/ ParticipantsDrained \/ PublicationsDrained \/ SubscriptionsDrained
    <3>1. participant /\ UNCHANGED <<participant, registryVars, trackerVars>>
      BY <2>3 DEF PollBegin, ParticipantsDrained, PublicationsDrained, SubscriptionsDrained,
                  RegistryInv
    <3> QED BY <1>1, <3>1, RegistryFrame DEF RegistryInv, registryVars, trackerVars
  <2> QED BY <1>4, <2>1, <2>2, <2>3 DEF PollStep
<1>5. CASE CallStep
  <2>1. CASE Initialize
    BY <1>1, <2>1, RegistryFrame DEF Initialize, RegistryInv, registryVars, trackerVars
  <2>2. CASE Shutdown
    <3>1. /\ topics' = NoEntries /\ endpointIndex' = NoEntries
          /\ statsReaders' = NoEntries /\ payloadReaders' = NoEntries
          /\ participants' = {} /\ writers' = {} /\ phase' = "idle"
      BY <2>2 DEF Shutdown, ClearTables
    <3>2. IndexIsInverse' /\ NoOrphanTopic'
      BY <3>1 DEF IndexIsInverse, NoOrphanTopic, NoEntries
    <3> QED BY <1>1, <3>1, <3>2 DEF RegistryInv, NoEntries
  <2>3. ASSUME NEW t \in Topic,
               \/ WatchTopic(t) \/ UnwatchTopic(t)
               \/ WatchPayload(t) \/ UnwatchPayload(t)
        PROVE  RegistryInv'
    <3>1. /\ UNCHANGED <<topics, endpointIndex, participants, participant, phase, writers>>
          /\ DOMAIN statsReaders' \subseteq DOMAIN topics
          /\ DOMAIN payloadReaders' \subseteq DOMAIN topics
      BY <2>3 DEF WatchTopic, UnwatchTopic, WatchPayload, UnwatchPayload, registryVars,
                  With, Without, Restrict, RegistryInv
    <3>2. DownIsEmpty'
      BY <3>1 DEF RegistryInv
    <3> QED BY <1>1, <3>1, <3>2, RegistryFrame DEF RegistryInv
  <2>4. ASSUME NEW t \in PublishTopics, Publish(t) \/ StopPublishing(t)
        PROVE  RegistryInv'
    <3>1. /\ UNCHANGED <<participant, phase, registryVars, statsReaders, payloadReaders>>
          /\ participant \/ t \in writers
      BY <2>4 DEF Publish, StopPublishing
    <3>2. participant
      BY <3>1 DEF RegistryInv
    <3> QED BY <1>1, <3>1, <3>2, RegistryFrame DEF RegistryInv, registryVars
  <2> QED BY <1>5, <2>1, <2>2, <2>3, <2>4 DEF CallStep
<1> QED BY <1>2, <1>3, <1>4, <1>5 DEF Next, vars

LEMMA RegistryInit == Init => RegistryInv
<1> SUFFICES ASSUME Init PROVE RegistryInv
  OBVIOUS
<1>1. DOMAIN topics = {} /\ DOMAIN endpointIndex = {}
  BY DEF Init, NoEntries
<1>2. IndexIsInverse /\ NoOrphanTopic
  BY <1>1 DEF IndexIsInverse, NoOrphanTopic
<1> QED BY <1>1, <1>2, TypeInit
        DEF RegistryInv, Init, TrackersFollowTopics, DownIsEmpty, NoEntries

\* The index, the entries, the trackers and the participant agree in every
\* reachable state: what drainEndpoints registers, removeEndpoint can undo, to
\* the last trace.
THEOREM RegistryCorrect ==
  Spec => [](IndexIsInverse /\ NoOrphanTopic /\ TrackersFollowTopics /\ DownIsEmpty)
<1>1. RegistryInv => IndexIsInverse /\ NoOrphanTopic /\ TrackersFollowTopics /\ DownIsEmpty
  BY DEF RegistryInv
<1> QED BY <1>1, RegistryInit, RegistryStep, PTL DEF Spec

\* A topic is listed only while somebody publishes or subscribes to it.
THEOREM NoOrphanCorrect == Spec => []NoOrphanTopic
BY RegistryCorrect, PTL

\* No tracker outlives the entry of its topic.
THEOREM TrackersCorrect == Spec => []TrackersFollowTopics
BY RegistryCorrect, PTL

\* Nothing of a participant is left after shutdown.
THEOREM DownCorrect == Spec => []DownIsEmpty
BY RegistryCorrect, PTL

\* ownParticipantKey_ does not change while there are entries, and what is
\* registered meanwhile is not its own.
LEMMA OwnStep == RegistryInv /\ OwnIsNotPresence /\ [Next]_vars => OwnIsNotPresence'
<1> SUFFICES ASSUME RegistryInv, OwnIsNotPresence, [Next]_vars PROVE OwnIsNotPresence'
  OBVIOUS
<1> USE DEF OwnIsNotPresence
<1>1. CASE UNCHANGED <<ownKeyKnown, topics>>
  BY <1>1 DEF ParticipantKey
<1>2. CASE Initialize
  BY <1>2 DEF Initialize, RegistryInv, DownIsEmpty, registryVars
<1>3. CASE Shutdown
  BY <1>3 DEF Shutdown, ClearTables, NoEntries
<1>4. ASSUME NEW g \in Guid, TakeEndpoint(g) PROVE OwnIsNotPresence'
  <2>1. ownKeyKnown' = ownKeyKnown
    BY <1>4 DEF TakeEndpoint
  <2>2. CASE Registers(g) /\ RegisterEndpoint(g)
    <3> DEFINE name == TopicName(g)
               info == WithEndpoint(InfoOf(name), g)
    <3>1. InfoOf(name) \in TopicInfo
      BY InfoType DEF RegistryInv
    <3>2. info.publishers \cup info.subscribers
            \subseteq InfoOf(name).publishers \cup InfoOf(name).subscribers \cup {g}
      BY <3>1 DEF WithEndpoint, TopicInfo
    <3>3. name \notin DOMAIN topics => InfoOf(name).publishers \cup InfoOf(name).subscribers = {}
      BY DEF InfoOf, NewTopicInfo
    <3>4. name \in DOMAIN topics => InfoOf(name) = topics[name]
      BY DEF InfoOf
    <3>5. /\ DOMAIN topics' = DOMAIN topics \cup {name}
          /\ topics'[name] = info
          /\ \A t \in DOMAIN topics \ {name} : topics'[t] = topics[t]
      BY <2>2 DEF RegisterEndpoint, With
    <3>6. ownKeyKnown => ParticipantKey(g) # OwnParticipant
      BY <2>2 DEF Registers, IsOwn
    <3> HIDE DEF name, info
    <3> QED BY <2>1, <3>2, <3>3, <3>4, <3>5, <3>6 DEF ParticipantKey
  <2>3. CASE SkipOwn(g)
    BY <1>1, <2>1, <2>3 DEF SkipOwn
  <2>4. CASE RemoveEndpoint(g)
    <3> DEFINE name == endpointIndex[g].topic
               info == WithoutEndpoint(topics[name], g)
    <3>1. name \in DOMAIN topics =>
            /\ info.publishers \subseteq topics[name].publishers
            /\ info.subscribers \subseteq topics[name].subscribers
      <4> HIDE DEF name
      <4> QED BY DEF WithoutEndpoint, TopicInfo, RegistryInv, TypeOK
    <3>2. \/ topics' = topics
          \/ topics' = [topics EXCEPT ![name] = info]
          \/ topics' = Without(topics, name)
      BY <2>4 DEF RemoveEndpoint
    <3> HIDE DEF name, info
    <3>3. \A t \in DOMAIN topics' :
            /\ t \in DOMAIN topics
            /\ topics'[t].publishers \subseteq topics[t].publishers
            /\ topics'[t].subscribers \subseteq topics[t].subscribers
      <4>1. CASE topics' = topics
        BY <4>1
      <4>2. CASE topics' = [topics EXCEPT ![name] = info]
        BY <3>1, <4>2 DEF RegistryInv, TypeOK
      <4>3. CASE topics' = Without(topics, name)
        BY <4>3 DEF Without, Restrict
      <4> QED BY <3>2, <4>1, <4>2, <4>3
    <3> QED BY <2>1, <3>3 DEF ParticipantKey
  <2> QED BY <1>4, <2>2, <2>3, <2>4 DEF TakeEndpoint
<1> QED BY <1>1, <1>2, <1>3, <1>4 DEF Next, GraphStep, PollStep, CallStep, ParticipantUp,
   ParticipantLost, EndpointUp, EndpointLost, TakeParticipant, PollBegin,
   ParticipantsDrained, PublicationsDrained, SubscriptionsDrained, WatchTopic,
   UnwatchTopic, WatchPayload, UnwatchPayload, Publish, StopPublishing, registryVars, vars

\* The application is never counted as a publisher or a subscriber once it knows
\* its key.
THEOREM OwnNeverListed == Spec => []OwnIsNotPresence
<1>1. Init => OwnIsNotPresence
  BY DEF Init, OwnIsNotPresence
<1> QED BY <1>1, RegistryInit, RegistryStep, OwnStep, PTL DEF Spec

-----------------------------------------------------------------------------
(* QoS.                                                                     *)

QosStep ==
  \A t \in DOMAIN topics' :
    topics'[t].qos # InfoOf(t).qos =>
      /\ phase = "publications"
      /\ \E g \in topics'[t].publishers : topics'[t].qos = QosLabels(InfoOf(t).qos, QosOf[g])

LEMMA QosTake ==
  ASSUME TypeOK, NEW g \in Guid, TakeEndpoint(g)
  PROVE  QosStep
<1> SUFFICES ASSUME NEW t \in DOMAIN topics',
                    topics'[t].qos # InfoOf(t).qos
             PROVE  /\ phase = "publications"
                    /\ \E e \in topics'[t].publishers :
                         topics'[t].qos = QosLabels(InfoOf(t).qos, QosOf[e])
  BY DEF QosStep
<1>1. /\ InfoOf(t) \in TopicInfo
      /\ t \in DOMAIN topics => InfoOf(t) = topics[t] /\ topics[t] \in TopicInfo
  BY InfoType DEF InfoOf, TypeOK
<1>2. CASE Registers(g) /\ RegisterEndpoint(g)
  <2>1. IF t = TopicName(g) THEN topics'[t] = WithEndpoint(InfoOf(t), g)
                            ELSE t \in DOMAIN topics /\ topics'[t] = topics[t]
    BY <1>2 DEF RegisterEndpoint, With
  <2>2. t = TopicName(g) /\ IsPub(g)
    BY <1>1, <2>1 DEF WithEndpoint, TopicInfo
  <2>3. /\ topics'[t].publishers = InfoOf(t).publishers \cup {g}
        /\ topics'[t].qos = QosLabels(InfoOf(t).qos, QosOf[g])
    BY <1>1, <2>1, <2>2 DEF WithEndpoint, TopicInfo
  <2>4. phase = "publications"
    BY <2>2 DEF TakeEndpoint
  <2> QED BY <2>3, <2>4
<1>3. CASE SkipOwn(g)
  BY <1>1, <1>3 DEF SkipOwn
<1>4. CASE RemoveEndpoint(g)
  <2> DEFINE name == endpointIndex[g].topic
             info == WithoutEndpoint(topics[name], g)
  <2>1. t \in DOMAIN topics /\ name = t => info.qos = topics[t].qos
    BY <1>1 DEF WithoutEndpoint, TopicInfo
  <2>2. \/ topics' = topics
        \/ topics' = [topics EXCEPT ![name] = info]
        \/ topics' = Without(topics, name)
    BY <1>4 DEF RemoveEndpoint
  <2> HIDE DEF name, info
  <2> QED BY <1>1, <2>1, <2>2 DEF Without, Restrict
<1> QED BY <1>2, <1>3, <1>4 DEF TakeEndpoint

\* What an entry, new or not, says of a publisher's QoS changes only when a publication of
\* the topic is taken up, and then says what that publication offers.
THEOREM QosCorrect == Spec => OnlyPublishersSetQos
<1>1. TypeOK /\ [Next]_vars => [QosStep]_vars
  <2> SUFFICES ASSUME TypeOK, [Next]_vars, ~UNCHANGED vars PROVE QosStep
    OBVIOUS
  <2>1. CASE topics' = topics
    BY <2>1 DEF QosStep, InfoOf
  <2>2. CASE Shutdown
    BY <2>2 DEF Shutdown, ClearTables, NoEntries, QosStep
  <2>3. ASSUME NEW g \in Guid, TakeEndpoint(g) PROVE QosStep
    BY <2>3, QosTake
  <2> QED BY <2>1, <2>2, <2>3 DEF Next, GraphStep, PollStep, CallStep, ParticipantUp,
     ParticipantLost, EndpointUp, EndpointLost, TakeParticipant, PollBegin,
     ParticipantsDrained, PublicationsDrained, SubscriptionsDrained, Initialize, WatchTopic,
     UnwatchTopic, WatchPayload, UnwatchPayload, Publish, StopPublishing, registryVars
<1> QED BY <1>1, TypeCorrect, PTL DEF Spec, OnlyPublishersSetQos, QosStep
=============================================================================
