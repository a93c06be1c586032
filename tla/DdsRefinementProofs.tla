-------------------------- MODULE DdsRefinementProofs -------------------------
(***************************************************************************)
(* The registry of DdsManager implements TopicRegistry, and identities are *)
(* not lost: what exists is listed or a pending sample will list it, and   *)
(* what is listed without existing is pending, or was missed.              *)
(***************************************************************************)
EXTENDS DdsManagerProofs

-----------------------------------------------------------------------------
(* Identities.                                                              *)

\* What the participant reader holds accounts for every live participant that
\* is not in participants_.
IdentityInv ==
  \A p \in Participant :
    /\ p \in liveParticipants => p \in participants \/ "data" \in participantSamples[p]
    /\ "dispose" \in participantSamples[p] => p \notin liveParticipants

LEMMA IdentityStep == TypeOK /\ IdentityInv /\ [Next]_vars => IdentityInv'
<1> SUFFICES ASSUME TypeOK, IdentityInv, [Next]_vars PROVE IdentityInv'
  OBVIOUS
<1> USE DEF IdentityInv
<1>1. CASE UNCHANGED <<liveParticipants, participantSamples, participants>>
  BY <1>1
<1>2. ASSUME NEW p \in Participant, ParticipantUp(p) PROVE IdentityInv'
  BY <1>2 DEF ParticipantUp, Announced, registryVars, TypeOK
<1>3. ASSUME NEW p \in Participant, ParticipantLost(p) PROVE IdentityInv'
  BY <1>3, DisposalEffect DEF ParticipantLost, registryVars, TypeOK
<1>4. ASSUME NEW p \in Participant, TakeParticipant(p) PROVE IdentityInv'
  BY <1>4 DEF TakeParticipant, KnownAfter, Taken, FirstSample, graphVars, TypeOK
<1>5. CASE Shutdown
  BY <1>5 DEF Shutdown, NothingPending
<1>6. CASE \/ \E e \in Endpoint : EndpointUp(e) \/ EndpointLost(e)
           \/ PollBegin \/ ParticipantsDrained \/ PublicationsDrained \/ SubscriptionsDrained
           \/ \E g \in Guid : TakeEndpoint(g)
           \/ Initialize
           \/ \E t \in Topic : \/ WatchTopic(t) \/ UnwatchTopic(t)
                               \/ WatchPayload(t) \/ UnwatchPayload(t)
           \/ \E t \in PublishTopics : Publish(t) \/ StopPublishing(t)
  BY <1>1, <1>6 DEF EndpointUp, EndpointLost, PollBegin, ParticipantsDrained,
     PublicationsDrained, SubscriptionsDrained, TakeEndpoint, Initialize, WatchTopic,
     UnwatchTopic, WatchPayload, UnwatchPayload, Publish, StopPublishing,
     graphVars, sampleVars, registryVars
<1>7. CASE UNCHANGED vars
  BY <1>1, <1>7 DEF vars, graphVars, sampleVars, registryVars
<1> QED BY <1>2, <1>3, <1>4, <1>5, <1>6, <1>7 DEF Next, GraphStep, PollStep, CallStep

\* A node is shown as unknown only while the sample that names it is pending,
\* or its participant is gone.
THEOREM IdentityCorrect == Spec => []UnknownIsTransient
<1>1. Init => IdentityInv
  BY DEF Init, IdentityInv, NothingPending
<1>2. TypeOK /\ IdentityInv => UnknownIsTransient
  BY GraphAssumption DEF IdentityInv, UnknownIsTransient, TypeOK, ParticipantKey
<1> QED BY <1>1, <1>2, IdentityStep, TypeCorrect, PTL DEF Spec

-----------------------------------------------------------------------------
(* The endpoints.                                                           *)

\* The remote endpoints of the entries are those of the index, all of ROS topics.
ListIsIndex ==
  /\ ListedEndpoints = Endpoint \cap DOMAIN endpointIndex
  /\ ListedEndpoints \subseteq RosEndpoints

LEMMA ListedIsIndex == RegistryInv => ListIsIndex
<1> SUFFICES ASSUME RegistryInv PROVE ListIsIndex
  OBVIOUS
<1>1. ASSUME NEW g \in Endpoint \cap DOMAIN endpointIndex PROVE g \in ListedEndpoints
  <2>1. /\ endpointIndex[g].topic \in DOMAIN topics
        /\ g \in Side(endpointIndex[g].topic, endpointIndex[g].pub)
    BY DEF RegistryInv, IndexIsInverse
  <2> QED BY <2>1 DEF Side, ListedEndpoints
<1>2. ASSUME NEW g \in ListedEndpoints PROVE g \in Endpoint \cap DOMAIN endpointIndex
  <2>1. PICK t \in DOMAIN topics : g \in topics[t].publishers \cup topics[t].subscribers
    BY DEF ListedEndpoints
  <2>2. g \in Side(t, TRUE) \/ g \in Side(t, FALSE)
    BY <2>1 DEF Side
  <2> QED BY <2>2 DEF RegistryInv, IndexIsInverse, ListedEndpoints
<1>3. ASSUME NEW g \in Endpoint \cap DOMAIN endpointIndex PROVE g \in RosEndpoints
  <2>1. /\ endpointIndex[g] \in [topic : Topic, pub : BOOLEAN]
        /\ endpointIndex[g] = [topic |-> TopicName(g), pub |-> IsPub(g)]
    BY DEF RegistryInv, IndexIsInverse, TypeOK
  <2>2. TopicName(g) \in Topic
    BY <2>1
  <2> QED BY <2>2, GraphAssumption DEF RosEndpoints, TopicName
<1> QED BY <1>1, <1>2, <1>3 DEF ListIsIndex

\* The trackers' own readers have no part in the samples of remote endpoints.
LEMMA TrackersAreOwn ==
  ASSUME TypeOK, NEW t, NEW e \in Endpoint
  PROVE  e \notin TrackerGuids(t)
BY GraphAssumption DEF TrackerGuids, OwnGuid, TypeOK

\* One sample of a remote endpoint: nothing else is consumed, and the index
\* follows the sample.
LEMMA TakeEffect ==
  ASSUME RegistryInv, NEW g \in Guid, TakeEndpoint(g)
  PROVE  /\ \A e \in Endpoint \ {g} : endpointSamples'[e] = endpointSamples[e]
         /\ g \in Endpoint =>
              endpointSamples'[g] = endpointSamples[g] \ {FirstSample(endpointSamples[g])}
         /\ Endpoint \cap DOMAIN endpointIndex' =
              IF g \in RosEndpoints /\ FirstSample(endpointSamples[g]) = "data"
                THEN (Endpoint \cap DOMAIN endpointIndex) \cup {g}
                ELSE (Endpoint \cap DOMAIN endpointIndex) \ {g}
<1> DEFINE left == Taken(endpointSamples, g)
           indexed == Endpoint \cap DOMAIN endpointIndex
<1>1. /\ \A e \in Endpoint \ {g} : left[e] = endpointSamples[e]
      /\ left[g] = endpointSamples[g] \ {FirstSample(endpointSamples[g])}
      /\ DOMAIN left = Guid
      /\ Endpoint \subseteq Guid
  BY DEF Taken, RegistryInv, TypeOK, Guid
<1>2. indexed \subseteq RosEndpoints
  BY ListedIsIndex DEF ListIsIndex
<1> HIDE DEF left
<1>3. CASE FirstSample(endpointSamples[g]) = "data" /\ Registers(g) /\ RegisterEndpoint(g)
  <2>1. g \in Endpoint <=> g \in RosEndpoints
    BY <1>3, GraphAssumption DEF RosEndpoints, Registers, TopicName
  <2>2. DOMAIN endpointIndex' = DOMAIN endpointIndex \cup {g} /\ endpointSamples' = left
    BY <1>3 DEF RegisterEndpoint, With, left
  <2> QED BY <1>1, <1>3, <2>1, <2>2
<1>4. CASE IsOwn(g) /\ SkipOwn(g)
  <2>1. g \notin Endpoint
    BY <1>4, GraphAssumption DEF IsOwn, ParticipantKey
  <2> QED BY <1>1, <1>2, <1>4, <2>1 DEF SkipOwn, left, RosEndpoints
<1>5. CASE /\ \/ FirstSample(endpointSamples[g]) # "data"
              \/ TopicName(g) = NoTopic
           /\ RemoveEndpoint(g)
  <2>1. ~(g \in RosEndpoints /\ FirstSample(endpointSamples[g]) = "data")
    BY <1>5 DEF RosEndpoints, TopicName
  <2>2. DOMAIN endpointIndex' = DOMAIN endpointIndex \ {g}
    BY <1>5, TypeRemove DEF RegistryInv
  <2>3. \/ endpointSamples' = left
        \/ \E t : endpointSamples' \in Disposals(left, TrackerGuids(t))
    BY <1>5 DEF RemoveEndpoint, left
  <2>4. \A e \in Endpoint : endpointSamples'[e] = left[e]
    BY <1>1, <2>3, TrackersAreOwn, DisposalEffect DEF RegistryInv
  <2> QED BY <1>1, <2>1, <2>2, <2>4
<1> QED BY <1>3, <1>4, <1>5 DEF TakeEndpoint

\* No other call or poll step touches the endpoints or their samples.
LEMMA OtherSteps ==
  ASSUME TypeOK,
         \/ \E p \in Participant : ParticipantUp(p) \/ ParticipantLost(p) \/ TakeParticipant(p)
         \/ PollBegin \/ ParticipantsDrained \/ PublicationsDrained \/ SubscriptionsDrained
         \/ Initialize
         \/ \E t \in Topic : \/ WatchTopic(t) \/ UnwatchTopic(t)
                             \/ WatchPayload(t) \/ UnwatchPayload(t)
         \/ \E t \in PublishTopics : Publish(t) \/ StopPublishing(t)
         \/ UNCHANGED vars
  PROVE  /\ UNCHANGED <<liveEndpoints, topics, endpointIndex>>
         /\ \A e \in Endpoint : endpointSamples'[e] = endpointSamples[e]
<1> USE DEF graphVars, sampleVars, registryVars
<1>1. CASE \/ \E p \in Participant : ParticipantUp(p) \/ ParticipantLost(p) \/ TakeParticipant(p)
           \/ PollBegin \/ ParticipantsDrained \/ PublicationsDrained \/ SubscriptionsDrained
           \/ Initialize
           \/ UNCHANGED vars
  BY <1>1 DEF ParticipantUp, ParticipantLost, TakeParticipant, PollBegin, ParticipantsDrained,
     PublicationsDrained, SubscriptionsDrained, Initialize, vars
<1>2. \A t \in Topic, kind \in {"stats", "payload", "writer"}, e \in Endpoint : <<kind, t>> # e
  BY GraphAssumption DEF OwnGuid
<1>3. DOMAIN endpointSamples = Guid /\ Endpoint \subseteq Guid
  BY DEF TypeOK, Guid
<1>4. ASSUME NEW t \in Topic,
             \/ WatchTopic(t) \/ UnwatchTopic(t) \/ WatchPayload(t) \/ UnwatchPayload(t)
             \/ Publish(t) \/ StopPublishing(t)
      PROVE  /\ UNCHANGED <<liveEndpoints, topics, endpointIndex>>
             /\ \A e \in Endpoint : endpointSamples'[e] = endpointSamples[e]
  BY <1>2, <1>3, <1>4, DisposalEffect DEF WatchTopic, UnwatchTopic, WatchPayload,
     UnwatchPayload, Publish, StopPublishing, Announced
<1> QED BY <1>1, <1>4, TableAssumption

\* No sample says of a live endpoint that it is gone, and one that was taken
\* has put it into the index.
LiveInv ==
  \A e \in liveEndpoints :
    /\ "dispose" \notin endpointSamples[e]
    /\ endpointSamples[e] = {} /\ e \in RosEndpoints => e \in DOMAIN endpointIndex

LEMMA LiveStep == RegistryInv /\ LiveInv /\ [Next]_vars => LiveInv'
<1> SUFFICES ASSUME RegistryInv, LiveInv, [Next]_vars PROVE LiveInv'
  OBVIOUS
<1> USE DEF LiveInv
<1>0. /\ endpointSamples \in [Guid -> SUBSET {"data", "dispose"}]
      /\ Endpoint \subseteq Guid /\ liveEndpoints \subseteq Endpoint
  BY DEF RegistryInv, TypeOK, Guid
<1>1. ASSUME NEW e \in Endpoint, EndpointUp(e) PROVE LiveInv'
  BY <1>0, <1>1 DEF EndpointUp, Announced, registryVars
<1>2. ASSUME NEW e \in Endpoint, EndpointLost(e) PROVE LiveInv'
  BY <1>0, <1>2, DisposalEffect DEF EndpointLost, registryVars
<1>3. ASSUME NEW g \in Guid, TakeEndpoint(g) PROVE LiveInv'
  <2>1. liveEndpoints' = liveEndpoints /\ endpointSamples[g] # {}
    BY <1>3 DEF TakeEndpoint, graphVars
  <2>2. ASSUME NEW e \in Endpoint \ {g}
        PROVE  /\ endpointSamples'[e] = endpointSamples[e]
               /\ e \in DOMAIN endpointIndex => e \in DOMAIN endpointIndex'
    BY <1>3, TakeEffect
  <2>3. ASSUME g \in liveEndpoints
        PROVE  /\ endpointSamples'[g] = {}
               /\ g \in RosEndpoints => g \in DOMAIN endpointIndex'
    <3>1. endpointSamples[g] = {"data"}
      BY <1>0, <2>1, <2>3
    <3>2. FirstSample(endpointSamples[g]) = "data"
      BY <3>1 DEF FirstSample
    <3> QED BY <1>0, <1>3, <2>3, <3>1, <3>2, TakeEffect
  <2> QED BY <1>0, <2>1, <2>2, <2>3
<1>4. CASE Shutdown
  BY <1>4 DEF Shutdown
<1>5. ASSUME UNCHANGED <<liveEndpoints, topics, endpointIndex>>,
             \A e \in Endpoint : endpointSamples'[e] = endpointSamples[e]
      PROVE  LiveInv'
  BY <1>0, <1>5
<1>6. TypeOK
  BY DEF RegistryInv
<1> QED BY <1>1, <1>2, <1>3, <1>4, <1>5, <1>6, OtherSteps
        DEF Next, GraphStep, PollStep, CallStep

\* No endpoint that exists is missing from the list once its samples are taken:
\* what a disposal that rides on unread data can leave behind is a ghost, never
\* a gap.
THEOREM LiveListedCorrect == Spec => []LiveIsListed
<1>1. Init => LiveInv
  BY DEF Init, LiveInv
<1>2. RegistryInv /\ LiveInv => LiveIsListed
  <2> SUFFICES ASSUME RegistryInv, LiveInv, NEW e \in liveEndpoints \cap RosEndpoints,
                      e \notin ListedEndpoints
               PROVE  endpointSamples[e] = {"data"}
    BY DEF LiveIsListed
  <2>1. e \notin DOMAIN endpointIndex
    BY ListedIsIndex DEF ListIsIndex, RosEndpoints
  <2>2. endpointSamples[e] \in SUBSET {"data", "dispose"}
    BY DEF RegistryInv, TypeOK, Guid, RosEndpoints
  <2> QED BY <2>1, <2>2 DEF LiveInv
<1> QED BY <1>1, <1>2, RegistryInit, RegistryStep, LiveStep, PTL DEF Spec

-----------------------------------------------------------------------------
(* The refinement.                                                          *)

Unsettled == {e \in RosEndpoints : endpointSamples[e] # {}}

LEMMA RefinesStutter ==
  ASSUME UNCHANGED <<liveEndpoints, topics, endpointIndex>>,
         \A e \in Endpoint : endpointSamples'[e] = endpointSamples[e]
  PROVE  UNCHANGED Registry!vars
<1>1. Unsettled' = Unsettled /\ Missed' = Missed
  BY DEF Unsettled, Missed, RosEndpoints
<1>2. ListedEndpoints' = ListedEndpoints
  BY DEF ListedEndpoints
<1> QED BY <1>1, <1>2 DEF Registry!vars, Unsettled

\* One sample of a remote ROS endpoint is old news or the last one.
LEMMA RefinesTake ==
  ASSUME RegistryInv, RegistryInv', LiveInv, NEW g \in Guid, TakeEndpoint(g)
  PROVE  [Registry!Next]_(Registry!vars)
<1>1. /\ liveEndpoints' = liveEndpoints
      /\ endpointSamples[g] # {}
      /\ endpointSamples[g] \in SUBSET {"data", "dispose"}
  BY DEF TakeEndpoint, graphVars, RegistryInv, TypeOK
<1>2. /\ ListedEndpoints = Endpoint \cap DOMAIN endpointIndex
      /\ ListedEndpoints \subseteq RosEndpoints
  BY ListedIsIndex DEF ListIsIndex
<1>3. ListIsIndex'
  BY ListedIsIndex, PTL
<1>4. RosEndpoints \subseteq Endpoint
  BY DEF RosEndpoints
<1>5. CASE g \notin RosEndpoints
  <2>1. ListedEndpoints' = ListedEndpoints
    BY <1>2, <1>3, <1>5, TakeEffect DEF ListIsIndex
  <2>2. Unsettled' = Unsettled /\ Missed' = Missed
    BY <1>1, <1>4, <1>5, TakeEffect DEF Unsettled, Missed
  <2> QED BY <1>1, <2>1, <2>2 DEF Registry!vars, Unsettled
<1>6. CASE g \in RosEndpoints
  <2> DEFINE data == FirstSample(endpointSamples[g]) = "data"
  <2>1. ListedEndpoints' = IF data THEN ListedEndpoints \cup {g} ELSE ListedEndpoints \ {g}
    BY <1>2, <1>3, <1>6, TakeEffect DEF ListIsIndex
  <2>2. endpointSamples'[g] = endpointSamples[g] \ {FirstSample(endpointSamples[g])}
    BY <1>4, <1>6, TakeEffect
  <2>3. Unsettled' = IF endpointSamples'[g] = {} THEN Unsettled \ {g} ELSE Unsettled
    BY <1>1, <1>4, <1>6, TakeEffect DEF Unsettled
  <2>4. g \in Unsettled
    BY <1>1, <1>6 DEF Unsettled
  <2>5. "data" \notin endpointSamples'[g]
    BY <1>1, <2>2 DEF FirstSample
  <2>6. Missed' = Missed \ {g}
    BY <1>1, <1>4, <2>5, TakeEffect DEF Missed
  <2>7. CASE endpointSamples'[g] = {}
    \* the last sample: its data if the endpoint lives or was missed
    <3>1. data <=> g \in (liveEndpoints \cap RosEndpoints) \cup Missed
      BY <1>1, <1>6, <2>2, <2>7 DEF LiveInv, FirstSample, Missed
    <3>2. Registry!Settle(g)
      BY <1>1, <2>1, <2>3, <2>4, <2>6, <2>7, <3>1 DEF Registry!Settle, Unsettled
    <3> QED BY <1>6, <3>2 DEF Registry!Next
  <2>8. CASE endpointSamples'[g] # {}
    <3>1. g \notin Missed
      BY <1>1, <2>2, <2>8 DEF Missed, FirstSample
    <3>2. Missed' = Missed
      BY <2>6, <3>1
    <3>3. Registry!TakeOldNews(g)
      BY <1>1, <2>1, <2>3, <2>4, <2>8, <3>1, <3>2 DEF Registry!TakeOldNews, Unsettled
    <3> QED BY <1>6, <3>3 DEF Registry!Next
  <2> QED BY <2>7, <2>8
<1> QED BY <1>5, <1>6

\* A remote endpoint leaves: it may be missed when its data is unread.
LEMMA RefinesLost ==
  ASSUME RegistryInv, LiveInv, NEW e \in RosEndpoints, EndpointLost(e)
  PROVE  Registry!Vanish(e)
<1>1. /\ e \in liveEndpoints /\ liveEndpoints' = liveEndpoints \ {e}
      /\ ListedEndpoints' = ListedEndpoints
  BY DEF EndpointLost, registryVars, ListedEndpoints
<1>2. /\ DOMAIN endpointSamples = Guid
      /\ RosEndpoints \subseteq Endpoint /\ Endpoint \subseteq Guid
      /\ endpointSamples[e] \in SUBSET {"data", "dispose"}
      /\ "dispose" \notin endpointSamples[e]
  BY <1>1 DEF RegistryInv, TypeOK, Guid, RosEndpoints, LiveInv
<1>3. /\ \A k \in RosEndpoints \ {e} : endpointSamples'[k] = endpointSamples[k]
      /\ \/ endpointSamples'[e] = endpointSamples[e] \cup {"dispose"}
         \/ endpointSamples'[e] = endpointSamples[e] /\ "data" \in endpointSamples[e]
  BY <1>2, DisposalEffect DEF EndpointLost
<1>4. Unsettled' = Unsettled \cup {e}
  BY <1>2, <1>3 DEF Unsettled
<1>5. e \notin Missed
  BY <1>1 DEF Missed
<1>6. CASE endpointSamples'[e] = endpointSamples[e] \cup {"dispose"}
  <2>1. Missed' = Missed
    BY <1>1, <1>3, <1>5, <1>6 DEF Missed
  <2> QED BY <1>1, <1>4, <2>1 DEF Registry!Vanish, Unsettled
<1>7. CASE endpointSamples'[e] = endpointSamples[e] /\ "data" \in endpointSamples[e]
  <2>1. endpointSamples'[e] = {"data"}
    BY <1>2, <1>7
  <2>2. Missed' = Missed \cup {e}
    BY <1>1, <1>3, <2>1 DEF Missed
  <2>3. e \in Unsettled
    BY <1>7 DEF Unsettled
  <2> QED BY <1>1, <1>4, <2>2, <2>3 DEF Registry!Vanish, Unsettled
<1> QED BY <1>3, <1>6, <1>7

LEMMA RefinesStep ==
  ASSUME RegistryInv, RegistryInv', LiveInv, [Next]_vars
  PROVE  [Registry!Next]_(Registry!vars)
<1>0. /\ endpointSamples \in [Guid -> SUBSET {"data", "dispose"}]
      /\ Endpoint \subseteq Guid
      /\ RosEndpoints \subseteq Endpoint
  BY DEF RegistryInv, TypeOK, Guid, RosEndpoints
<1>1. ASSUME NEW e \in Endpoint, EndpointUp(e) PROVE [Registry!Next]_(Registry!vars)
  <2>1. ListedEndpoints' = ListedEndpoints
    BY <1>1 DEF EndpointUp, registryVars, ListedEndpoints
  <2>2. CASE e \in RosEndpoints
    <3>1. Unsettled' = Unsettled \cup {e} /\ Missed' = Missed \ {e}
      BY <1>0, <1>1, <2>2 DEF EndpointUp, Announced, Unsettled, Missed
    <3>2. Registry!Appear(e)
      BY <1>1, <2>1, <2>2, <3>1 DEF EndpointUp, Registry!Appear, Unsettled
    <3> QED BY <2>2, <3>2 DEF Registry!Next
  <2>3. CASE e \notin RosEndpoints
    <3>1. Unsettled' = Unsettled /\ Missed' = Missed
      BY <1>0, <1>1, <2>3 DEF EndpointUp, Announced, Unsettled, Missed
    <3>2. (liveEndpoints \cap RosEndpoints)' = liveEndpoints \cap RosEndpoints
      BY <1>1, <2>3 DEF EndpointUp
    <3> QED BY <2>1, <3>1, <3>2 DEF Registry!vars, Unsettled
  <2> QED BY <2>2, <2>3
<1>2. ASSUME NEW e \in Endpoint, EndpointLost(e) PROVE [Registry!Next]_(Registry!vars)
  <2>1. CASE e \in RosEndpoints
    BY <1>2, <2>1, RefinesLost DEF Registry!Next
  <2>2. CASE e \notin RosEndpoints
    <3>1. ListedEndpoints' = ListedEndpoints
      BY <1>2 DEF EndpointLost, registryVars, ListedEndpoints
    <3>2. \A k \in RosEndpoints : endpointSamples'[k] = endpointSamples[k]
      BY <1>0, <1>2, <2>2, DisposalEffect DEF EndpointLost
    <3>3. Unsettled' = Unsettled /\ Missed' = Missed
      BY <1>2, <2>2, <3>2 DEF EndpointLost, Unsettled, Missed
    <3>4. (liveEndpoints \cap RosEndpoints)' = liveEndpoints \cap RosEndpoints
      BY <1>2, <2>2 DEF EndpointLost
    <3> QED BY <3>1, <3>3, <3>4 DEF Registry!vars, Unsettled
  <2> QED BY <2>1, <2>2
<1>3. ASSUME NEW g \in Guid, TakeEndpoint(g) PROVE [Registry!Next]_(Registry!vars)
  BY <1>3, RefinesTake
<1>4. CASE Shutdown
  <2>1. Unsettled' = {} /\ Missed' = {}
    BY <1>0, <1>4 DEF Shutdown, NothingPending, Unsettled, Missed
  <2>2. ListedEndpoints' = {}
    BY <1>4 DEF Shutdown, ClearTables, NoEntries, ListedEndpoints
  <2>3. Registry!Reset
    BY <1>4, <2>1, <2>2 DEF Shutdown, Registry!Reset, Unsettled
  <2> QED BY <2>3 DEF Registry!Next
<1>5. ASSUME UNCHANGED <<liveEndpoints, topics, endpointIndex>>,
             \A e \in Endpoint : endpointSamples'[e] = endpointSamples[e]
      PROVE  [Registry!Next]_(Registry!vars)
  BY <1>5, RefinesStutter
<1>6. TypeOK
  BY DEF RegistryInv
<1> QED BY <1>1, <1>2, <1>3, <1>4, <1>5, <1>6, OtherSteps
        DEF Next, GraphStep, PollStep, CallStep

LEMMA LiveInit == Init => LiveInv
BY DEF Init, LiveInv

\* The registry implements TopicRegistry: every step of discovery, of poll and
\* of the API maps to a step of the abstract registry or to none, whether or not
\* a disposal has a sample of its own.
THEOREM Refinement == Spec => ImplementsRegistry
<1>1. Init => Registry!Init
  BY DEF Init, Registry!Init, ListedEndpoints, NoEntries, NothingPending, RosEndpoints, Guid, Missed
<1>2. RegistryInv /\ RegistryInv' /\ LiveInv /\ [Next]_vars
        => [Registry!Next]_(Registry!vars)
  BY RefinesStep
<1> QED BY <1>1, <1>2, RegistryInit, LiveInit, RegistryStep, LiveStep, PTL
        DEF Spec, ImplementsRegistry, Registry!Spec

\* A ghost of the list is an endpoint that was missed: its disposal rode on the
\* sample that announced it.
THEOREM GhostsCorrect == Spec => GhostsWereMissed
<1>1. [Registry!Next]_(Registry!vars)
        => [Registry!Ghosts' \ Registry!Ghosts \subseteq Missed]_(Registry!vars)
  BY DEF Registry!Next, Registry!Appear, Registry!Vanish, Registry!TakeOldNews,
     Registry!Settle, Registry!Reset, Registry!vars, Registry!Ghosts
<1> QED BY <1>1, Refinement, PTL
        DEF ImplementsRegistry, Registry!Spec, GhostsWereMissed, Registry!GhostsWereMissed

-----------------------------------------------------------------------------
(* A list that has caught up.                                               *)

\* Once the built-in readers are empty the list misses nothing of the graph.
DrainedIsUpToDate ==
  Drained(participantSamples, Participant) /\ Drained(endpointSamples, RosEndpoints) => UpToDate

\* What Converges needs of every state: a poll that leaves nothing behind, about
\* a graph of any size and after any history, ends with every endpoint of the
\* graph in the list and every identity known.
THEOREM UpToDateCorrect == Spec => []DrainedIsUpToDate
<1>1. Init => RegistryInv /\ LiveInv /\ IdentityInv
  <2>1. Init => IdentityInv
    BY DEF Init, IdentityInv, NothingPending
  <2> QED BY <2>1, RegistryInit, LiveInit
<1>2. RegistryInv /\ LiveInv /\ IdentityInv /\ [Next]_vars
        => (RegistryInv /\ LiveInv /\ IdentityInv)'
  <2>1. RegistryInv => TypeOK
    BY DEF RegistryInv
  <2> QED BY <2>1, RegistryStep, LiveStep, IdentityStep
<1>3. RegistryInv /\ LiveInv /\ IdentityInv => DrainedIsUpToDate
  <2> SUFFICES ASSUME RegistryInv, LiveInv, IdentityInv,
                      \A p \in Participant : participantSamples[p] = {},
                      \A e \in RosEndpoints : endpointSamples[e] = {}
               PROVE  UpToDate
    BY DEF DrainedIsUpToDate, Drained
  <2>1. liveParticipants \subseteq participants
    BY DEF IdentityInv, RegistryInv, TypeOK
  <2>2. liveEndpoints \cap RosEndpoints \subseteq ListedEndpoints
    BY ListedIsIndex DEF ListIsIndex, LiveInv, RosEndpoints
  <2>3. Drained(endpointSamples, RosEndpoints)
    BY DEF Drained
  <2> QED BY <2>1, <2>2, <2>3 DEF UpToDate
<1> QED BY <1>1, <1>2, <1>3, PTL DEF Spec
=============================================================================
