------------------------------ MODULE DdsManager ------------------------------
(***************************************************************************)
(* The discovery core of handyros_core: class DDSManager keeps a registry  *)
(* of the ROS 2 topics seen on the DDS graph, fed by three Cyclone DDS     *)
(* built-in readers (participants, publications, subscriptions) that       *)
(* poll() drains one after the other, while the Dart side watches topics   *)
(* and publishes on them.                                                  *)
(*                                                                         *)
(* Two threads act.  The UI isolate calls the C API; every call is         *)
(* synchronous, so an API call never runs inside poll().  The discovery    *)
(* thread of Cyclone adds samples to the built-in readers at any moment,   *)
(* between two dds_take calls of one poll() included.                      *)
(*                                                                         *)
(* Abstracted: labels, hosts and process names (a participant is either    *)
(* resolved or "unknown"); the batch size of dds_take, which nobody can    *)
(* observe since the UI thread is the only reader of the registry; the     *)
(* samples about our own participant, whose identity no entry refers to.   *)
(*                                                                         *)
(* An operator named Op_Suffix is a deliberately wrong variant of Op, kept *)
(* beside it: the runs must be able to tell the two apart.                 *)
(***************************************************************************)
EXTENDS Functions, Integers

CONSTANTS
  Topic,               \* demangled topic names ("/scan")
  NoTopic,             \* the name of an endpoint that is not under "rt/"
  Type,                \* ROS type names
  Participant,         \* guids of remote participants
  OwnParticipant,      \* ownParticipantKey_
  Endpoint,            \* guids of remote readers and writers
  TopicOf,             \* endpoint -> demangled topic name, or NoTopic
  TypeOf,              \* guid -> demangled type name
  IsPublication,       \* endpoint -> TRUE for a writer
  QosOf,               \* guid -> the QoS it offers (or requests)
  OwnerOf,             \* endpoint -> guid of its participant
  KnownTypes,          \* keys of handyrosTopicDescriptors()
  DecodableTypes,      \* types with a decoder as well
  PublishTopics        \* topics the application publishes on

(***************************************************************************)
(* Guids of the entities the application itself creates: the typed reader  *)
(* of a stats tracker, of a payload tracker, the writer of a publisher.    *)
(* Cyclone reports them through the same built-in readers.                 *)
(***************************************************************************)
OwnGuid == {"stats", "payload", "writer"} \X Topic
Guid    == Endpoint \cup OwnGuid

\* A policy dds_qget_* finds, or "absent".
Qos == [reliability : {"absent", "RELIABLE", "BEST_EFFORT"},
        durability  : {"absent", "VOLATILE", "TRANSIENT_LOCAL", "TRANSIENT", "PERSISTENT"},
        history     : {"absent", "KEEP_ALL", "KEEP_LAST"},
        depth       : Int]

TopicName(g)      == IF g \in Endpoint THEN TopicOf[g] ELSE g[2]
ParticipantKey(g) == IF g \in Endpoint THEN OwnerOf[g] ELSE OwnParticipant
IsPub(g)          == IF g \in Endpoint THEN IsPublication[g] ELSE g[1] = "writer"

ASSUME GraphAssumption ==
  /\ NoTopic \notin Topic
  /\ OwnParticipant \notin Participant
  /\ Endpoint \cap OwnGuid = {}
  /\ TopicOf \in [Endpoint -> Topic \cup {NoTopic}]
  /\ TypeOf \in [Guid -> Type]
  /\ IsPublication \in [Endpoint -> BOOLEAN]
  /\ QosOf \in [Guid -> Qos]
  /\ OwnerOf \in [Endpoint -> Participant]

ASSUME TableAssumption ==
  /\ KnownTypes \subseteq Type
  /\ DecodableTypes \subseteq Type
  /\ PublishTopics \subseteq Topic

VARIABLES
  (* the DDS graph, as the discovery thread of our participant knows it *)
  liveParticipants,    \* remote participants with a lease
  liveEndpoints,       \* remote endpoints not disposed
  participantSamples,  \* pending samples of the DCPSParticipant reader
  endpointSamples,     \* pending samples of DCPSPublication/DCPSSubscription
  (* DDSManager *)
  participant,         \* participant_ > 0
  ownKeyKnown,         \* ownParticipantKey_ is the guid of participant_
  phase,               \* where poll() is
  topics,              \* topics_
  endpointIndex,       \* endpointIndex_
  participants,        \* keys of participants_
  statsReaders,        \* statsTracker_: topic -> reader is RELIABLE
  payloadReaders,      \* payloadTracker_: topic -> reader is RELIABLE
  writers              \* publisher_: topics with a writer

graphVars    == <<liveParticipants, liveEndpoints>>
sampleVars   == <<participantSamples, endpointSamples>>
registryVars == <<topics, endpointIndex, participants>>
trackerVars  == <<statsReaders, payloadReaders, writers>>
vars == <<graphVars, sampleVars, participant, ownKeyKnown, phase, registryVars, trackerVars>>

Labels == [reliability : {"unknown", "reliable", "best_effort"},
           durability  : {"unknown", "volatile", "transient_local", "transient", "persistent"},
           history     : {"unknown", "keep_all", "keep_last"},
           depth       : Int]

TopicInfo == [type_name   : Type \cup {""},
              publishers  : SUBSET Guid,
              subscribers : SUBSET Guid,
              qos         : Labels]

NewTopicInfo ==
  [type_name |-> "", publishers |-> {}, subscribers |-> {},
   qos |-> [reliability |-> "unknown", durability |-> "unknown", history |-> "unknown", depth |-> 0]]

Phases == {"idle", "participants", "publications", "subscriptions"}

\* The std::map of these fields as a function on the keys it holds.
NoEntries         == [k \in {} |-> {}]
With(map, k, v)   == [j \in DOMAIN map \cup {k} |-> IF j = k THEN v ELSE map[j]]
Without(map, k)   == Restrict(map, DOMAIN map \ {k})

-----------------------------------------------------------------------------
(* Built-in readers: KEEP_LAST 1, one instance per guid.  A new sample      *)
(* replaces the pending one of its instance.                                *)

Announced(pending, S) ==
  [g \in DOMAIN pending |-> IF g \in S THEN {"data"} ELSE pending[g]]

(***************************************************************************)
(* The entities S go.  For each of them the reader gets a sample without   *)
(* valid_data; but while the data of an instance is unread, DDS may report *)
(* the disposal in the instance_state of that sample alone, and then no    *)
(* second sample ever comes.  Either may happen.                           *)
(***************************************************************************)
Disposals(pending, S) ==
  {[g \in DOMAIN pending |-> IF g \in S \ riding THEN pending[g] \cup {"dispose"}
                                                 ELSE pending[g]] :
     riding \in SUBSET {g \in S : "data" \in pending[g]}}

\* dds_take returns the data of an instance before its disposal.
FirstSample(samples) == IF "data" \in samples THEN "data" ELSE "dispose"

Taken(pending, g) == [pending EXCEPT ![g] = @ \ {FirstSample(@)}]

Drained(pending, S) == \A g \in S : pending[g] = {}

NothingPending(S) == [g \in S |-> {}]

Init ==
  /\ liveParticipants = {}
  /\ liveEndpoints = {}
  /\ participantSamples = NothingPending(Participant)
  /\ endpointSamples = NothingPending(Guid)
  /\ participant = FALSE
  /\ ownKeyKnown = FALSE
  /\ phase = "idle"
  /\ topics = NoEntries
  /\ endpointIndex = NoEntries
  /\ participants = {}
  /\ statsReaders = NoEntries
  /\ payloadReaders = NoEntries
  /\ writers = {}

-----------------------------------------------------------------------------
(* The discovery thread of Cyclone DDS.                                     *)

\* SPDP: a participant is discovered before any of its endpoints.
ParticipantUp(p) ==
  /\ participant
  /\ p \notin liveParticipants
  /\ \A e \in liveEndpoints : OwnerOf[e] # p
  /\ liveParticipants' = liveParticipants \cup {p}
  /\ participantSamples' = Announced(participantSamples, {p})
  /\ UNCHANGED <<liveEndpoints, endpointSamples, participant, ownKeyKnown, phase,
                 registryVars, trackerVars>>

\* The participant leaves or its lease expires; its endpoints follow.
ParticipantLost(p) ==
  /\ p \in liveParticipants
  /\ liveParticipants' = liveParticipants \ {p}
  /\ participantSamples' \in Disposals(participantSamples, {p})
  /\ UNCHANGED <<liveEndpoints, endpointSamples, participant, ownKeyKnown, phase,
                 registryVars, trackerVars>>

\* SEDP: a remote writer or reader is discovered.
EndpointUp(e) ==
  /\ e \notin liveEndpoints
  /\ OwnerOf[e] \in liveParticipants
  /\ liveEndpoints' = liveEndpoints \cup {e}
  /\ endpointSamples' = Announced(endpointSamples, {e})
  /\ UNCHANGED <<liveParticipants, participantSamples, participant, ownKeyKnown, phase,
                 registryVars, trackerVars>>

EndpointLost(e) ==
  /\ e \in liveEndpoints
  /\ liveEndpoints' = liveEndpoints \ {e}
  /\ endpointSamples' \in Disposals(endpointSamples, {e})
  /\ UNCHANGED <<liveParticipants, participantSamples, participant, ownKeyKnown, phase,
                 registryVars, trackerVars>>

-----------------------------------------------------------------------------
(* initialize() and shutdown().                                             *)

\* A call while a participant exists, or one that creates none, changes
\* nothing.  When dds_get_guid fails, ownParticipantKey_ stays what it was: zero,
\* or the key of a participant deleted since.
Initialize ==
  /\ ~participant
  /\ participant' = TRUE
  /\ ownKeyKnown' \in BOOLEAN
  /\ UNCHANGED <<graphVars, sampleVars, phase, registryVars, trackerVars>>

ClearTables_TopicsKept ==
  /\ endpointIndex' = NoEntries
  /\ participants' = {}
  /\ statsReaders' = NoEntries
  /\ payloadReaders' = NoEntries
  /\ writers' = {}
  /\ UNCHANGED topics

\* The part of shutdown() under mutex_.
ClearTables ==
  /\ topics' = NoEntries
  /\ endpointIndex' = NoEntries
  /\ participants' = {}
  /\ statsReaders' = NoEntries
  /\ payloadReaders' = NoEntries
  /\ writers' = {}

\* Deleting the participant deletes its readers, with what is pending in
\* them, and forgets the remote entities it had discovered.
Shutdown ==
  /\ participant
  /\ phase = "idle"
  /\ participant' = FALSE
  /\ liveParticipants' = {}
  /\ liveEndpoints' = {}
  /\ participantSamples' = NothingPending(Participant)
  /\ endpointSamples' = NothingPending(Guid)
  /\ ClearTables
  /\ UNCHANGED <<ownKeyKnown, phase>>

-----------------------------------------------------------------------------
(* poll(): three loops, each of which takes until its reader is empty.      *)

PollBegin ==
  /\ participant
  /\ phase = "idle"
  /\ phase' = "participants"
  /\ UNCHANGED <<graphVars, sampleVars, participant, ownKeyKnown, registryVars, trackerVars>>

KnownAfter_UnnamedSkipped(p) ==
  IF FirstSample(participantSamples[p]) = "data" THEN participants
                                                 ELSE participants \ {p}
KnownAfter(p) ==
  IF FirstSample(participantSamples[p]) = "data" THEN participants \cup {p}
                                                 ELSE participants \ {p}

\* drainParticipants(): one sample.
TakeParticipant(p) ==
  /\ phase = "participants"
  /\ participantSamples[p] # {}
  /\ participants' = KnownAfter(p)
  /\ participantSamples' = Taken(participantSamples, p)
  /\ UNCHANGED <<graphVars, endpointSamples, participant, ownKeyKnown, phase, topics,
                 endpointIndex, trackerVars>>

ParticipantsDrained ==
  /\ phase = "participants"
  /\ Drained(participantSamples, Participant)
  /\ phase' = "publications"
  /\ UNCHANGED <<graphVars, sampleVars, participant, ownKeyKnown, registryVars, trackerVars>>

\* participantKey == ownParticipantKey_
IsOwn(g) == ownKeyKnown /\ ParticipantKey(g) = OwnParticipant

Registers_AnyTopic(g) == ~IsOwn(g)

\* Samples of our own endpoints, and of topics that are not under "rt/",
\* never reach the registry.
Registers(g) == TopicName(g) \in Topic /\ ~IsOwn(g)

ReliabilityLabel(qos) ==
  CASE qos.reliability = "RELIABLE"    -> "reliable"
    [] qos.reliability = "BEST_EFFORT" -> "best_effort"
    [] OTHER                           -> "unknown"

DurabilityLabel(qos) ==
  CASE qos.durability = "VOLATILE"        -> "volatile"
    [] qos.durability = "TRANSIENT_LOCAL" -> "transient_local"
    [] qos.durability = "TRANSIENT"       -> "transient"
    [] qos.durability = "PERSISTENT"      -> "persistent"
    [] OTHER                              -> "unknown"

HistoryLabel(qos) ==
  CASE qos.history = "KEEP_ALL"  -> "keep_all"
    [] qos.history = "KEEP_LAST" -> "keep_last"
    [] OTHER                     -> "unknown"

\* *depthOut is written only when there is a history.
QosLabels(old, qos) ==
  [reliability |-> ReliabilityLabel(qos), durability |-> DurabilityLabel(qos),
   history |-> HistoryLabel(qos),
   depth |-> IF qos.history = "absent" THEN old.depth ELSE qos.depth]

WithEndpoint_SubscriberQos(info, g) ==
  [info EXCEPT !.type_name = TypeOf[g],
               !.qos = QosLabels(@, QosOf[g]),
               !.publishers = @ \cup IF IsPub(g) THEN {g} ELSE {},
               !.subscribers = @ \cup IF IsPub(g) THEN {} ELSE {g}]

\* What the entry of its topic becomes when endpoint g is (re)announced:
\* only a publication may set the QoS.
WithEndpoint(info, g) ==
  IF IsPub(g)
    THEN [info EXCEPT !.type_name = TypeOf[g],
                      !.qos = QosLabels(@, QosOf[g]),
                      !.publishers = @ \cup {g}]
    ELSE [info EXCEPT !.type_name = TypeOf[g],
                      !.subscribers = @ \cup {g}]

InfoOf(t) == IF t \in DOMAIN topics THEN topics[t] ELSE NewTopicInfo

\* The data branch of drainEndpoints for an endpoint of an rt/ topic.
RegisterEndpoint(g) ==
  LET name == TopicName(g) IN
  /\ topics' = With(topics, name, WithEndpoint(InfoOf(name), g))
  /\ endpointIndex' = With(endpointIndex, g, [topic |-> name, pub |-> IsPub(g)])
  /\ endpointSamples' = Taken(endpointSamples, g)
  /\ UNCHANGED <<statsReaders, payloadReaders>>

WithoutEndpoint_OtherSide(info, g) ==
  IF endpointIndex[g].pub
    THEN [info EXCEPT !.subscribers = @ \ {g}]
    ELSE [info EXCEPT !.publishers = @ \ {g}]

\* endpoints.erase(key) on the side endpointIndex_ names.
WithoutEndpoint(info, g) ==
  IF endpointIndex[g].pub
    THEN [info EXCEPT !.publishers = @ \ {g}]
    ELSE [info EXCEPT !.subscribers = @ \ {g}]

Orphaned_Never(info) == info = NoEntries

Orphaned_EitherSide(info) == info.publishers = {} \/ info.subscribers = {}

Orphaned(info) == info.publishers = {} /\ info.subscribers = {}

\* Guids of the readers the trackers hold on topic t.
TrackerGuids(t) ==
  {<<"stats", u>> : u \in DOMAIN statsReaders \cap {t}}
    \cup {<<"payload", u>> : u \in DOMAIN payloadReaders \cap {t}}

DropTrackers_StatsOnly(t) ==
  /\ statsReaders' = Without(statsReaders, t)
  /\ UNCHANGED payloadReaders

DropTrackers(t) ==
  /\ statsReaders' = Without(statsReaders, t)
  /\ payloadReaders' = Without(payloadReaders, t)

\* removeEndpoint(key): an entry whose last endpoint goes takes its
\* trackers, hence two readers of our own, with it.
RemoveEndpoint(g) ==
  LET name     == endpointIndex[g].topic
      info     == WithoutEndpoint(topics[name], g)
      orphaned == name \in DOMAIN topics /\ Orphaned(info)
      left     == Taken(endpointSamples, g)
  IN
  \/ /\ g \notin DOMAIN endpointIndex
     /\ endpointSamples' = left
     /\ UNCHANGED <<topics, endpointIndex, statsReaders, payloadReaders>>
  \/ /\ g \in DOMAIN endpointIndex
     /\ ~orphaned
     /\ topics' = [topics EXCEPT ![name] = info]
     /\ endpointIndex' = Without(endpointIndex, g)
     /\ endpointSamples' = left
     /\ UNCHANGED <<statsReaders, payloadReaders>>
  \/ /\ g \in DOMAIN endpointIndex
     /\ orphaned
     /\ topics' = Without(topics, name)
     /\ endpointIndex' = Without(endpointIndex, g)
     /\ DropTrackers(name)
     /\ endpointSamples' \in Disposals(left, TrackerGuids(name))

SkipOwn_Counted(g) ==
  LET name == TopicName(g) IN
  /\ topics' = With(topics, name, [InfoOf(name) EXCEPT !.subscribers = @ \cup {g}])
  /\ endpointIndex' = With(endpointIndex, g, [topic |-> name, pub |-> FALSE])
  /\ endpointSamples' = Taken(endpointSamples, g)
  /\ UNCHANGED <<statsReaders, payloadReaders>>

\* continue: a sample about one of our own endpoints.
SkipOwn(g) ==
  /\ endpointSamples' = Taken(endpointSamples, g)
  /\ UNCHANGED <<topics, endpointIndex, statsReaders, payloadReaders>>

\* drainEndpoints(): one sample.
TakeEndpoint(g) ==
  /\ phase = IF IsPub(g) THEN "publications" ELSE "subscriptions"
  /\ endpointSamples[g] # {}
  /\ LET data == FirstSample(endpointSamples[g]) = "data" IN
     \/ data /\ Registers(g) /\ RegisterEndpoint(g)
     \/ data /\ IsOwn(g) /\ SkipOwn(g)
     \/ ~data /\ RemoveEndpoint(g)
     \/ data /\ TopicName(g) = NoTopic /\ RemoveEndpoint(g)
  /\ UNCHANGED <<graphVars, participantSamples, participant, ownKeyKnown, phase,
                 participants, writers>>

PublicationsDrained_Ends ==
  /\ phase = "publications"
  /\ Drained(endpointSamples, {g \in Guid : IsPub(g)})
  /\ phase' = "idle"
  /\ UNCHANGED <<graphVars, sampleVars, participant, ownKeyKnown, registryVars, trackerVars>>

PublicationsDrained ==
  /\ phase = "publications"
  /\ Drained(endpointSamples, {g \in Guid : IsPub(g)})
  /\ phase' = "subscriptions"
  /\ UNCHANGED <<graphVars, sampleVars, participant, ownKeyKnown, registryVars, trackerVars>>

SubscriptionsDrained ==
  /\ phase = "subscriptions"
  /\ Drained(endpointSamples, {g \in Guid : ~IsPub(g)})
  /\ phase' = "idle"
  /\ UNCHANGED <<graphVars, sampleVars, participant, ownKeyKnown, registryVars, trackerVars>>

-----------------------------------------------------------------------------
(* The watch and publish calls of the C API.                                *)

\* trackIfKnownType creates a reader: a watched topic is left as it is.
TracksStats(t) ==
  t \notin DOMAIN statsReaders /\ topics[t].type_name \in KnownTypes

\* TopicPayloadTracker::watch creates a reader.
TracksPayload(t) ==
  t \notin DOMAIN payloadReaders /\ topics[t].type_name \in KnownTypes \cap DecodableTypes

\* The reader gets the reliability the entry shows now and keeps it.
WatchTopic(t) ==
  /\ phase = "idle"
  /\ t \in DOMAIN topics
  /\ TracksStats(t)
  /\ statsReaders' = With(statsReaders, t, topics[t].qos.reliability = "reliable")
  /\ endpointSamples' = Announced(endpointSamples, {<<"stats", t>>})
  /\ UNCHANGED <<graphVars, participantSamples, participant, ownKeyKnown, phase,
                 registryVars, payloadReaders, writers>>

UnwatchTopic(t) ==
  /\ phase = "idle"
  /\ t \in DOMAIN statsReaders
  /\ statsReaders' = Without(statsReaders, t)
  /\ endpointSamples' \in Disposals(endpointSamples, {<<"stats", t>>})
  /\ UNCHANGED <<graphVars, participantSamples, participant, ownKeyKnown, phase,
                 registryVars, payloadReaders, writers>>

WatchPayload(t) ==
  /\ phase = "idle"
  /\ t \in DOMAIN topics
  /\ TracksPayload(t)
  /\ payloadReaders' = With(payloadReaders, t, topics[t].qos.reliability = "reliable")
  /\ endpointSamples' = Announced(endpointSamples, {<<"payload", t>>})
  /\ UNCHANGED <<graphVars, participantSamples, participant, ownKeyKnown, phase,
                 registryVars, statsReaders, writers>>

UnwatchPayload(t) ==
  /\ phase = "idle"
  /\ t \in DOMAIN payloadReaders
  /\ payloadReaders' = Without(payloadReaders, t)
  /\ endpointSamples' \in Disposals(endpointSamples, {<<"payload", t>>})
  /\ UNCHANGED <<graphVars, participantSamples, participant, ownKeyKnown, phase,
                 registryVars, statsReaders, writers>>

\* The first publish* call on a topic creates its writer, whether or not
\* the topic was discovered.
Publish(t) ==
  /\ phase = "idle"
  /\ participant
  /\ t \notin writers
  /\ writers' = writers \cup {t}
  /\ endpointSamples' = Announced(endpointSamples, {<<"writer", t>>})
  /\ UNCHANGED <<graphVars, participantSamples, participant, ownKeyKnown, phase,
                 registryVars, statsReaders, payloadReaders>>

StopPublishing(t) ==
  /\ phase = "idle"
  /\ t \in writers
  /\ writers' = writers \ {t}
  /\ endpointSamples' \in Disposals(endpointSamples, {<<"writer", t>>})
  /\ UNCHANGED <<graphVars, participantSamples, participant, ownKeyKnown, phase,
                 registryVars, statsReaders, payloadReaders>>

-----------------------------------------------------------------------------
GraphStep ==
  \/ \E p \in Participant : ParticipantUp(p) \/ ParticipantLost(p)
  \/ \E e \in Endpoint : EndpointUp(e) \/ EndpointLost(e)

PollStep ==
  \/ PollBegin
  \/ \E p \in Participant : TakeParticipant(p)
  \/ ParticipantsDrained
  \/ \E g \in Guid : TakeEndpoint(g)
  \/ PublicationsDrained
  \/ SubscriptionsDrained

CallStep ==
  \/ Initialize
  \/ Shutdown
  \/ \E t \in Topic : \/ WatchTopic(t) \/ UnwatchTopic(t)
                      \/ WatchPayload(t) \/ UnwatchPayload(t)
  \/ \E t \in PublishTopics : Publish(t) \/ StopPublishing(t)

Next == GraphStep \/ PollStep \/ CallStep

Spec == Init /\ [][Next]_vars

\* The poll timer of the application fires again and again, and a poll in
\* progress goes on.
Fairness == WF_vars(PollStep)

FairSpec == Spec /\ Fairness

-----------------------------------------------------------------------------
TypeOK ==
  /\ liveParticipants \in SUBSET Participant
  /\ liveEndpoints \in SUBSET Endpoint
  /\ participantSamples \in [Participant -> SUBSET {"data", "dispose"}]
  /\ endpointSamples \in [Guid -> SUBSET {"data", "dispose"}]
  /\ participant \in BOOLEAN
  /\ ownKeyKnown \in BOOLEAN
  /\ phase \in Phases
  /\ DOMAIN topics \subseteq Topic
  /\ topics \in [DOMAIN topics -> TopicInfo]
  /\ DOMAIN endpointIndex \subseteq Guid
  /\ endpointIndex \in [DOMAIN endpointIndex -> [topic : Topic, pub : BOOLEAN]]
  /\ participants \in SUBSET Participant
  /\ DOMAIN statsReaders \subseteq Topic
  /\ statsReaders \in [DOMAIN statsReaders -> BOOLEAN]
  /\ DOMAIN payloadReaders \subseteq Topic
  /\ payloadReaders \in [DOMAIN payloadReaders -> BOOLEAN]
  /\ writers \in SUBSET Topic

-----------------------------------------------------------------------------
(* Safety.                                                                  *)

Side(t, isPub) == IF isPub THEN topics[t].publishers ELSE topics[t].subscribers

\* endpointIndex_ is exactly the inverse of the publishers and subscribers
\* maps, on the side the index remembers, and remembers what was announced:
\* removeEndpoint finds an endpoint where drainEndpoints put it, and leaves no
\* second copy of it behind.
IndexIsInverse ==
  /\ \A g \in DOMAIN endpointIndex :
       /\ endpointIndex[g] = [topic |-> TopicName(g), pub |-> IsPub(g)]
       /\ endpointIndex[g].topic \in DOMAIN topics
       /\ g \in Side(endpointIndex[g].topic, endpointIndex[g].pub)
  /\ \A t \in DOMAIN topics, isPub \in BOOLEAN :
       \A g \in Side(t, isPub) :
         g \in DOMAIN endpointIndex /\ endpointIndex[g] = [topic |-> t, pub |-> isPub]

\* A topic is in the list only while a publisher or a subscriber of it is:
\* "a topic should disappear once no real peer is left".
NoOrphanTopic ==
  \A t \in DOMAIN topics : topics[t].publishers \cup topics[t].subscribers # {}

\* The presence the list reports is that of other programs on "rt/" topics,
\* whatever typed readers and writers the application itself creates, provided
\* dds_get_guid told it its own key.
OwnIsNotPresence ==
  ownKeyKnown =>
    \A t \in DOMAIN topics :
      \A g \in topics[t].publishers \cup topics[t].subscribers :
        ParticipantKey(g) # OwnParticipant

\* No typed reader outlives the topic it was created for: a tracker that did
\* would keep receiving a stream (and its bandwidth) nobody can stop from the
\* list.
TrackersFollowTopics ==
  /\ DOMAIN statsReaders \subseteq DOMAIN topics
  /\ DOMAIN payloadReaders \subseteq DOMAIN topics

\* A publisher or subscriber is shown with an unknown node only while the
\* sample that names its participant is pending, or that participant is gone:
\* an identity once discovered is not lost under its endpoints, so the next
\* poll repairs every "unknown" a late participant sample caused.
UnknownIsTransient ==
  \A g \in DOMAIN endpointIndex \cap Endpoint :
    ParticipantKey(g) \in participants
      \/ "data" \in participantSamples[ParticipantKey(g)]
      \/ ParticipantKey(g) \notin liveParticipants

\* The QoS of an entry is what a publication offers: an entry made by a
\* subscription says "unknown" until a publication is taken up, no subscription
\* (whatever it requests) and no departure changes what a publisher offered, and
\* the labels are never those of one publisher beside those of another, but for
\* the depth that a publication without a history leaves.  This is what
\* drainEndpoints does; dds_manager.h:113 still says "any one endpoint".
OnlyPublishersSetQos ==
  [][\A t \in DOMAIN topics' :
       topics'[t].qos # InfoOf(t).qos =>
         /\ phase = "publications"
         /\ \E g \in topics'[t].publishers :
              topics'[t].qos = QosLabels(InfoOf(t).qos, QosOf[g])]_vars

-----------------------------------------------------------------------------
(* The registry implements TopicRegistry.                                   *)

RosEndpoints == {e \in Endpoint : TopicOf[e] # NoTopic}

ListedEndpoints ==
  Endpoint \cap UNION {topics[t].publishers \cup topics[t].subscribers : t \in DOMAIN topics}

\* Gone, and nothing pending but the data: the disposal rides on it.
Missed == {e \in RosEndpoints \ liveEndpoints : endpointSamples[e] = {"data"}}

Registry == INSTANCE TopicRegistry WITH
  Endpoint  <- RosEndpoints,
  graph     <- liveEndpoints \cap RosEndpoints,
  listed    <- ListedEndpoints,
  unsettled <- {e \in RosEndpoints : endpointSamples[e] # {}},
  missed    <- Missed

\* A stats reader must be able to match some publisher of its topic ("reliable
\* should mirror the actual publisher's QoS"): a RELIABLE reader matches no
\* BEST_EFFORT writer.  (Fails with two publishers: the labels are those of the
\* one read last, which may have left before the topic is watched.)
ReaderMirrorsPublisher ==
  \A t \in DOMAIN statsReaders :
    statsReaders[t] /\ topics[t].publishers # {} =>
      \E g \in topics[t].publishers : QosOf[g].reliability = "RELIABLE"

\* Every step of the registry is a step of TopicRegistry, or invisible to it.
ImplementsRegistry == Registry!Spec

\* A live endpoint of a ROS topic is listed, or the sample that will list it is
\* pending: no order of arrivals, departures and partly drained readers loses an
\* endpoint that exists, and no disposal taken late takes one back off the list.
LiveIsListed ==
  \A e \in liveEndpoints \cap RosEndpoints :
    e \in ListedEndpoints \/ endpointSamples[e] = {"data"}

\* An endpoint that is gone, and that no pending sample speaks of, stays in the
\* list only if it left before poll() had read its arrival, its disposal riding
\* on that sample: nothing else that drainEndpoints does makes a ghost.
GhostsWereMissed == Registry!GhostsWereMissed

\* "A topic should disappear once no real peer is left" (dds_manager.cpp:440):
\* after a poll that left nothing behind, each topic of the list has an endpoint
\* that exists.
TopicsDisappear ==
  ownKeyKnown /\ phase = "idle" /\ Drained(endpointSamples, Endpoint) =>
    \A t \in DOMAIN topics :
      (topics[t].publishers \cup topics[t].subscribers) \cap liveEndpoints # {}

(* Liveness.                                                                *)

\* Once the graph stops changing every sample about it is taken, and the list
\* has every endpoint that exists and the identity of every live participant,
\* and keeps them.
GraphIsQuiet == <>[][~GraphStep]_vars
UpToDate ==
  /\ Drained(endpointSamples, RosEndpoints)
  /\ liveEndpoints \cap RosEndpoints \subseteq ListedEndpoints
  /\ liveParticipants \subseteq participants
Converges == GraphIsQuiet => <>[]UpToDate
=============================================================================
