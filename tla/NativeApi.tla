------------------------------- MODULE NativeApi -------------------------------
(***************************************************************************)
(* The native library behind its C API (handyros.h): the DDS entities the  *)
(* manager, its two trackers and its publisher create and delete, the      *)
(* worker thread that decodes the samples of watched topics, and the       *)
(* copies the getters hand to the caller.                                  *)
(*                                                                         *)
(* Two threads.  The UI isolate makes one call after another; a call that  *)
(* another thread can observe half done (shutdown, one that waits for a    *)
(* mutex, a getter whose result is still to be freed) has several steps.   *)
(* The worker of the payload tracker holds the tracker's mutex while it    *)
(* drains every reader (draining); a call that needs the mutex is in       *)
(* progress from its beginning on and goes on when it has it.  The worker  *)
(* of the statistics tracker is in module TopicStats; which topics the     *)
(* registry lists, in module DdsManager.  Of what a reader has pending     *)
(* only the newest sample is kept here: the decoder overwrites the others. *)
(*                                                                         *)
(* A call with a NULL name, and one that finds nothing to do and needs no  *)
(* mutex, changes nothing and has no action.                               *)
(***************************************************************************)
EXTENDS PayloadDecoders

CONSTANTS
  Topic,        \* topic names
  KnownTypes,   \* keys of handyrosTopicDescriptors()
  Message,      \* samples that may arrive, each with its type
  MessageKind,  \* the kinds of publish* calls
  NoMessage

ASSUME NativeAssumption ==
  /\ NoMessage \notin Message
  /\ \A m \in Message :
       /\ m.type \in Decodable
       /\ m.type = "PointCloud2" => m \in CloudMessage
       /\ m.type = "Image" => m \in ImageMessage
       /\ m.type = "Text" => m \in TextMessage

VARIABLES
  typeOf,       \* the type discovered for a topic
  participant,  \* participant_ > 0
  live,         \* the DDS entities that exist
  listed,       \* keys of topics_
  stats,        \* keys of readers in TopicStatsTracker
  payload,      \* readers of TopicPayloadTracker: topic -> tracked reader
  writers,      \* writers of TopicPublisher: topic -> kind that created it
  draining,     \* readers the worker has still to drain; {}: it sleeps
  call,         \* the call the UI isolate is in
  heap          \* blocks handed to the caller and not freed

vars == <<typeOf, participant, live, listed, stats, payload, writers, draining,
          call, heap>>

Readers == {"publications", "subscriptions", "participants"}

\* The participant with its built-in readers, and the topic and the reader or
\* writer of every record.
Builtin          == {<<"participant">>} \cup ({"builtin"} \X Readers)
Entities(owner, t) == {<<owner, "topic", t>>, <<owner, "endpoint", t>>}
EntitiesOf(owner, S) == UNION {Entities(owner, t) : t \in S}
Endpoint(owner, t)   == <<owner, "endpoint", t>>

NoRecord == [t \in {} |-> {}]
With(map, t, r)  == [u \in DOMAIN map \cup {t} |-> IF u = t THEN r ELSE map[u]]
Without(map, S)  == [u \in DOMAIN map \ S |-> map[u]]

\* TrackedReader: pending is what its DDS reader holds, sample what latestJson
\* and latestBlob were decoded from (hasSample).
FreshReader == [pending |-> NoMessage, sample |-> NoMessage, json |-> NoJson, blob |-> NoBlob]

\* A call: what it does, the topics it is for, and the block it returns.
Waiting(op, S) == [op |-> op, on |-> S, block |-> {}, len |-> 0]
Step(op)       == Waiting(op, {})
Idle           == Step("idle")
IsIdle         == call.op = "idle"

\* The worker does not hold the mutex of the payload tracker.
Unlocked == draining = {}

HasMutex_NotToUnwatch(op) == call.op = op /\ (op = "unwatch" \/ Unlocked)

\* The call has the mutex: std::lock_guard lets it go on.
HasMutex(op) == call.op = op /\ Unlocked

Init ==
  /\ typeOf \in [Topic -> {m.type : m \in Message}]
  /\ participant = FALSE
  /\ live = {}
  /\ listed = {}
  /\ stats = {}
  /\ payload = NoRecord
  /\ writers = NoRecord
  /\ draining = {}
  /\ call = Idle
  /\ heap = 0

-----------------------------------------------------------------------------
(* initialize and shutdown.                                                 *)

\* The built-in readers in R could be made: with one missing, initialize calls
\* shutdown and fails.
Initialize(R) ==
  /\ IsIdle /\ ~participant
  /\ participant' = TRUE
  /\ live' = live \cup {<<"participant">>} \cup ({"builtin"} \X R)
  /\ call' = IF R = Readers THEN Idle ELSE Step("deleting")
  /\ UNCHANGED <<typeOf, listed, stats, payload, writers, draining, heap>>

Shutdown ==
  /\ IsIdle
  /\ call' = Step("deleting")
  /\ UNCHANGED <<typeOf, participant, live, listed, stats, payload, writers,
                 draining, heap>>

\* dds_delete(participant_) deletes all it contains, while the worker may be
\* draining one of the readers: no lock is held yet.
DeleteParticipant ==
  /\ call.op = "deleting"
  /\ participant' = FALSE
  /\ live' = {}
  /\ payload' = [t \in DOMAIN payload |-> [payload[t] EXCEPT !.pending = NoMessage]]
  /\ call' = Step("clearing")
  /\ UNCHANGED <<typeOf, listed, stats, writers, draining, heap>>

\* The clear() of both trackers and of the publisher delete no entity.
Cleared ==
  /\ listed' = {}
  /\ stats' = {}
  /\ payload' = NoRecord
  /\ writers' = NoRecord

ClearTrackers ==
  /\ HasMutex("clearing")
  /\ Cleared
  /\ call' = Idle
  /\ UNCHANGED <<typeOf, participant, live, draining, heap>>

-----------------------------------------------------------------------------
(* poll, watch, unwatch, publish.                                           *)

Untracked_Never(S) == {}

\* removeEndpoint untracks the topics whose last endpoint left.
Untracked(S) == listed \ S

\* drainEndpoints may add topics and remove others.  Those in gone lost their last
\* endpoint, and may have a new one in the same poll.
Poll(S, gone) ==
  /\ IsIdle /\ participant
  /\ Untracked(S) \subseteq gone /\ gone \subseteq listed
  /\ S # listed \/ gone # {}
  /\ listed' = S
  /\ call' = IF gone = {} THEN Idle ELSE Waiting("poll", gone)
  /\ UNCHANGED <<typeOf, participant, live, stats, payload, writers, draining, heap>>

\* Its untrack and its unwatch.
Untrack(t) ==
  LET left == call.on \ {t} IN
  /\ HasMutex("poll") /\ t \in call.on
  /\ stats' = stats \ {t}
  /\ payload' = Without(payload, {t})
  /\ live' = live \ (Entities("stats", t) \cup Entities("payload", t))
  /\ call' = IF left = {} THEN Idle ELSE Waiting("poll", left)
  /\ UNCHANGED <<typeOf, participant, listed, writers, draining, heap>>

Outcome == {"ok", "no_topic", "no_endpoint"}

Created_TopicLeft(owner, t, outcome) ==
  CASE outcome = "ok"          -> Entities(owner, t)
    [] outcome = "no_topic"    -> {}
    [] outcome = "no_endpoint" -> {<<owner, "topic", t>>}

\* dds_create_topic, then dds_create_reader or _writer: if that fails the topic
\* is deleted again.
Created(owner, t, outcome) == IF outcome = "ok" THEN Entities(owner, t) ELSE {}

WatchTopic(t, outcome) ==
  /\ IsIdle
  /\ t \in listed \ stats /\ typeOf[t] \in KnownTypes
  /\ stats' = IF outcome = "ok" THEN stats \cup {t} ELSE stats
  /\ live' = live \cup Created("stats", t, outcome)
  /\ UNCHANGED <<typeOf, participant, listed, payload, writers, draining, call, heap>>

UnwatchTopic(t) ==
  /\ IsIdle /\ t \in stats
  /\ stats' = stats \ {t}
  /\ live' = live \ Entities("stats", t)
  /\ UNCHANGED <<typeOf, participant, listed, payload, writers, draining, call, heap>>

\* watchPayload and unwatchPayload wait for the mutex with their topic.
Ask(op, t) ==
  /\ IsIdle
  /\ call' = Waiting(op, {t})
  /\ UNCHANGED <<typeOf, participant, live, listed, stats, payload, writers, draining, heap>>

WatchPayload(t)   == t \in listed /\ Ask("watch", t)
UnwatchPayload(t) == Ask("unwatch", t)

\* watch of the tracker: nothing for a reader that is there or a type nobody decodes.
Watch(t, outcome) ==
  LET creates == t \notin DOMAIN payload /\ typeOf[t] \in Decodable \cap KnownTypes IN
  /\ HasMutex("watch") /\ t \in call.on
  /\ payload' = IF creates /\ outcome = "ok" THEN With(payload, t, FreshReader) ELSE payload
  /\ live' = live \cup IF creates THEN Created("payload", t, outcome) ELSE {}
  /\ call' = Idle
  /\ UNCHANGED <<typeOf, participant, listed, stats, writers, draining, heap>>

Unwatch(t) ==
  /\ HasMutex("unwatch") /\ t \in call.on
  /\ payload' = Without(payload, {t})
  /\ live' = live \ Entities("payload", t)
  /\ call' = Idle
  /\ UNCHANGED <<typeOf, participant, listed, stats, writers, draining, heap>>

\* getOrCreateWriter; a later publish on the name, of any kind, uses the writer.
Publish(k, t, outcome) ==
  /\ IsIdle /\ participant
  /\ t \notin DOMAIN writers
  /\ writers' = IF outcome = "ok" THEN With(writers, t, k) ELSE writers
  /\ live' = live \cup Created("writer", t, outcome)
  /\ UNCHANGED <<typeOf, participant, listed, stats, payload, draining, call, heap>>

StopPublishing(t) ==
  /\ IsIdle /\ t \in DOMAIN writers
  /\ writers' = Without(writers, {t})
  /\ live' = live \ Entities("writer", t)
  /\ UNCHANGED <<typeOf, participant, listed, stats, payload, draining, call, heap>>

-----------------------------------------------------------------------------
(* The getters: a block from malloc, or NULL, that the caller copies and    *)
(* frees.                                                                   *)

HasSample(t) == t \in DOMAIN payload /\ payload[t].sample # NoMessage

\* latestBlob(): empty without a reader or a sample.
LatestBytes(t) == IF HasSample(t) THEN payload[t].blob.bytes ELSE 0

OutLen_NotReset(bytes, allocated) == bytes

\* *out_len: the size of the block, 0 with NULL.
OutLen(bytes, allocated) == IF allocated THEN bytes ELSE 0

\* topicsJson and topicPayloadJson always have a text to return.
ReturnText(allocated) ==
  /\ call' = [op |-> "copying", on |-> {}, block |-> IF allocated THEN {"text"} ELSE {}, len |-> 0]
  /\ heap' = heap + IF allocated THEN 1 ELSE 0

TopicsJson(allocated) ==
  /\ IsIdle
  /\ ReturnText(allocated)
  /\ UNCHANGED <<typeOf, participant, live, listed, stats, payload, writers, draining>>

TopicPayloadJson(t) == Ask("json", t)
TopicPayloadBlob(t) == Ask("blob", t)

\* latestJson and latestBlob, with the mutex, and what the C API makes of them.
LatestJson(allocated) ==
  /\ HasMutex("json")
  /\ ReturnText(allocated)
  /\ UNCHANGED <<typeOf, participant, live, listed, stats, payload, writers, draining>>

\* No malloc for an empty blob.
LatestBlob(t, allocated) ==
  LET bytes == LatestBytes(t)
      block == allocated /\ bytes > 0
  IN
  /\ HasMutex("blob") /\ t \in call.on
  /\ call' = [op |-> "copying", on |-> {}, block |-> IF block THEN {"blob"} ELSE {},
              len |-> OutLen(bytes, block)]
  /\ heap' = heap + IF block THEN 1 ELSE 0
  /\ UNCHANGED <<typeOf, participant, live, listed, stats, payload, writers, draining>>

\* try { copy } finally { free }: toDartString throws on bytes that are not
\* UTF-8, and the block is freed all the same.
Freed(block, throws) == Cardinality(block)

CopyAndFree(throws) ==
  /\ call.op = "copying"
  /\ throws => "text" \in call.block
  /\ heap' = heap - Freed(call.block, throws)
  /\ call' = Idle
  /\ UNCHANGED <<typeOf, participant, live, listed, stats, payload, writers, draining>>

-----------------------------------------------------------------------------
(* The worker of TopicPayloadTracker.                                       *)

Arrive(t, m) ==
  /\ t \in DOMAIN payload /\ Endpoint("payload", t) \in live
  /\ m.type = typeOf[t]
  /\ payload' = [payload EXCEPT ![t].pending = m]
  /\ UNCHANGED <<typeOf, participant, live, listed, stats, writers, draining, call, heap>>

\* Every 30 ms: lock the mutex, go through the readers.
Wake ==
  /\ Unlocked
  /\ draining' = DOMAIN payload
  /\ UNCHANGED <<typeOf, participant, live, listed, stats, payload, writers, call, heap>>

\* drainOne: take and decode.
TakeSample(t) ==
  /\ t \in draining /\ payload[t].pending # NoMessage
  /\ LET m == payload[t].pending
         d == Decode(m, payload[t].blob)
     IN  payload' = [payload EXCEPT ![t] = [pending |-> NoMessage, sample |-> m,
                                            json |-> d.json, blob |-> d.blob]]
  /\ UNCHANGED <<typeOf, participant, live, listed, stats, writers, draining, call, heap>>

Undrained_LockAcrossSleep(t) ==
  IF draining = {t} THEN DOMAIN payload ELSE draining \ {t}

\* After the last reader the mutex is free and the worker sleeps.
Undrained(t) == draining \ {t}

\* dds_take returns nothing, or an error for a reader that was deleted.
ReaderDone(t) ==
  /\ t \in draining /\ payload[t].pending = NoMessage
  /\ draining' = Undrained(t)
  /\ UNCHANGED <<typeOf, participant, live, listed, stats, payload, writers, call, heap>>

-----------------------------------------------------------------------------
Arrivals == \E t \in Topic, m \in Message : Arrive(t, m)

WorkerStep == Wake \/ \E t \in Topic : TakeSample(t) \/ ReaderDone(t)

\* The steps of a call after its first.
FinishStep ==
  \/ DeleteParticipant
  \/ ClearTrackers
  \/ \E t \in Topic : \/ Untrack(t) \/ Unwatch(t)
                      \/ \E o \in Outcome : Watch(t, o)
                      \/ \E b \in BOOLEAN : LatestBlob(t, b)
  \/ \E b \in BOOLEAN : LatestJson(b) \/ CopyAndFree(b)

BeginStep ==
  \/ \E R \in SUBSET Readers : Initialize(R)
  \/ Shutdown
  \/ \E S, gone \in SUBSET Topic : Poll(S, gone)
  \/ \E t \in Topic :
       \/ UnwatchTopic(t) \/ StopPublishing(t)
       \/ WatchPayload(t) \/ UnwatchPayload(t) \/ TopicPayloadJson(t) \/ TopicPayloadBlob(t)
       \/ \E o \in Outcome : \/ WatchTopic(t, o)
                             \/ \E k \in MessageKind : Publish(k, t, o)
  \/ \E b \in BOOLEAN : TopicsJson(b)

Next == Arrivals \/ WorkerStep \/ FinishStep \/ BeginStep

Spec == Init /\ [][Next]_vars

\* The worker runs, and a call in progress goes on.  The worker sleeps 30 ms
\* without the mutex after each round, so a call that waits gets it then.
Fairness == WF_vars(WorkerStep) /\ SF_vars(FinishStep)

FairSpec == Spec /\ Fairness

-----------------------------------------------------------------------------
TrackedReader ==
  [pending : Message \cup {NoMessage}, sample : Message \cup {NoMessage},
   json : {NoJson} \cup {Decode(m, NoBlob).json : m \in Message},
   blob : {NoBlob} \cup {Decode(m, NoBlob).blob : m \in Message}]

Shutting == {"deleting", "clearing"}
Asking   == {"poll", "watch", "unwatch", "json", "blob"}

\* Topics that left the registry in a poll that has still to untrack them.
Leaving == IF call.op = "poll" THEN call.on ELSE {}

TypeOK ==
  /\ typeOf \in [Topic -> Decodable]
  /\ participant \in BOOLEAN
  /\ live \subseteq Builtin \cup UNION {EntitiesOf(o, Topic) : o \in {"stats", "payload", "writer"}}
  /\ listed \subseteq Topic
  /\ stats \cup DOMAIN payload \subseteq listed \cup Leaving
  /\ \A t \in DOMAIN payload : payload[t] \in TrackedReader
  /\ DOMAIN writers \subseteq Topic /\ writers \in [DOMAIN writers -> MessageKind]
  /\ call.op \in {"idle", "copying"} \cup Shutting \cup Asking
  /\ call.on \subseteq Topic
  /\ heap \in Nat

\* What the records of the trackers and of the publisher stand for.
Recorded ==
  (IF participant THEN Builtin ELSE {})
    \cup EntitiesOf("stats", stats)
    \cup EntitiesOf("payload", DOMAIN payload)
    \cup EntitiesOf("writer", DOMAIN writers)

\* But in the middle of a shutdown every DDS entity belongs to a record and every
\* record has its entities: no failure of a create call, no topic that leaves and
\* no shutdown leaves an entity nobody deletes or a handle that is dead.
EntitiesAreRecorded == call.op \notin Shutting => live = Recorded

\* The worker goes through a map nobody else changes: what it has still to
\* drain is in the map, also while the participant is deleted under it.
WorkerOwnsTheMap == draining \subseteq DOMAIN payload

\* Blocks are freed exactly once and out_len tells their size: none is left
\* between two calls, also when the text is not UTF-8, and NULL comes with 0.
CopiesAreFreed ==
  /\ heap = Cardinality(call.block)
  /\ call.block = {} => call.len = 0

\* Every value read from a point cloud lies in the data of the message.
ReadsInBuffer ==
  \A t \in DOMAIN payload :
    \A p \in DOMAIN payload[t].blob.points :
      LET point == payload[t].blob.points[p] IN
      \A c \in point.color \cup UNION {point.axes[a] : a \in Axis} :
        c.at + c.width <= payload[t].sample.length

WellFormed(m) ==
  m.point_step > 0 /\ AxesFit(m) /\ m.width * m.height * m.point_step = m.length

\* JSON and bytes of a tracked reader are those of one sample: a picture has
\* the bytes of its message, a cloud as many points as its JSON says, and all
\* of them if the message is well-formed.
BlobMatchesJson ==
  \A t \in DOMAIN payload :
    LET r == payload[t] IN
    r.sample # NoMessage =>
      CASE typeOf[t] = "Image" -> r.blob.bytes = r.sample.length
        [] typeOf[t] = "PointCloud2" ->
             /\ r.blob.bytes = r.json.pointCount * PointBytes
             /\ WellFormed(r.sample) => r.json.pointCount = r.sample.width * r.sample.height
        [] OTHER -> r.blob = NoBlob

\* A JSON parser reads an escaped text up to its first bare quote.
Unescape[text \in Seq(Char)] ==
  IF text = <<>> \/ Head(text) = "quote" THEN <<>>
  ELSE IF Head(text) = "backslash"
         THEN IF Len(text) = 1 THEN <<>> ELSE <<text[2]>> \o Unescape[Tail(Tail(text))]
         ELSE <<Head(text)>> \o Unescape[Tail(text)]

Kept(c) == IF c = "control" THEN <<>> ELSE <<c>>

\* A text without its controls.
Printed[text \in Seq(Char)] ==
  IF text = <<>> THEN <<>> ELSE Kept(Head(text)) \o Printed[Tail(text)]

\* What the caller parses is the text of the message without its controls.
TextReadsBack ==
  \A t \in DOMAIN payload :
    typeOf[t] = "Text" /\ payload[t].sample # NoMessage =>
      Unescape[payload[t].json.text] = Printed[payload[t].sample.text]

\* Every call returns.  The getters, watch, unwatch, a poll with a topic to untrack
\* and shutdown wait for the mutex; they get it, also while samples keep coming, as
\* long as the worker comes to the end of its rounds, and it does when samples stop.
CallsReturn ==
  []<>Unlocked \/ <>[][~Arrivals]_vars => (~IsIdle ~> IsIdle)
=============================================================================
