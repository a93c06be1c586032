------------------------------ MODULE NativeProofs ------------------------------
(***************************************************************************)
(* Proofs about NativeApi and PayloadDecoders, for any topics, any messages *)
(* and any width of the unsigned integers.                                 *)
(***************************************************************************)
EXTENDS NativeApi, FiniteSetTheorems, SequenceTheorems, WellFoundedInduction, TLAPS

-----------------------------------------------------------------------------
(* Arithmetic of the point cloud decoder.                                   *)

\* The bytes readPointFieldNumeric copies are those fieldFits made room for.
LEMMA WidthIsSize ==
  ASSUME NEW d
  PROVE  NumericWidth(d) = DatatypeSize(d) /\ NumericWidth(d) \in Nat
BY DEF NumericWidth, DatatypeSize

LEMMA Fields ==
  ASSUME NEW m \in CloudMessage
  PROVE  /\ m.type = "PointCloud2" /\ m.width \in Nat /\ m.height \in Nat
         /\ m.point_step \in Nat /\ m.length \in Nat /\ m.length < Word
         /\ Index(m) \subseteq Int
         /\ \A i \in Index(m) : m.fields[i].offset \in Nat
<1>1. /\ m.type = "PointCloud2" /\ m.fields \in Seq(PointField)
      /\ m.width \in UInt32 /\ m.height \in UInt32 /\ m.point_step \in UInt32 /\ m.length \in UInt32
  BY DEF CloudMessage
<1>2. \A n \in UInt32 : n \in Nat /\ n < Word
  BY WordAssumption DEF UInt32
<1>3. \A i \in Index(m) : i \in Int /\ m.fields[i] \in PointField
  BY <1>1 DEF Index
<1>4. \A i \in Index(m) : m.fields[i].offset \in Nat
  BY <1>2, <1>3 DEF PointField
<1> QED BY <1>1, <1>2, <1>3, <1>4

LEMMA Quotient ==
  ASSUME NEW a \in Nat, NEW b \in Nat, b > 0
  PROVE  a \div b \in Nat /\ (a \div b) * b <= a /\ a < (a \div b) * b + b
BY Z3

LEMMA Product ==
  ASSUME NEW p \in Nat, NEW q \in Nat, NEW b \in Nat, p < q
  PROVE  p * b + b <= q * b
BY Z3

LEMMA ProductInNat == ASSUME NEW p \in Nat, NEW q \in Nat PROVE p * q \in Nat
BY Z3

LEMMA CountBounds ==
  ASSUME NEW m \in CloudMessage
  PROVE  /\ PointCount(m) \in Nat
         /\ PointCount(m) > 0 =>
              m.point_step > 0 /\ AxesFit(m) /\ PointCount(m) <= m.length \div m.point_step
<1>1. m.width * m.height \in Nat
  BY Fields, ProductInNat
<1>2. (m.width * m.height) % Word \in Nat
  BY <1>1, WordAssumption
<1>3. m.point_step > 0 => m.length \div m.point_step \in Nat
  BY Fields, Quotient
<1> QED BY <1>2, <1>3, Fields DEF PointCount

\* A cell that fits in the point lies, for every point counted, in the data.
LEMMA CellInData ==
  ASSUME NEW m \in CloudMessage, NEW p \in 0..(PointCount(m) - 1), NEW i \in Index(m),
         NEW width \in Nat, FieldFits(m, i, width)
  PROVE  Cell(m, p, i, width).at + width <= m.length
<1> DEFINE held == m.length \div m.point_step
<1>1. /\ m.point_step \in Nat /\ m.length \in Nat /\ m.fields[i].offset \in Nat
      /\ m.point_step > 0 /\ m.fields[i].offset + width <= m.point_step
  BY Fields DEF FieldFits
<1>2. p \in Nat /\ held \in Nat /\ p < held
  BY CountBounds, <1>1, Quotient
<1>3. held * m.point_step <= m.length
  BY <1>1, Quotient
<1>4. p * m.point_step + m.point_step <= held * m.point_step
  BY <1>1, <1>2, Product
<1>5. p * m.point_step \in Nat /\ held * m.point_step \in Nat
  BY <1>1, <1>2, ProductInNat
<1> HIDE DEF held
<1> QED BY <1>1, <1>3, <1>4, <1>5 DEF Cell

\* The decoder of point clouds reads nothing outside the data of the message,
\* whatever width, height, step and fields the message claims.
LEMMA CloudReadsInData ==
  ASSUME NEW m \in CloudMessage, NEW p \in 0..(PointCount(m) - 1),
         NEW c \in Point(m, p).color \cup UNION {Point(m, p).axes[a] : a \in Axis}
  PROVE  c.at + c.width <= m.length
<1>1. CASE c \in Point(m, p).color
  <2>1. PICK i \in ColorField(m) : c = Cell(m, p, i, 4)
    BY <1>1 DEF Point
  <2>2. i \in Index(m) /\ FieldFits(m, i, 4)
    BY DEF ColorField
  <2>3. Cell(m, p, i, 4).at + 4 <= m.length
    BY <2>2, CellInData
  <2> QED BY <2>1, <2>3 DEF Cell
<1>2. CASE c \in UNION {Point(m, p).axes[a] : a \in Axis}
  <2>1. PICK a \in Axis : c \in Point(m, p).axes[a]
    BY <1>2
  <2>2. PICK i \in AxisField(m, a) : c = Cell(m, p, i, NumericWidth(m.fields[i].datatype))
    BY <2>1 DEF Point
  <2>3. PICK j \in AxisField(m, a) : FieldFits(m, j, DatatypeSize(m.fields[j].datatype))
    BY CountBounds DEF AxesFit
  <2>4. i \in Index(m) /\ j = i
    BY Fields DEF AxisField
  <2> DEFINE width == NumericWidth(m.fields[i].datatype)
  <2>5. width \in Nat /\ FieldFits(m, i, width)
    BY <2>3, <2>4, WidthIsSize
  <2>6. Cell(m, p, i, width).at + width <= m.length
    BY <2>4, <2>5, CellInData
  <2> QED BY <2>2, <2>6 DEF Cell
<1> QED BY <1>1, <1>2

\* A well-formed cloud, however large, keeps all its points.
LEMMA WellFormedKeepsAll ==
  ASSUME NEW m \in CloudMessage, WellFormed(m)
  PROVE  PointCount(m) = m.width * m.height
<1> DEFINE n == m.width * m.height
           s == m.point_step
<1>1. n \in Nat /\ s \in Nat /\ s > 0 /\ n * s = m.length /\ m.length \in Nat /\ m.length < Word
  BY Fields, ProductInNat DEF WellFormed
<1>2. AxesFit(m) /\ PointCount(m) = LET declared == n % Word
                                       held     == m.length \div s
                                   IN  IF s = 0 \/ ~AxesFit(m) \/ m.length = 0 THEN 0
                                       ELSE IF held < declared THEN held ELSE declared
  BY DEF WellFormed, PointCount
<1> HIDE DEF n, s
<1>3. n <= m.length
  BY <1>1, Z3
<1>4. n % Word = n
  BY <1>1, <1>3, WordAssumption
<1>5. m.length \div s = n
  <2>1. (n * s) \div s = n
    BY <1>1, Z3
  <2> QED BY <1>1, <2>1
<1>6. m.length = 0 => n = 0
  BY <1>1, Z3
<1>7. PointCount(m) = n
  BY <1>1, <1>2, <1>4, <1>5, <1>6
<1> QED BY <1>7 DEF n

-----------------------------------------------------------------------------
(* The invariant.                                                           *)

\* A reader holds samples of the type of its topic, and JSON and bytes are those
\* the decoder makes of its sample alone.
Samples(t) == {m \in Message : m.type = typeOf[t]} \cup {NoMessage}
Decoded(s) == IF s = NoMessage THEN [json |-> NoJson, blob |-> NoBlob] ELSE Decode(s, NoBlob)
ReaderOf(p, s) ==
  [pending |-> p, sample |-> s, json |-> Decoded(s).json, blob |-> Decoded(s).blob]

ReadersDecode == \A t \in DOMAIN payload : \E p, s \in Samples(t) : payload[t] = ReaderOf(p, s)

Typed ==
  /\ typeOf \in [Topic -> Decodable]
  /\ participant \in BOOLEAN
  /\ listed \subseteq Topic
  /\ stats \cup DOMAIN payload \subseteq listed \cup Leaving
  /\ DOMAIN writers \subseteq Topic /\ writers \in [DOMAIN writers -> MessageKind]

\* A watch waits for a topic of the registry, and only a getter that is not through
\* has a block.
CallInv ==
  /\ call.op \in {"idle", "copying"} \cup Shutting \cup Asking
  /\ call.on \subseteq Topic
  /\ call.op = "watch" => call.on \subseteq listed
  /\ call.block \in {{}, {"text"}, {"blob"}}
  /\ call.op # "copying" => call.block = {}
  /\ CopiesAreFreed

Owned == Builtin \cup UNION {EntitiesOf(o, Topic) : o \in {"stats", "payload", "writer"}}

\* Halfway through a shutdown there is no entity at all.
EntityInv ==
  /\ live \subseteq Owned
  /\ EntitiesAreRecorded
  /\ call.op = "clearing" => live = {} /\ ~participant

NativeInv == Typed /\ CallInv /\ EntityInv /\ ReadersDecode /\ WorkerOwnsTheMap

LEMMA NoneOfNothing == \A o : EntitiesOf(o, {}) = {}
BY DEF EntitiesOf

LEMMA NativeInit == Init => NativeInv
<1> SUFFICES ASSUME Init PROVE NativeInv
  OBVIOUS
<1>1. Typed
  BY NativeAssumption DEF Init, Typed, NoRecord
<1>2. CallInv
  BY FS_EmptySet DEF Init, CallInv, CopiesAreFreed, Idle, Step, Waiting
<1>3. EntityInv
  BY NoneOfNothing DEF Init, EntityInv, EntitiesAreRecorded, Recorded, NoRecord, Idle, Step, Waiting
<1>4. ReadersDecode /\ WorkerOwnsTheMap
  BY DEF Init, ReadersDecode, WorkerOwnsTheMap, NoRecord
<1> QED BY <1>1, <1>2, <1>3, <1>4 DEF NativeInv

-----------------------------------------------------------------------------
(* Types and calls.                                                         *)

\* The names the definition of a call goes by.
LEMMA Calls ==
  /\ Idle = [op |-> "idle", on |-> {}, block |-> {}, len |-> 0]
  /\ \A op, S : Waiting(op, S) = [op |-> op, on |-> S, block |-> {}, len |-> 0]
  /\ \A op : Step(op) = [op |-> op, on |-> {}, block |-> {}, len |-> 0]
BY DEF Idle, Step, Waiting

\* A step outside the polls that loses no topic from the registry.
LEMMA TypedFrame ==
  ASSUME NativeInv, call.op # "poll", UNCHANGED <<typeOf, listed, writers>>,
         participant' \in BOOLEAN, stats' \cup DOMAIN payload' \subseteq listed
  PROVE  Typed'
BY DEF NativeInv, Typed

LEMMA TypedStep == ASSUME NativeInv, [Next]_vars PROVE Typed'
<1> USE DEF NativeInv, Typed
<1>0. call.op # "poll" => stats \cup DOMAIN payload \subseteq listed
  BY DEF Leaving
<1>1. CASE UNCHANGED vars
  BY <1>1 DEF vars, Leaving
<1>2. CASE Arrivals
  BY <1>2 DEF Arrivals, Arrive, Leaving
<1>3. CASE WorkerStep
  BY <1>3 DEF WorkerStep, Wake, TakeSample, ReaderDone, Leaving
<1>4. CASE DeleteParticipant \/ ClearTrackers
  <2>1. call.op # "poll"
    BY <1>4 DEF DeleteParticipant, ClearTrackers, HasMutex
  <2>2. CASE DeleteParticipant
    BY <1>0, <2>1, <2>2, TypedFrame DEF DeleteParticipant
  <2>3. CASE ClearTrackers
    BY <2>3 DEF ClearTrackers, Cleared, NoRecord
  <2> QED BY <1>4, <2>2, <2>3
<1>5. ASSUME NEW b \in BOOLEAN,
             \/ CopyAndFree(b) \/ LatestJson(b) \/ TopicsJson(b)
             \/ \E t \in Topic : LatestBlob(t, b)
      PROVE  Typed'
  <2>1. /\ call.op # "poll"
        /\ UNCHANGED <<typeOf, participant, listed, stats, payload, writers>>
    BY <1>5 DEF CopyAndFree, LatestJson, TopicsJson, LatestBlob, HasMutex, IsIdle
  <2> QED BY <1>0, <2>1, TypedFrame
<1>6. ASSUME NEW t \in Topic, Untrack(t) PROVE Typed'
  <2>1. /\ call.op = "poll" /\ stats' = stats \ {t} /\ DOMAIN payload' = DOMAIN payload \ {t}
        /\ call' = IF call.on \ {t} = {} THEN Idle ELSE Waiting("poll", call.on \ {t})
        /\ UNCHANGED <<typeOf, participant, listed, writers>>
    BY <1>6 DEF Untrack, HasMutex, Without
  <2>2. Leaving' = call.on \ {t} /\ Leaving = call.on
    BY <2>1, Calls DEF Leaving
  <2> QED BY <2>1, <2>2
<1>7. ASSUME NEW t \in Topic, NEW o \in Outcome, Watch(t, o) PROVE Typed'
  <2>1. call.op = "watch" /\ t \in call.on
    BY <1>7 DEF Watch, HasMutex
  <2>2. call.on \subseteq listed
    BY <2>1 DEF CallInv
  <2>3. DOMAIN payload' \subseteq DOMAIN payload \cup {t} /\ UNCHANGED <<typeOf, participant, listed, stats, writers>>
    BY <1>7 DEF Watch, With
  <2> QED BY <1>0, <2>1, <2>2, <2>3, TypedFrame
<1>8. ASSUME NEW t \in Topic, Unwatch(t) PROVE Typed'
  <2>1. /\ call.op # "poll" /\ DOMAIN payload' \subseteq DOMAIN payload
        /\ UNCHANGED <<typeOf, participant, listed, stats, writers>>
    BY <1>8 DEF Unwatch, HasMutex, Without
  <2> QED BY <1>0, <2>1, TypedFrame
<1>9. CASE Shutdown \/ \E R \in SUBSET Readers : Initialize(R)
  <2>1. /\ call.op # "poll" /\ participant' \in BOOLEAN
        /\ UNCHANGED <<typeOf, listed, stats, payload, writers>>
    BY <1>9 DEF Initialize, Shutdown, IsIdle
  <2> QED BY <1>0, <2>1, TypedFrame
<1>10. ASSUME NEW S \in SUBSET Topic, NEW gone \in SUBSET Topic, Poll(S, gone) PROVE Typed'
  <2>1. /\ call.op # "poll" /\ listed' = S /\ listed \ S \subseteq gone
        /\ call' = IF gone = {} THEN Idle ELSE Waiting("poll", gone)
        /\ UNCHANGED <<typeOf, participant, stats, payload, writers>>
    BY <1>10 DEF Poll, Untracked, IsIdle
  <2>2. Leaving' = gone
    BY <2>1, Calls DEF Leaving
  <2> QED BY <1>0, <2>1, <2>2
<1>11. ASSUME NEW t \in Topic, NEW o \in Outcome, WatchTopic(t, o) PROVE Typed'
  <2>1. /\ call.op # "poll" /\ t \in listed /\ stats' \subseteq stats \cup {t}
        /\ UNCHANGED <<typeOf, participant, listed, payload, writers>>
    BY <1>11 DEF WatchTopic, IsIdle
  <2> QED BY <1>0, <2>1, TypedFrame
<1>12. ASSUME NEW t \in Topic, NEW k \in MessageKind, NEW o \in Outcome, Publish(k, t, o) PROVE Typed'
  <2>1. call.op # "poll" /\ UNCHANGED <<typeOf, participant, listed, stats, payload, call>>
    BY <1>12 DEF Publish, IsIdle
  <2>2. DOMAIN writers' \subseteq Topic /\ writers' \in [DOMAIN writers' -> MessageKind]
    BY <1>12 DEF Publish, With
  <2> QED BY <1>0, <2>1, <2>2 DEF Leaving
<1>13. ASSUME NEW t \in Topic, UnwatchTopic(t) \/ StopPublishing(t) PROVE Typed'
  <2>1. /\ call.op # "poll" /\ stats' \subseteq stats
        /\ UNCHANGED <<typeOf, participant, listed, payload, call>>
    BY <1>13 DEF UnwatchTopic, StopPublishing, IsIdle
  <2>2. DOMAIN writers' \subseteq Topic /\ writers' \in [DOMAIN writers' -> MessageKind]
    BY <1>13 DEF UnwatchTopic, StopPublishing, Without
  <2> QED BY <1>0, <2>1, <2>2 DEF Leaving
<1>14. ASSUME NEW t \in Topic,
              \/ WatchPayload(t) \/ UnwatchPayload(t)
              \/ TopicPayloadJson(t) \/ TopicPayloadBlob(t)
       PROVE  Typed'
  <2>1. call.op # "poll" /\ UNCHANGED <<typeOf, participant, listed, stats, payload, writers>>
    BY <1>14 DEF WatchPayload, UnwatchPayload, TopicPayloadJson, TopicPayloadBlob, Ask, IsIdle
  <2> QED BY <1>0, <2>1, TypedFrame
<1>15. CASE FinishStep
  BY <1>4, <1>5, <1>6, <1>7, <1>8, <1>15 DEF FinishStep
<1>16. CASE BeginStep
  BY <1>5, <1>9, <1>10, <1>11, <1>12, <1>13, <1>14, <1>16 DEF BeginStep
<1> QED BY <1>1, <1>2, <1>3, <1>15, <1>16 DEF Next

LEMMA CallStep == ASSUME NativeInv, [Next]_vars PROVE CallInv'
<1>1. /\ Cardinality({}) = 0
      /\ Cardinality({"text"}) = 1 /\ Cardinality({"blob"}) = 1
  BY FS_EmptySet, FS_Singleton
<1>0. /\ heap = Cardinality(call.block)
      /\ call.op # "copying" => call.block = {} /\ heap = 0
  BY <1>1 DEF NativeInv, CallInv, CopiesAreFreed
<1> USE <1>1, Calls DEF NativeInv, CallInv, CopiesAreFreed, Shutting, Asking
<1>2. CASE UNCHANGED <<call, heap, listed>>
  BY <1>2
<1>3. CASE DeleteParticipant \/ ClearTrackers \/ Shutdown \/ \E R \in SUBSET Readers : Initialize(R)
  <2>1. call.op # "copying" /\ heap' = heap
    BY <1>3 DEF DeleteParticipant, ClearTrackers, HasMutex, Shutdown, Initialize, IsIdle
  <2>2. call' = Idle \/ call' = Step("deleting") \/ call' = Step("clearing")
    BY <1>3 DEF DeleteParticipant, ClearTrackers, Shutdown, Initialize
  <2> QED BY <1>0, <2>1, <2>2
<1>4. ASSUME NEW b \in BOOLEAN, CopyAndFree(b) PROVE CallInv'
  <2>1. call' = Idle /\ heap' = heap - Cardinality(call.block)
    BY <1>4 DEF CopyAndFree, Freed
  <2>2. Cardinality(call.block) \in {0, 1}
    BY <1>1
  <2>3. heap' = 0
    BY <1>0, <2>1, <2>2
  <2> QED BY <2>1, <2>3
<1>5. ASSUME NEW b \in BOOLEAN, TopicsJson(b) \/ LatestJson(b) PROVE CallInv'
  <2>1. /\ heap = 0 /\ heap' = heap + (IF b THEN 1 ELSE 0)
        /\ call' = [op |-> "copying", on |-> {}, block |-> IF b THEN {"text"} ELSE {}, len |-> 0]
    BY <1>0, <1>5 DEF TopicsJson, LatestJson, HasMutex, ReturnText, IsIdle
  <2> QED BY <2>1
<1>6. ASSUME NEW t \in Topic, NEW b \in BOOLEAN, LatestBlob(t, b) PROVE CallInv'
  <2>1. PICK block \in BOOLEAN :
          /\ heap' = heap + (IF block THEN 1 ELSE 0)
          /\ call' = [op |-> "copying", on |-> {}, block |-> IF block THEN {"blob"} ELSE {},
                      len |-> OutLen(LatestBytes(t), block)]
    BY <1>6 DEF LatestBlob
  <2>2. heap = 0
    BY <1>0, <1>6 DEF LatestBlob, HasMutex
  <2> QED BY <2>1, <2>2 DEF OutLen
<1>7. CASE Arrivals \/ WorkerStep \/ UNCHANGED vars
  BY <1>2, <1>7 DEF Arrivals, Arrive, WorkerStep, Wake, TakeSample, ReaderDone, vars
<1>8. ASSUME NEW S \in SUBSET Topic, NEW gone \in SUBSET Topic, Poll(S, gone) PROVE CallInv'
  <2>1. call.op # "copying" /\ heap' = heap /\ (call' = Idle \/ call' = Waiting("poll", gone))
    BY <1>8 DEF Poll, IsIdle
  <2> QED BY <1>0, <2>1
<1>9. ASSUME NEW t \in Topic,
             \/ UnwatchTopic(t) \/ StopPublishing(t)
             \/ \E o \in Outcome : \/ WatchTopic(t, o)
                                   \/ \E k \in MessageKind : Publish(k, t, o)
      PROVE  CallInv'
  BY <1>2, <1>9 DEF UnwatchTopic, StopPublishing, WatchTopic, Publish
<1>10. ASSUME NEW t \in Topic,
              \/ WatchPayload(t) \/ UnwatchPayload(t)
              \/ TopicPayloadJson(t) \/ TopicPayloadBlob(t)
       PROVE  CallInv'
  <2>1. /\ call.op # "copying" /\ heap' = heap /\ listed' = listed
        /\ \/ t \in listed /\ call' = Waiting("watch", {t})
           \/ \E op \in Asking \ {"watch"} : call' = Waiting(op, {t})
    BY <1>10 DEF WatchPayload, UnwatchPayload, TopicPayloadJson, TopicPayloadBlob, Ask, IsIdle
  <2> QED BY <1>0, <2>1
<1>11. ASSUME NEW t \in Topic, Untrack(t) \/ Unwatch(t) \/ \E o \in Outcome : Watch(t, o)
       PROVE  CallInv'
  <2>1. /\ call.op # "copying" /\ heap' = heap
        /\ call' = Idle \/ call' = Waiting("poll", call.on \ {t})
    BY <1>11 DEF Untrack, Unwatch, Watch, HasMutex
  <2> QED BY <1>0, <2>1
<1>12. CASE FinishStep
  BY <1>3, <1>4, <1>5, <1>6, <1>11, <1>12 DEF FinishStep
<1>13. CASE BeginStep
  BY <1>3, <1>5, <1>8, <1>9, <1>10, <1>13 DEF BeginStep
<1> QED BY <1>7, <1>12, <1>13 DEF Next

-----------------------------------------------------------------------------
(* Entities.                                                                *)

\* No two records share an entity, and none has one of the participant's.
LEMMA EntitiesAreApart ==
  /\ \A o, p, t, u : \A e : e \in Entities(o, t) /\ e \in Entities(p, u) => o = p /\ t = u
  /\ \A o, t : \A e \in Entities(o, t) : e \notin Builtin
<1>1. ASSUME NEW o, NEW t, NEW e \in Entities(o, t)
      PROVE  (\E x : e = <<o, x, t>>) /\ e \notin Builtin
  BY DEF Entities, Builtin
<1>2. ASSUME NEW o, NEW p, NEW t, NEW u, NEW e, e \in Entities(o, t), e \in Entities(p, u)
      PROVE  o = p /\ t = u
  <2>1. PICK x, y : e = <<o, x, t>> /\ e = <<p, y, u>>
    BY <1>1, <1>2
  <2> QED BY <2>1
<1> QED BY <1>1, <1>2

Owns(e) ==
  \/ participant /\ e \in Builtin
  \/ \E t \in stats : e \in Entities("stats", t)
  \/ \E t \in DOMAIN payload : e \in Entities("payload", t)
  \/ \E t \in DOMAIN writers : e \in Entities("writer", t)

LEMMA MemberOfEntities ==
  ASSUME NEW o, NEW S, NEW e
  PROVE  e \in EntitiesOf(o, S) <=> \E t \in S : e \in Entities(o, t)
BY DEF EntitiesOf

LEMMA RecordedByMember ==
  /\ \A e : e \in Recorded <=> Owns(e)
  /\ \A e : (e \in Recorded)' <=> Owns(e)'
<1>1. ASSUME NEW e PROVE e \in Recorded <=> Owns(e)
  BY MemberOfEntities DEF Recorded, Owns
<1>2. ASSUME NEW e PROVE (e \in Recorded)' <=> Owns(e)'
  BY MemberOfEntities DEF Recorded, Owns
<1> QED BY <1>1, <1>2

\* Steps that touch no entity and no record.
LEMMA EntityFrame ==
  ASSUME NativeInv, UNCHANGED <<live, participant, stats, writers>>,
         DOMAIN payload' = DOMAIN payload,
         call.op \notin Shutting \/ call'.op = call.op,
         call'.op = "clearing" => call.op = "clearing"
  PROVE  EntityInv'
BY DEF NativeInv, EntityInv, EntitiesAreRecorded, Recorded, Shutting

\* Records and entities that come or go together.
LEMMA EntitySwap ==
  ASSUME NativeInv, call'.op \notin Shutting, live' \subseteq Owned,
         \A e : (e \in live)' <=> Owns(e)'
  PROVE  EntityInv'
<1>1. live' = Recorded'
  BY RecordedByMember
<1> QED BY <1>1 DEF EntityInv, EntitiesAreRecorded, Shutting

LEMMA EntityStep == ASSUME NativeInv, [Next]_vars PROVE EntityInv'
<1>0. call.op \notin Shutting => \A e : e \in live <=> Owns(e)
  BY RecordedByMember DEF NativeInv, EntityInv, EntitiesAreRecorded
<1>1. CASE Arrivals \/ WorkerStep \/ UNCHANGED vars
  <2>1. /\ UNCHANGED <<live, participant, stats, writers>> /\ call'.op = call.op
        /\ DOMAIN payload' = DOMAIN payload
    BY <1>1 DEF Arrivals, Arrive, WorkerStep, Wake, TakeSample, ReaderDone, vars
  <2> QED BY <2>1, EntityFrame
<1>2. CASE DeleteParticipant
  BY <1>2, Calls DEF DeleteParticipant, EntityInv, EntitiesAreRecorded, Shutting
<1>3. CASE ClearTrackers
  <2>1. live' = {} /\ Recorded' = {}
    BY <1>3, NoneOfNothing DEF ClearTrackers, HasMutex, Cleared, NoRecord, Recorded, NativeInv, EntityInv
  <2> QED BY <1>3, <2>1, Calls DEF EntityInv, EntitiesAreRecorded, ClearTrackers
<1>4. ASSUME NEW b \in BOOLEAN, CopyAndFree(b) \/ TopicsJson(b) \/ LatestJson(b)
                                \/ \E t \in Topic : LatestBlob(t, b)
      PROVE  EntityInv'
  <2>1. /\ UNCHANGED <<live, participant, stats, payload, writers>>
        /\ call.op \notin Shutting /\ call'.op # "clearing"
    BY <1>4, Calls DEF CopyAndFree, TopicsJson, LatestJson, LatestBlob, HasMutex, ReturnText, IsIdle, Shutting
  <2> QED BY <2>1, EntityFrame
<1>5. ASSUME \/ Shutdown
             \/ \E S, gone \in SUBSET Topic : Poll(S, gone)
             \/ \E t \in Topic : \/ WatchPayload(t) \/ UnwatchPayload(t)
                                 \/ TopicPayloadJson(t) \/ TopicPayloadBlob(t)
      PROVE  EntityInv'
  <2>1. UNCHANGED <<live, participant, stats, payload, writers>> /\ call.op = "idle"
    BY <1>5 DEF Shutdown, Poll, WatchPayload, UnwatchPayload, TopicPayloadJson,
                TopicPayloadBlob, Ask, IsIdle
  <2>2. PICK op \in {"idle", "deleting"} \cup Asking : \E S : call' = Waiting(op, S)
    BY <1>5 DEF Shutdown, Poll, WatchPayload, UnwatchPayload, TopicPayloadJson,
                TopicPayloadBlob, Ask, Asking, Idle, Step
  <2>3. call'.op = op
    BY <2>2 DEF Waiting
  <2>4. call'.op # "clearing"
    BY <2>3 DEF Asking
  <2> QED BY <2>1, <2>4, EntityFrame DEF Shutting
<1>6. ASSUME NEW R \in SUBSET Readers, Initialize(R) PROVE EntityInv'
  <2>1. /\ IsIdle /\ call.op \notin Shutting /\ ~participant /\ participant' = TRUE
        /\ live' = live \cup {<<"participant">>} \cup ({"builtin"} \X R)
        /\ call' = IF R = Readers THEN Idle ELSE Step("deleting")
        /\ UNCHANGED <<stats, payload, writers>>
    BY <1>6 DEF Initialize, IsIdle, Shutting
  <2>2. live' \subseteq Owned
    BY <2>1 DEF NativeInv, EntityInv, Owned, Builtin
  <2>3. CASE R = Readers
    <3>1. \A e : (e \in live)' <=> Owns(e)'
      BY <1>0, <2>1, <2>3 DEF Owns, Builtin
    <3>2. call'.op \notin Shutting
      BY <2>1, <2>3, Calls DEF Shutting
    <3> QED BY <2>2, <3>1, <3>2, EntitySwap
  <2>4. CASE R # Readers
    BY <2>1, <2>2, <2>4, Calls DEF EntityInv, EntitiesAreRecorded, Shutting
  <2> QED BY <2>3, <2>4
<1>7. ASSUME NEW t \in Topic, Untrack(t) PROVE EntityInv'
  <2>1. /\ call.op \notin Shutting /\ call'.op \notin Shutting
        /\ UNCHANGED <<participant, writers>>
        /\ stats' = stats \ {t} /\ DOMAIN payload' = DOMAIN payload \ {t}
        /\ \A e : e \in live' <=> /\ e \in live
                                 /\ e \notin Entities("stats", t) /\ e \notin Entities("payload", t)
    BY <1>7, Calls DEF Untrack, HasMutex, Without, Shutting
  <2>2. live' \subseteq Owned
    BY <2>1 DEF NativeInv, EntityInv
  <2>3. \A e : (e \in live)' <=> Owns(e)'
    BY <1>0, <2>1, EntitiesAreApart DEF Owns
  <2> QED BY <2>1, <2>2, <2>3, EntitySwap
<1>8. ASSUME NEW t \in Topic, NEW o \in Outcome,
             WatchTopic(t, o) \/ Watch(t, o) \/ \E k \in MessageKind : Publish(k, t, o)
      PROVE  EntityInv'
  <2>0. call.op \notin Shutting /\ call'.op \notin Shutting /\ UNCHANGED participant
    BY <1>8, Calls DEF WatchTopic, Watch, Publish, HasMutex, IsIdle, Shutting
  <2>1. CASE UNCHANGED <<live, stats, payload, writers>>
    BY <2>0, <2>1, EntityFrame DEF Shutting
  <2>2. CASE ~UNCHANGED <<live, stats, payload, writers>>
    <3>1. PICK p \in {"stats", "payload", "writer"} :
            /\ live' = live \cup Entities(p, t)
            /\ stats' = IF p = "stats" THEN stats \cup {t} ELSE stats
            /\ DOMAIN payload' = IF p = "payload" THEN DOMAIN payload \cup {t} ELSE DOMAIN payload
            /\ DOMAIN writers' = IF p = "writer" THEN DOMAIN writers \cup {t} ELSE DOMAIN writers
      <4>1. CASE WatchTopic(t, o)
        <5>1. o = "ok"
          BY <2>2, <4>1 DEF WatchTopic, Created
        <5> QED BY <4>1, <5>1 DEF WatchTopic, Created
      <4>2. CASE Watch(t, o)
        <5>1. o = "ok" /\ t \notin DOMAIN payload /\ typeOf[t] \in Decodable \cap KnownTypes
          BY <2>2, <4>2 DEF Watch, Created
        <5> QED BY <4>2, <5>1 DEF Watch, Created, With
      <4>3. ASSUME NEW k \in MessageKind, Publish(k, t, o)
            PROVE  /\ live' = live \cup Entities("writer", t)
                   /\ UNCHANGED <<stats, payload>>
                   /\ DOMAIN writers' = DOMAIN writers \cup {t}
        <5>1. o = "ok"
          BY <2>2, <4>3 DEF Publish, Created
        <5> QED BY <4>3, <5>1 DEF Publish, Created, With
      <4> QED BY <1>8, <4>1, <4>2, <4>3
    <3>2. live' \subseteq Owned
      BY <3>1, MemberOfEntities DEF NativeInv, EntityInv, Owned
    <3>3. \A e : (e \in live)' <=> Owns(e)'
      BY <1>0, <2>0, <3>1 DEF Owns
    <3> QED BY <2>0, <3>2, <3>3, EntitySwap
  <2> QED BY <2>1, <2>2
<1>9. ASSUME NEW t \in Topic, UnwatchTopic(t) \/ Unwatch(t) \/ StopPublishing(t)
      PROVE  EntityInv'
  <2>1. PICK p \in {"stats", "payload", "writer"} :
          /\ call.op \notin Shutting /\ call'.op \notin Shutting
          /\ UNCHANGED participant /\ live' = live \ Entities(p, t)
          /\ stats' = IF p = "stats" THEN stats \ {t} ELSE stats
          /\ DOMAIN payload' = IF p = "payload" THEN DOMAIN payload \ {t} ELSE DOMAIN payload
          /\ DOMAIN writers' = IF p = "writer" THEN DOMAIN writers \ {t} ELSE DOMAIN writers
    BY <1>9, Calls DEF UnwatchTopic, Unwatch, HasMutex, StopPublishing, Without, IsIdle, Shutting
  <2>2. live' \subseteq Owned
    BY <2>1 DEF NativeInv, EntityInv
  <2>3. \A e : (e \in live)' <=> Owns(e)'
    BY <1>0, <2>1, EntitiesAreApart DEF Owns
  <2> QED BY <2>1, <2>2, <2>3, EntitySwap
<1>10. CASE FinishStep
  BY <1>2, <1>3, <1>4, <1>7, <1>8, <1>9, <1>10 DEF FinishStep
<1>11. CASE BeginStep
  BY <1>4, <1>5, <1>6, <1>8, <1>9, <1>11 DEF BeginStep
<1> QED BY <1>1, <1>10, <1>11 DEF Next

-----------------------------------------------------------------------------
(* The readers and the worker.                                              *)

\* What is decoded from a sample does not depend on the sample before it.
LEMMA DecodeForgets ==
  ASSUME NEW t \in Topic, NEW m \in Samples(t) \ {NoMessage}, NEW s \in Samples(t), Typed
  PROVE  Decode(m, Decoded(s).blob) = Decode(m, NoBlob)
<1>1. m.type = typeOf[t] /\ m.type \in Decodable
  BY NativeAssumption DEF Samples
<1>2. CASE m.type \in {"PointCloud2", "Image"}
  BY <1>2 DEF Decode, ImageBlob
<1>3. CASE m.type \notin {"PointCloud2", "Image"}
  <2>1. s # NoMessage => s.type = m.type
    BY <1>1 DEF Samples
  <2>2. s # NoMessage => Decode(s, NoBlob).blob = NoBlob
    BY <1>1, <1>3, <2>1 DEF Decode, Decodable
  <2>3. Decoded(s).blob = NoBlob
    BY <2>2 DEF Decoded
  <2> QED BY <2>3
<1> QED BY <1>2, <1>3

LEMMA ReaderFields ==
  ASSUME NEW p, NEW s
  PROVE  /\ ReaderOf(p, s).pending = p /\ ReaderOf(p, s).sample = s
         /\ ReaderOf(p, s).json = Decoded(s).json /\ ReaderOf(p, s).blob = Decoded(s).blob
         /\ \A q : [ReaderOf(p, s) EXCEPT !.pending = q] = ReaderOf(q, s)
BY DEF ReaderOf

\* The readers that stay are as they were.
LEMMA ReadersFrame ==
  ASSUME NativeInv, typeOf' = typeOf, DOMAIN payload' \subseteq DOMAIN payload,
         \A t \in DOMAIN payload' : payload'[t] = payload[t]
  PROVE  ReadersDecode'
BY DEF NativeInv, ReadersDecode, Samples

LEMMA ReadersStep == ASSUME NativeInv, [Next]_vars PROVE ReadersDecode'
<1>1. CASE UNCHANGED <<typeOf, payload>>
  BY <1>1, ReadersFrame
<1>2. ASSUME NEW t \in Topic, NEW m \in Message, Arrive(t, m) PROVE ReadersDecode'
  <2>1. /\ t \in DOMAIN payload /\ m.type = typeOf[t] /\ typeOf' = typeOf
        /\ DOMAIN payload' = DOMAIN payload
        /\ \A u \in DOMAIN payload \ {t} : payload'[u] = payload[u]
        /\ payload'[t] = [payload[t] EXCEPT !.pending = m]
    BY <1>2 DEF Arrive
  <2>2. PICK p, s \in Samples(t) : payload[t] = ReaderOf(p, s)
    BY <2>1 DEF NativeInv, ReadersDecode
  <2>3. payload'[t] = ReaderOf(m, s) /\ m \in Samples(t)
    BY <2>1, <2>2, ReaderFields DEF Samples
  <2> QED BY <2>1, <2>3 DEF NativeInv, ReadersDecode, Samples
<1>3. CASE DeleteParticipant
  <2>1. /\ typeOf' = typeOf /\ DOMAIN payload' = DOMAIN payload
        /\ \A u \in DOMAIN payload : payload'[u] = [payload[u] EXCEPT !.pending = NoMessage]
    BY <1>3 DEF DeleteParticipant
  <2>2. SUFFICES ASSUME NEW t \in DOMAIN payload
                 PROVE  \E p, s \in Samples(t) : payload'[t] = ReaderOf(p, s)
    BY <2>1 DEF ReadersDecode, Samples
  <2>3. PICK p, s \in Samples(t) : payload[t] = ReaderOf(p, s)
    BY DEF NativeInv, ReadersDecode
  <2>4. payload'[t] = ReaderOf(NoMessage, s)
    BY <2>1, <2>3, ReaderFields
  <2> QED BY <2>4 DEF Samples
<1>4. CASE ClearTrackers
  BY <1>4 DEF ClearTrackers, Cleared, NoRecord, ReadersDecode
<1>5. ASSUME NEW S \in SUBSET Topic, NEW gone \in SUBSET Topic, Poll(S, gone)
      PROVE  ReadersDecode'
  BY <1>1, <1>5 DEF Poll
<1>6. ASSUME NEW t \in Topic, Untrack(t) \/ Unwatch(t) PROVE ReadersDecode'
  BY <1>6, ReadersFrame DEF Untrack, Unwatch, Without
<1>7. ASSUME NEW t \in Topic, NEW o \in Outcome, Watch(t, o) PROVE ReadersDecode'
  <2>1. CASE payload' = payload
    BY <1>1, <1>7, <2>1 DEF Watch
  <2>2. CASE payload' # payload
    <3>1. /\ typeOf' = typeOf /\ DOMAIN payload' = DOMAIN payload \cup {t}
          /\ \A u \in DOMAIN payload \ {t} : payload'[u] = payload[u]
          /\ payload'[t] = FreshReader
      BY <1>7, <2>2 DEF Watch, With
    <3>2. FreshReader = ReaderOf(NoMessage, NoMessage)
      BY DEF FreshReader, ReaderOf, Decoded
    <3> QED BY <3>1, <3>2 DEF NativeInv, ReadersDecode, Samples
  <2> QED BY <2>1, <2>2
<1>8. ASSUME NEW t \in Topic, TakeSample(t) PROVE ReadersDecode'
  <2>1. t \in DOMAIN payload /\ t \in Topic
    BY <1>8 DEF TakeSample, NativeInv, WorkerOwnsTheMap
  <2>2. PICK p, s \in Samples(t) : payload[t] = ReaderOf(p, s)
    BY <2>1 DEF NativeInv, ReadersDecode
  <2>3. payload[t].pending = p /\ p # NoMessage /\ payload[t].blob = Decoded(s).blob
    BY <1>8, <2>2, ReaderFields DEF TakeSample
  <2>4. Decode(p, payload[t].blob) = Decode(p, NoBlob)
    BY <2>2, <2>3, DecodeForgets DEF NativeInv
  <2>5. /\ typeOf' = typeOf /\ DOMAIN payload' = DOMAIN payload
        /\ \A u \in DOMAIN payload \ {t} : payload'[u] = payload[u]
        /\ payload'[t] = [pending |-> NoMessage, sample |-> p,
                          json |-> Decode(p, NoBlob).json, blob |-> Decode(p, NoBlob).blob]
    BY <1>8, <2>1, <2>3, <2>4 DEF TakeSample
  <2>6. payload'[t] = ReaderOf(NoMessage, p)
    BY <2>3, <2>5 DEF ReaderOf, Decoded
  <2> QED BY <2>2, <2>5, <2>6 DEF NativeInv, ReadersDecode, Samples
<1>9. CASE Wake \/ Shutdown \/ UNCHANGED vars \/ \E t \in Topic : ReaderDone(t)
  BY <1>1, <1>9 DEF Wake, Shutdown, vars, ReaderDone
<1>10. ASSUME NEW b \in BOOLEAN,
              CopyAndFree(b) \/ TopicsJson(b) \/ LatestJson(b) \/ \E t \in Topic : LatestBlob(t, b)
       PROVE  ReadersDecode'
  BY <1>1, <1>10 DEF CopyAndFree, TopicsJson, LatestJson, LatestBlob
<1>11. ASSUME NEW R \in SUBSET Readers, Initialize(R) PROVE ReadersDecode'
  BY <1>1, <1>11 DEF Initialize
<1>12. ASSUME NEW t \in Topic,
              \/ UnwatchTopic(t) \/ StopPublishing(t)
              \/ WatchPayload(t) \/ UnwatchPayload(t)
              \/ TopicPayloadJson(t) \/ TopicPayloadBlob(t)
              \/ \E o \in Outcome : WatchTopic(t, o) \/ \E k \in MessageKind : Publish(k, t, o)
       PROVE  ReadersDecode'
  BY <1>1, <1>12 DEF UnwatchTopic, StopPublishing, WatchPayload, UnwatchPayload, TopicPayloadJson,
    TopicPayloadBlob, Ask, WatchTopic, Publish
<1>13. CASE Arrivals \/ WorkerStep
  BY <1>2, <1>8, <1>9, <1>13 DEF Arrivals, WorkerStep
<1>14. CASE FinishStep
  BY <1>3, <1>4, <1>6, <1>7, <1>10, <1>14 DEF FinishStep
<1>15. CASE BeginStep
  BY <1>5, <1>9, <1>10, <1>11, <1>12, <1>15 DEF BeginStep
<1> QED BY <1>9, <1>13, <1>14, <1>15 DEF Next

\* Only with the mutex free, or before the round comes to it, does a reader go.
LEMMA WorkerOwnsStep == ASSUME NativeInv, [Next]_vars PROVE WorkerOwnsTheMap'
<1> USE DEF NativeInv, WorkerOwnsTheMap
<1>1. CASE Arrivals \/ WorkerStep \/ UNCHANGED vars
  BY <1>1 DEF Arrivals, Arrive, WorkerStep, Wake, TakeSample, ReaderDone, Undrained, vars
<1>2. ASSUME NEW t \in Topic,
             Untrack(t) \/ Unwatch(t) \/ \E o \in Outcome : Watch(t, o)
      PROVE  WorkerOwnsTheMap'
  BY <1>2 DEF Untrack, Unwatch, Watch, HasMutex, Unlocked
<1>3. CASE DeleteParticipant
  BY <1>3 DEF DeleteParticipant
<1>4. ASSUME NEW S \in SUBSET Topic, NEW gone \in SUBSET Topic, Poll(S, gone)
      PROVE  WorkerOwnsTheMap'
  BY <1>4 DEF Poll
<1>5. ASSUME NEW t \in Topic,
             \/ UnwatchTopic(t) \/ StopPublishing(t)
             \/ WatchPayload(t) \/ UnwatchPayload(t)
             \/ TopicPayloadJson(t) \/ TopicPayloadBlob(t)
             \/ \E o \in Outcome : WatchTopic(t, o) \/ \E k \in MessageKind : Publish(k, t, o)
      PROVE  WorkerOwnsTheMap'
  BY <1>5 DEF UnwatchTopic, StopPublishing, WatchPayload, UnwatchPayload, TopicPayloadJson,
              TopicPayloadBlob, Ask, WatchTopic, Publish
<1>6. CASE Shutdown \/ (\E R \in SUBSET Readers : Initialize(R))
           \/ \E b \in BOOLEAN : \/ TopicsJson(b) \/ LatestJson(b) \/ CopyAndFree(b)
                               \/ \E t \in Topic : LatestBlob(t, b)
  BY <1>6 DEF Shutdown, Initialize, TopicsJson, LatestJson, CopyAndFree, LatestBlob
<1>7. CASE ClearTrackers
  BY <1>7 DEF ClearTrackers, HasMutex, Unlocked
<1>8. CASE FinishStep
  BY <1>2, <1>3, <1>6, <1>7, <1>8 DEF FinishStep
<1>9. CASE BeginStep
  BY <1>4, <1>5, <1>6, <1>9 DEF BeginStep
<1> QED BY <1>1, <1>8, <1>9 DEF Next

-----------------------------------------------------------------------------
\* The inductive invariant, in every reachable state.
THEOREM NativeCorrect == Spec => []NativeInv
<1>1. NativeInv /\ [Next]_vars => NativeInv'
  BY TypedStep, CallStep, EntityStep, ReadersStep, WorkerOwnsStep DEF NativeInv
<1> QED BY <1>1, NativeInit, PTL DEF Spec

\* Every field of the tracker, the publisher and a call in progress has its type.
THEOREM NativeTypes == Spec => []TypeOK
<1>1. ASSUME NativeInv PROVE TypeOK
  <2>1. ASSUME NEW t \in DOMAIN payload PROVE payload[t] \in TrackedReader
    <3>1. PICK p, s \in Samples(t) : payload[t] = ReaderOf(p, s)
      BY <1>1 DEF NativeInv, ReadersDecode
    <3>2. /\ p \in Message \cup {NoMessage} /\ s \in Message \cup {NoMessage}
      BY DEF Samples
    <3>3. /\ Decoded(s).json \in {NoJson} \cup {Decode(m, NoBlob).json : m \in Message}
          /\ Decoded(s).blob \in {NoBlob} \cup {Decode(m, NoBlob).blob : m \in Message}
      BY <3>2 DEF Decoded
    <3> QED BY <3>1, <3>2, <3>3 DEF ReaderOf, TrackedReader
  <2>2. heap \in Nat
    <3>1. Cardinality({}) = 0 /\ Cardinality({"text"}) = 1 /\ Cardinality({"blob"}) = 1
      BY FS_EmptySet, FS_Singleton
    <3> QED BY <1>1, <3>1 DEF NativeInv, CallInv, CopiesAreFreed
  <2> QED BY <1>1, <2>1, <2>2 DEF NativeInv, Typed, CallInv, EntityInv, Owned, TypeOK
<1> QED BY <1>1, NativeCorrect, PTL

\* However create calls fail and topics leave, no DDS entity is left that no
\* record leads to, and no record whose entity is gone.
THEOREM EntitiesCorrect == Spec => []EntitiesAreRecorded
<1>1. NativeInv => EntitiesAreRecorded
  BY DEF NativeInv, EntityInv
<1> QED BY <1>1, NativeCorrect, PTL

\* The worker's iteration stays within the map, shutdown included.
THEOREM WorkerCorrect == Spec => []WorkerOwnsTheMap
<1>1. NativeInv => WorkerOwnsTheMap
  BY DEF NativeInv
<1> QED BY <1>1, NativeCorrect, PTL

\* What a getter allocates is freed once, with any text and any failed malloc.
THEOREM CopiesCorrect == Spec => []CopiesAreFreed
<1>1. NativeInv => CopiesAreFreed
  BY DEF NativeInv, CallInv
<1> QED BY <1>1, NativeCorrect, PTL

\* For every message a publisher may send, no byte is read outside its data.
THEOREM ReadsCorrect == Spec => []ReadsInBuffer
<1>1. ASSUME NativeInv PROVE ReadsInBuffer
  <2>1. SUFFICES ASSUME NEW t \in DOMAIN payload, NEW p \in DOMAIN payload[t].blob.points,
                        NEW c \in payload[t].blob.points[p].color
                                    \cup UNION {payload[t].blob.points[p].axes[a] : a \in Axis}
                 PROVE  c.at + c.width <= payload[t].sample.length
    BY DEF ReadsInBuffer
  <2>2. PICK q, m \in Samples(t) : payload[t] = ReaderOf(q, m)
    BY <1>1 DEF NativeInv, ReadersDecode
  <2>3. payload[t].sample = m /\ payload[t].blob = Decoded(m).blob
    BY <2>2, ReaderFields
  <2>4. m \in Message /\ m # NoMessage /\ m.type = "PointCloud2"
    <3>1. SUFFICES ASSUME m = NoMessage \/ m.type # "PointCloud2" PROVE FALSE
      BY NativeAssumption DEF Samples
    <3>2. Decoded(m).blob.points = <<>>
      <4>1. CASE m = NoMessage
        BY <4>1 DEF Decoded, NoBlob
      <4>2. CASE m # NoMessage /\ m.type # "PointCloud2"
        <5>1. m \in Message /\ m.type \in Decodable
          BY <4>2, NativeAssumption DEF Samples
        <5>2. Decode(m, NoBlob).blob.points = <<>>
          BY <4>2, <5>1 DEF Decode, Decodable, ImageBlob, NoBlob
        <5> QED BY <4>2, <5>2 DEF Decoded
      <4> QED BY <3>1, <4>1, <4>2
    <3> QED BY <2>3, <3>2
  <2>5. payload[t].blob.points = Points(m) /\ m \in CloudMessage
    BY <2>3, <2>4, NativeAssumption DEF Decoded, Decode, CloudBlob
  <2>6. p \in 0..(PointCount(m) - 1) /\ payload[t].blob.points[p] = Point(m, p)
    BY <2>5 DEF Points
  <2> QED BY <2>3, <2>5, <2>6, CloudReadsInData
<1> QED BY <1>1, NativeCorrect, PTL

\* The bytes a viewer gets are those its JSON speaks of.
THEOREM BlobCorrect == Spec => []BlobMatchesJson
<1>1. ASSUME NativeInv PROVE BlobMatchesJson
  <2>1. SUFFICES ASSUME NEW t \in DOMAIN payload, payload[t].sample # NoMessage
                 PROVE  LET r == payload[t] IN
                        CASE typeOf[t] = "Image" -> r.blob.bytes = r.sample.length
                          [] typeOf[t] = "PointCloud2" ->
                               /\ r.blob.bytes = r.json.pointCount * PointBytes
                               /\ WellFormed(r.sample) =>
                                    r.json.pointCount = r.sample.width * r.sample.height
                          [] OTHER -> r.blob = NoBlob
    BY DEF BlobMatchesJson
  <2>2. PICK q, m \in Samples(t) : payload[t] = ReaderOf(q, m)
    BY <1>1 DEF NativeInv, ReadersDecode
  <2>3. payload[t].sample = m /\ payload[t].blob = Decoded(m).blob /\ payload[t].json = Decoded(m).json
    BY <2>2, ReaderFields
  <2>4. /\ m \in Message /\ m.type = typeOf[t] /\ m.type \in Decodable
        /\ payload[t].blob = Decode(m, NoBlob).blob /\ payload[t].json = Decode(m, NoBlob).json
    BY <2>1, <2>3, NativeAssumption DEF Samples, Decoded
  <2>5. CASE typeOf[t] = "Image"
    <3>1. m.length \in Nat
      BY <2>4, <2>5, NativeAssumption, WordAssumption DEF ImageMessage, UInt32
    <3>2. payload[t].blob.bytes = m.length
      BY <2>4, <2>5, <3>1 DEF Decode, ImageBlob, NoBlob
    <3> QED BY <2>3, <2>5, <3>2
  <2>6. CASE typeOf[t] = "PointCloud2"
    <3>1. payload[t].blob = CloudBlob(m) /\ payload[t].json = CloudJson(m) /\ m \in CloudMessage
      BY <2>4, <2>6, NativeAssumption DEF Decode
    <3>2. /\ payload[t].blob.bytes = PointCount(m) * PointBytes
          /\ payload[t].json.pointCount = PointCount(m)
      BY <3>1 DEF CloudBlob, CloudJson
    <3> QED BY <2>3, <2>6, <3>1, <3>2, WellFormedKeepsAll
  <2>7. CASE typeOf[t] \notin {"Image", "PointCloud2"}
    <3>1. payload[t].blob = NoBlob
      BY <2>4, <2>7 DEF Decode, Decodable
    <3> QED BY <2>7, <3>1
  <2> QED BY <2>5, <2>6, <2>7
<1> QED BY <1>1, NativeCorrect, PTL

-----------------------------------------------------------------------------
(* Induction over data.  The induction theorems of the library are about a  *)
(* predicate, these are about a set: the natural numbers are well-founded,  *)
(* so a set with 0 and every successor contains them all.                   *)

LEMMA NatSetInduction ==
  ASSUME NEW S \in SUBSET Nat, 0 \in S, \A n \in S : n + 1 \in S
  PROVE  Nat \subseteq S
<1> DEFINE T == Nat \ S
           Less == {ss \in Nat \X Nat : ss[1] < ss[2]}
<1>1. SUFFICES ASSUME T # {} PROVE FALSE
  OBVIOUS
<1>2. IsWellFoundedOn(Less, Nat)
  BY NatLessThanWellFounded DEF OpToRel
<1>3. PICK x \in T : \A y \in T : <<y, x>> \notin Less
  <2> HIDE DEF T, Less
  <2>1. T \subseteq Nat
    BY DEF T
  <2> QED BY <1>1, <1>2, <2>1, WFMin
<1>4. x # 0 /\ x - 1 \in Nat /\ x - 1 \notin S
  OBVIOUS
<1>5. <<x - 1, x>> \in Less
  BY <1>4
<1> QED BY <1>3, <1>4, <1>5

\* F makes one function out of another, and the value it gives at x depends
\* only on the values at elements of smaller rank: a recursive definition.
Causal(F, S, B, rank) ==
  /\ B # {}
  /\ rank \in [S -> Nat]
  /\ F \in [[S -> B] -> [S -> B]]
  /\ \A g, h \in [S -> B] : \A x \in S :
       (\A y \in S : rank[y] < rank[x] => g[y] = h[y]) => F[g][x] = F[h][x]

\* A recursive definition defines something: the functions that satisfy it up
\* to rank n exist for every n and agree, and their diagonal satisfies it.
LEMMA CausalFixedPoint ==
  ASSUME NEW S, NEW B, NEW rank, NEW F, Causal(F, S, B, rank)
  PROVE  \E f \in [S -> B] : F[f] = f
<1> USE DEF Causal
<1> PICK b \in B : TRUE
  OBVIOUS
<1> DEFINE Solves(g, n) == \A x \in S : rank[x] < n => F[g][x] = g[x]
<1>1. ASSUME NEW n \in Nat PROVE \E g \in [S -> B] : Solves(g, n)
  <2> DEFINE N == {k \in Nat : \E g \in [S -> B] : Solves(g, k)}
  <2>1. 0 \in N
    <3>1. [x \in S |-> b] \in [S -> B] /\ Solves([x \in S |-> b], 0)
      OBVIOUS
    <3> QED BY <3>1
  <2>2. ASSUME NEW k \in N PROVE k + 1 \in N
    <3>1. PICK g \in [S -> B] : Solves(g, k)
      OBVIOUS
    <3>2. F[g] \in [S -> B]
      OBVIOUS
    <3>3. ASSUME NEW x \in S, rank[x] < k + 1 PROVE F[F[g]][x] = F[g][x]
      <4>1. \A y \in S : rank[y] < rank[x] => F[g][y] = g[y]
        BY <3>1, <3>3
      <4> QED BY <3>2, <4>1
    <3> QED BY <3>2, <3>3
  <2> HIDE DEF N
  <2>3. Nat \subseteq N
    BY <2>1, <2>2, NatSetInduction DEF N
  <2> QED BY <2>3 DEF N
<1>2. ASSUME NEW g \in [S -> B], NEW h \in [S -> B], NEW n \in Nat, Solves(g, n), Solves(h, n)
      PROVE  \A x \in S : rank[x] < n => g[x] = h[x]
  <2> DEFINE K == {k \in Nat : \A x \in S : rank[x] < k /\ rank[x] < n => g[x] = h[x]}
  <2>1. 0 \in K
    OBVIOUS
  <2>2. ASSUME NEW k \in K PROVE k + 1 \in K
    <3>1. ASSUME NEW x \in S, rank[x] < k + 1, rank[x] < n PROVE g[x] = h[x]
      <4>1. \A y \in S : rank[y] < rank[x] => g[y] = h[y]
        BY <3>1
      <4>2. F[g][x] = F[h][x]
        BY <4>1
      <4> QED BY <1>2, <3>1, <4>2
    <3> QED BY <3>1
  <2> HIDE DEF K
  <2>3. Nat \subseteq K
    BY <2>1, <2>2, NatSetInduction DEF K
  <2> QED
    <3> SUFFICES ASSUME NEW x \in S, rank[x] < n PROVE g[x] = h[x]
      OBVIOUS
    <3>1. n \in K
      BY <2>3
    <3> QED BY <3>1 DEF K
<1> DEFINE G == [n \in Nat |-> CHOOSE g \in [S -> B] : Solves(g, n)]
           f == [x \in S |-> G[rank[x] + 1][x]]
<1>3. \A n \in Nat : G[n] \in [S -> B] /\ Solves(G[n], n)
  <2> HIDE DEF Solves
  <2> QED BY <1>1
<1>4. f \in [S -> B]
  <2> HIDE DEF G
  <2> QED BY <1>3
<1>5. ASSUME NEW x \in S PROVE F[f][x] = f[x]
  <2>1. ASSUME NEW y \in S, rank[y] < rank[x] PROVE f[y] = G[rank[x] + 1][y]
    <3> HIDE DEF G
    <3>1. Solves(G[rank[x] + 1], rank[y] + 1)
      BY <1>3, <2>1
    <3>2. /\ Solves(G[rank[y] + 1], rank[y] + 1)
          /\ G[rank[y] + 1] \in [S -> B] /\ G[rank[x] + 1] \in [S -> B]
      BY <1>3
    <3> HIDE DEF Solves
    <3>3. G[rank[y] + 1][y] = G[rank[x] + 1][y]
      BY <1>2, <3>1, <3>2
    <3> QED BY <3>3
  <2> HIDE DEF f, G
  <2>2. F[f][x] = F[G[rank[x] + 1]][x]
    BY <1>3, <1>4, <2>1
  <2> QED BY <1>3, <2>2 DEF f
<1> HIDE DEF f
<1>6. F[f] \in [S -> B]
  BY <1>4
<1>7. F[f] = f
  BY <1>4, <1>5, <1>6
<1> QED BY <1>4, <1>7

\* Induction on the length of a sequence.
LEMMA SeqSetInduction ==
  ASSUME NEW A, NEW P \in SUBSET Seq(A),
         \A s \in Seq(A) : (\A t \in Seq(A) : Len(t) < Len(s) => t \in P) => s \in P
  PROVE  Seq(A) \subseteq P
<1> DEFINE K == {k \in Nat : \A s \in Seq(A) : Len(s) < k => s \in P}
<1>1. 0 \in K
  BY LenProperties
<1>2. ASSUME NEW k \in K PROVE k + 1 \in K
  <2>1. ASSUME NEW s \in Seq(A), Len(s) < k + 1 PROVE s \in P
    <3>1. \A t \in Seq(A) : Len(t) < Len(s) => t \in P
      BY <2>1, LenProperties
    <3> QED BY <3>1
  <2> QED BY <2>1
<1> HIDE DEF K
<1>3. Nat \subseteq K
  BY <1>1, <1>2, NatSetInduction DEF K
<1>4. ASSUME NEW s \in Seq(A) PROVE s \in P
  <2>1. Len(s) + 1 \in K
    BY <1>3, LenProperties
  <2> QED BY <2>1, LenProperties DEF K
<1> QED BY <1>4

-----------------------------------------------------------------------------
(* The three recursive functions on texts are what they are written as.     *)

LEMMA TextTail ==
  ASSUME NEW s \in Seq(Char), s # <<>>
  PROVE  /\ Head(s) \in Char /\ Tail(s) \in Seq(Char)
         /\ Len(s) \in Nat \ {0} /\ Len(Tail(s)) = Len(s) - 1
BY HeadTailProperties, EmptySeq

LEMMA EscapedCases ==
  /\ Escaped("plain") = <<"plain">>
  /\ Escaped("control") = <<>>
  /\ Escaped("quote") = <<"backslash", "quote">>
  /\ Escaped("backslash") = <<"backslash", "backslash">>
BY Zenon DEF Escaped

LEMMA EscapedType == ASSUME NEW c \in Char PROVE Escaped(c) \in Seq(Char)
<1>1. c = "plain" \/ c = "quote" \/ c = "backslash" \/ c = "control"
  BY DEF Char
<1>2. /\ <<"plain">> \in Seq(Char) /\ <<>> \in Seq(Char)
      /\ <<"backslash", "quote">> \in Seq(Char) /\ <<"backslash", "backslash">> \in Seq(Char)
  BY DEF Char
<1> QED BY <1>1, <1>2, EscapedCases

LEMMA OneChar == ASSUME NEW c \in Char PROVE <<c>> \in Seq(Char)
OBVIOUS

LEMMA KeptType == ASSUME NEW c \in Char PROVE Kept(c) \in Seq(Char)
BY OneChar, EmptySeq DEF Kept

\* Character by character, from the head.
LEMMA TextRecursion ==
  ASSUME NEW piece \in [Char -> Seq(Char)]
  PROVE  \E f \in [Seq(Char) -> Seq(Char)] :
           f = [text \in Seq(Char) |->
                  IF text = <<>> THEN <<>> ELSE piece[Head(text)] \o f[Tail(text)]]
<1> DEFINE T == Seq(Char)
           Eq(f, t) == IF t = <<>> THEN <<>> ELSE piece[Head(t)] \o f[Tail(t)]
           F == [f \in [T -> T] |-> [t \in T |-> Eq(f, t)]]
           rank == [t \in T |-> Len(t)]
<1>1. rank \in [T -> Nat]
  BY LenProperties
<1>2. ASSUME NEW f \in [T -> T], NEW t \in T PROVE Eq(f, t) \in T
  <2>1. CASE t = <<>>
    BY <2>1, EmptySeq
  <2>2. CASE t # <<>>
    <3>1. f[Tail(t)] \in T /\ Head(t) \in Char
      BY <2>2, TextTail
    <3> QED BY <2>2, <3>1, ConcatProperties
  <2> QED BY <2>1, <2>2
<1>3. F \in [[T -> T] -> [T -> T]]
  <2> HIDE DEF Eq, T
  <2> QED BY <1>2
<1>4. ASSUME NEW g \in [T -> T], NEW h \in [T -> T], NEW t \in T,
             \A y \in T : rank[y] < rank[t] => g[y] = h[y]
      PROVE  F[g][t] = F[h][t]
  <2>1. CASE t = <<>>
    BY <2>1
  <2>2. CASE t # <<>>
    <3>1. Tail(t) \in T /\ rank[Tail(t)] < rank[t]
      BY <2>2, TextTail
    <3>2. g[Tail(t)] = h[Tail(t)]
      BY <1>4, <3>1
    <3> QED BY <3>2
  <2> QED BY <2>1, <2>2
<1>5. <<>> \in T
  BY EmptySeq
<1>6. PICK f \in [T -> T] : F[f] = f
  <2> HIDE DEF F, rank, T
  <2>1. Causal(F, T, T, rank)
    BY <1>1, <1>3, <1>4, <1>5 DEF Causal
  <2> QED BY <2>1, CausalFixedPoint
<1>7. f = [text \in Seq(Char) |->
             IF text = <<>> THEN <<>> ELSE piece[Head(text)] \o f[Tail(text)]]
  BY <1>6
<1> QED BY <1>7

LEMMA EscapeDef ==
  Escape = [text \in Seq(Char) |->
              IF text = <<>> THEN <<>> ELSE Escaped(Head(text)) \o Escape[Tail(text)]]
<1> DEFINE piece == [c \in Char |-> Escaped(c)]
<1>1. piece \in [Char -> Seq(Char)]
  BY EscapedType
<1>2. PICK f \in [Seq(Char) -> Seq(Char)] :
        f = [text \in Seq(Char) |->
               IF text = <<>> THEN <<>> ELSE piece[Head(text)] \o f[Tail(text)]]
  <2> HIDE DEF piece
  <2> QED BY <1>1, TextRecursion
<1>3. \A t \in Seq(Char) : t # <<>> => piece[Head(t)] = Escaped(Head(t))
  BY TextTail
<1>4. f = [text \in Seq(Char) |->
             IF text = <<>> THEN <<>> ELSE Escaped(Head(text)) \o f[Tail(text)]]
  <2> HIDE DEF piece
  <2> QED BY <1>2, <1>3
<1> QED BY <1>4 DEF Escape

LEMMA PrintedDef ==
  Printed = [text \in Seq(Char) |->
               IF text = <<>> THEN <<>> ELSE Kept(Head(text)) \o Printed[Tail(text)]]
<1> DEFINE piece == [c \in Char |-> Kept(c)]
<1>1. piece \in [Char -> Seq(Char)]
  BY KeptType
<1>2. PICK f \in [Seq(Char) -> Seq(Char)] :
        f = [text \in Seq(Char) |->
               IF text = <<>> THEN <<>> ELSE piece[Head(text)] \o f[Tail(text)]]
  <2> HIDE DEF piece
  <2> QED BY <1>1, TextRecursion
<1>3. \A t \in Seq(Char) : t # <<>> => piece[Head(t)] = Kept(Head(t))
  BY TextTail
<1>4. f = [text \in Seq(Char) |->
             IF text = <<>> THEN <<>> ELSE Kept(Head(text)) \o f[Tail(text)]]
  <2> HIDE DEF piece
  <2> QED BY <1>2, <1>3
<1> QED BY <1>4 DEF Printed

LEMMA TextTailTail ==
  ASSUME NEW s \in Seq(Char), s # <<>>, Len(s) # 1
  PROVE  s[2] \in Char /\ Tail(Tail(s)) \in Seq(Char) /\ Len(Tail(Tail(s))) < Len(s)
<1>1. Tail(s) \in Seq(Char) /\ Len(Tail(s)) = Len(s) - 1 /\ Len(s) \in Nat \ {0}
  BY TextTail
<1>2. Tail(s) # <<>>
  <2>1. Len(Tail(s)) # 0
    BY <1>1
  <2> QED BY <2>1, EmptySeq
<1>3. Tail(Tail(s)) \in Seq(Char) /\ Len(Tail(Tail(s))) = Len(Tail(s)) - 1
  BY <1>1, <1>2, TextTail
<1>4. s[2] \in Char
  BY <1>1, ElementOfSeq
<1> QED BY <1>1, <1>3, <1>4

LEMMA UnescapeDef ==
  Unescape = [text \in Seq(Char) |->
                IF text = <<>> \/ Head(text) = "quote" THEN <<>>
                ELSE IF Head(text) = "backslash"
                       THEN IF Len(text) = 1 THEN <<>>
                                             ELSE <<text[2]>> \o Unescape[Tail(Tail(text))]
                       ELSE <<Head(text)>> \o Unescape[Tail(text)]]
<1> DEFINE T == Seq(Char)
           Eq(f, t) == IF t = <<>> \/ Head(t) = "quote" THEN <<>>
                       ELSE IF Head(t) = "backslash"
                              THEN IF Len(t) = 1 THEN <<>> ELSE <<t[2]>> \o f[Tail(Tail(t))]
                              ELSE <<Head(t)>> \o f[Tail(t)]
           F == [f \in [T -> T] |-> [t \in T |-> Eq(f, t)]]
           rank == [t \in T |-> Len(t)]
<1>1. rank \in [T -> Nat]
  BY LenProperties
<1>3. ASSUME NEW f \in [T -> T], NEW t \in T PROVE Eq(f, t) \in T
  <2>1. CASE t = <<>> \/ Head(t) = "quote"
    BY <2>1, EmptySeq
  <2>2. CASE t # <<>> /\ Head(t) = "backslash"
    <3>1. CASE Len(t) = 1
      BY <2>2, <3>1, EmptySeq
    <3>2. CASE Len(t) # 1
      <4>1. t[2] \in Char /\ Tail(Tail(t)) \in T
        BY <2>2, <3>2, TextTailTail
      <4>2. <<t[2]>> \in T
        BY <4>1, OneChar
      <4>3. f[Tail(Tail(t))] \in T
        BY <4>1
      <4> QED BY <2>2, <3>2, <4>2, <4>3, ConcatProperties
    <3> QED BY <3>1, <3>2
  <2>3. CASE t # <<>> /\ Head(t) \notin {"quote", "backslash"}
    <3>1. Head(t) \in Char /\ Tail(t) \in T
      BY <2>3, TextTail
    <3>2. <<Head(t)>> \in T
      BY <3>1, OneChar
    <3>3. f[Tail(t)] \in T
      BY <3>1
    <3> QED BY <2>3, <3>2, <3>3, ConcatProperties
  <2> QED BY <2>1, <2>2, <2>3
<1>4. F \in [[T -> T] -> [T -> T]]
  <2> HIDE DEF Eq, T
  <2> QED BY <1>3
<1>5. ASSUME NEW g \in [T -> T], NEW h \in [T -> T], NEW t \in T,
             \A y \in T : rank[y] < rank[t] => g[y] = h[y]
      PROVE  F[g][t] = F[h][t]
  <2>1. ASSUME t # <<>> PROVE g[Tail(t)] = h[Tail(t)]
    <3>1. Tail(t) \in T /\ rank[Tail(t)] < rank[t]
      BY <2>1, TextTail
    <3> QED BY <1>5, <3>1
  <2>2. ASSUME t # <<>>, Len(t) # 1 PROVE g[Tail(Tail(t))] = h[Tail(Tail(t))]
    <3>1. Tail(Tail(t)) \in T /\ rank[Tail(Tail(t))] < rank[t]
      BY <2>2, TextTailTail
    <3> QED BY <1>5, <3>1
  <2>3. Eq(g, t) = Eq(h, t)
    BY <2>1, <2>2
  <2> QED BY <2>3
<1>6. <<>> \in T
  BY EmptySeq
<1>7. PICK f \in [T -> T] : F[f] = f
  <2> HIDE DEF F, rank, T
  <2>1. Causal(F, T, T, rank)
    BY <1>1, <1>4, <1>5, <1>6 DEF Causal
  <2> QED BY <2>1, CausalFixedPoint
<1>8. f = [text \in Seq(Char) |->
             IF text = <<>> \/ Head(text) = "quote" THEN <<>>
             ELSE IF Head(text) = "backslash"
                    THEN IF Len(text) = 1 THEN <<>> ELSE <<text[2]>> \o f[Tail(Tail(text))]
                    ELSE <<Head(text)>> \o f[Tail(text)]]
  BY <1>7
<1> QED BY <1>8 DEF Unescape

LEMMA EscapeType == \A t \in Seq(Char) : Escape[t] \in Seq(Char)
<1> DEFINE P == {t \in Seq(Char) : Escape[t] \in Seq(Char)}
<1>1. ASSUME NEW t \in Seq(Char), \A u \in Seq(Char) : Len(u) < Len(t) => u \in P
      PROVE  t \in P
  <2>1. CASE t = <<>>
    BY <2>1, EscapeDef, EmptySeq
  <2>2. CASE t # <<>>
    <3>1. Tail(t) \in Seq(Char) /\ Len(Tail(t)) < Len(t) /\ Head(t) \in Char
      <4> HIDE DEF P
      <4> QED BY <2>2, TextTail
    <3>2. Escape[Tail(t)] \in Seq(Char)
      BY <1>1, <3>1
    <3>3. Escape[t] = Escaped(Head(t)) \o Escape[Tail(t)]
      BY <2>2, EscapeDef
    <3> QED BY <3>1, <3>2, <3>3, EscapedType, ConcatProperties
  <2> QED BY <2>1, <2>2
<1> HIDE DEF P
<1>2. Seq(Char) \subseteq P
  BY <1>1, SeqSetInduction DEF P
<1> QED BY <1>2 DEF P

LEMMA PrintedType == \A t \in Seq(Char) : Printed[t] \in Seq(Char)
<1> DEFINE P == {t \in Seq(Char) : Printed[t] \in Seq(Char)}
<1>1. ASSUME NEW t \in Seq(Char), \A u \in Seq(Char) : Len(u) < Len(t) => u \in P
      PROVE  t \in P
  <2>1. CASE t = <<>>
    BY <2>1, PrintedDef, EmptySeq
  <2>2. CASE t # <<>>
    <3>1. Tail(t) \in Seq(Char) /\ Len(Tail(t)) < Len(t) /\ Head(t) \in Char
      <4> HIDE DEF P
      <4> QED BY <2>2, TextTail
    <3>2. Printed[Tail(t)] \in Seq(Char)
      BY <1>1, <3>1
    <3>3. Printed[t] = Kept(Head(t)) \o Printed[Tail(t)]
      BY <2>2, PrintedDef
    <3> QED BY <3>1, <3>2, <3>3, KeptType, ConcatProperties
  <2> QED BY <2>1, <2>2
<1> HIDE DEF P
<1>2. Seq(Char) \subseteq P
  BY <1>1, SeqSetInduction DEF P
<1> QED BY <1>2 DEF P

-----------------------------------------------------------------------------
(* A JSON parser reads an escaped text back.                                *)

LEMMA OneBefore ==
  ASSUME NEW a \in Char, NEW s \in Seq(Char)
  PROVE  /\ <<a>> \o s \in Seq(Char) /\ <<a>> \o s # <<>>
         /\ Head(<<a>> \o s) = a /\ Tail(<<a>> \o s) = s
<1>1. <<a>> \in Seq(Char) /\ Len(<<a>>) = 1 /\ <<a>>[1] = a
  OBVIOUS
<1> DEFINE u == <<a>> \o s
<1>2. /\ u \in Seq(Char) /\ Len(u) = 1 + Len(s) /\ u[1] = a
      /\ \A i \in 1..Len(s) : u[i + 1] = s[i]
  BY <1>1, ConcatProperties, LenProperties
<1> HIDE DEF u
<1>3. u # <<>> /\ Head(u) = a
  BY <1>2, EmptySeq, LenProperties
<1>4. Tail(u) \in Seq(Char) /\ Len(Tail(u)) = Len(s) /\ \A i \in 1..Len(s) : Tail(u)[i] = s[i]
  BY <1>2, <1>3, HeadTailProperties, LenProperties
<1>5. Tail(u) = s
  BY <1>4, SeqEqual
<1> QED BY <1>2, <1>3, <1>5 DEF u

LEMMA TwoBefore ==
  ASSUME NEW a \in Char, NEW b \in Char, NEW s \in Seq(Char)
  PROVE  /\ <<a, b>> \o s \in Seq(Char) /\ <<a, b>> \o s # <<>> /\ Len(<<a, b>> \o s) # 1
         /\ Head(<<a, b>> \o s) = a /\ (<<a, b>> \o s)[2] = b /\ Tail(Tail(<<a, b>> \o s)) = s
<1>1. <<a, b>> \in Seq(Char) /\ Len(<<a, b>>) = 2 /\ <<a, b>>[1] = a /\ <<a, b>>[2] = b
  OBVIOUS
<1> DEFINE u == <<a, b>> \o s
<1>2. /\ u \in Seq(Char) /\ Len(u) = 2 + Len(s) /\ u[1] = a /\ u[2] = b
      /\ \A i \in 1..Len(s) : u[i + 2] = s[i]
  BY <1>1, ConcatProperties, LenProperties
<1> HIDE DEF u
<1>3. u # <<>> /\ Head(u) = a /\ Len(s) \in Nat
  BY <1>2, EmptySeq, LenProperties
<1>4. Tail(u) \in Seq(Char) /\ Len(Tail(u)) = 1 + Len(s) /\ \A i \in 1..Len(s) : Tail(u)[i + 1] = s[i]
  BY <1>2, <1>3, HeadTailProperties
<1>5. Tail(u) # <<>>
  BY <1>3, <1>4, EmptySeq
<1>6. /\ Tail(Tail(u)) \in Seq(Char) /\ Len(Tail(Tail(u))) = Len(s)
      /\ \A i \in 1..Len(s) : Tail(Tail(u))[i] = s[i]
  BY <1>3, <1>4, <1>5, HeadTailProperties
<1>7. Tail(Tail(u)) = s
  BY <1>6, SeqEqual
<1> QED BY <1>2, <1>3, <1>7 DEF u

\* Whatever the text: escaping and parsing drop its controls and nothing else.
THEOREM EscapeReadsBack == \A t \in Seq(Char) : Unescape[Escape[t]] = Printed[t]
<1> DEFINE P == {t \in Seq(Char) : Unescape[Escape[t]] = Printed[t]}
<1>1. ASSUME NEW t \in Seq(Char), \A u \in Seq(Char) : Len(u) < Len(t) => u \in P
      PROVE  t \in P
  <2>1. CASE t = <<>>
    <3>1. Escape[t] = <<>> /\ Printed[t] = <<>>
      BY <2>1, EscapeDef, PrintedDef
    <3>2. Unescape[<<>>] = <<>>
      BY UnescapeDef, EmptySeq
    <3> QED BY <3>1, <3>2
  <2>2. CASE t # <<>>
    <3> DEFINE c == Head(t)
               e == Escape[Tail(t)]
    <3>1. Tail(t) \in Seq(Char) /\ Len(Tail(t)) < Len(t) /\ c \in Char
      <4> HIDE DEF P
      <4> QED BY <2>2, TextTail
    <3>2. e \in Seq(Char) /\ Unescape[e] = Printed[Tail(t)]
      BY <1>1, <3>1, EscapeType
    <3>3. Escape[t] = Escaped(c) \o e /\ Printed[t] = Kept(c) \o Printed[Tail(t)]
      BY <2>2, EscapeDef, PrintedDef
    <3> SUFFICES Unescape[Escape[t]] = Printed[t]
      OBVIOUS
    <3>4. Printed[Tail(t)] \in Seq(Char)
      BY <3>1, PrintedType
    <3> HIDE DEF c, e, P
    <3>5. CASE c = "control"
      <4>1. Escape[t] = e /\ Printed[t] = Printed[Tail(t)]
        BY <3>2, <3>3, <3>4, <3>5, EscapedCases, ConcatEmptySeq DEF Kept
      <4> QED BY <3>2, <4>1
    <3>6. CASE c = "plain"
      <4>1. Unescape[<<c>> \o e] = <<c>> \o Unescape[e]
        BY <3>1, <3>2, <3>6, OneBefore, UnescapeDef
      <4> QED BY <3>2, <3>3, <3>6, <4>1, EscapedCases DEF Kept
    <3>7. CASE c \in {"quote", "backslash"}
      <4>1. "backslash" \in Char
        BY DEF Char
      <4>2. Unescape[<<"backslash", c>> \o e] = <<c>> \o Unescape[e]
        <5> DEFINE u == <<"backslash", c>> \o e
        <5>1. /\ u \in Seq(Char) /\ u # <<>> /\ Len(u) # 1
              /\ Head(u) = "backslash" /\ u[2] = c /\ Tail(Tail(u)) = e
          BY <3>1, <3>2, <4>1, TwoBefore
        <5> HIDE DEF u
        <5>2. Unescape[u] = <<c>> \o Unescape[e]
          BY <5>1, UnescapeDef
        <5> QED BY <5>2 DEF u
      <4>3. Escaped(c) = <<"backslash", c>> /\ Kept(c) = <<c>>
        BY <3>7, EscapedCases DEF Kept
      <4> QED BY <3>2, <3>3, <4>2, <4>3
    <3> QED BY <3>1, <3>5, <3>6, <3>7 DEF Char
  <2> QED BY <2>1, <2>2
<1> HIDE DEF P
<1>2. Seq(Char) \subseteq P
  BY <1>1, SeqSetInduction DEF P
<1> QED BY <1>2 DEF P

\* The caller of a text topic gets the text of the sample, of any length, without
\* its controls: the JSON a reader keeps is the one made of its sample.
THEOREM TextCorrect == Spec => []TextReadsBack
<1>1. ASSUME NativeInv PROVE TextReadsBack
  <2>1. SUFFICES ASSUME NEW t \in DOMAIN payload, typeOf[t] = "Text", payload[t].sample # NoMessage
                 PROVE  Unescape[payload[t].json.text] = Printed[payload[t].sample.text]
    BY DEF TextReadsBack
  <2>2. PICK q, m \in Samples(t) : payload[t] = ReaderOf(q, m)
    BY <1>1 DEF NativeInv, ReadersDecode
  <2>3. payload[t].sample = m /\ payload[t].json = Decoded(m).json
    BY <2>2, ReaderFields
  <2>4. m \in Message /\ m.type = "Text" /\ m # NoMessage
    BY <2>1, <2>3 DEF Samples
  <2>5. m.text \in Seq(Char)
    BY <2>4, NativeAssumption DEF TextMessage
  <2>6. payload[t].json.text = Escape[m.text]
    <3>1. Decode(m, NoBlob).json = TextJson(m)
      BY <2>4 DEF Decode
    <3> QED BY <2>3, <2>4, <3>1 DEF Decoded, TextJson
  <2> QED BY <2>3, <2>5, <2>6, EscapeReadsBack
<1> QED BY <1>1, NativeCorrect, PTL

-----------------------------------------------------------------------------
(* What CallsReturn rests on: a round of the worker ends.                    *)

\* What the worker has to do before it frees the mutex: one dds_take that finds
\* nothing for each reader it has not been through, and one for its sample.
Left ==
  (draining \X {"reader"})
    \cup ({t \in draining : payload[t].pending # NoMessage} \X {"sample"})

\* While no sample arrives, each step of the worker leaves it less to do in its
\* round, and no call, shutdown included, gives it more.
RoundShrinks ==
  [][draining # {} /\ ~Arrivals =>
       Left' \subseteq Left /\ (WorkerStep => Left' # Left)]_vars

\* A step that adds neither a reader to the round nor a sample to a reader of it.
LEMMA RoundFrame ==
  ASSUME draining' \subseteq draining,
         \A t \in draining' : payload'[t].pending # NoMessage => payload[t].pending # NoMessage
  PROVE  Left' \subseteq Left
BY DEF Left

LEMMA WorkerShrinks ==
  ASSUME NativeInv, WorkerStep, draining # {}
  PROVE  Left' \subseteq Left /\ Left' # Left
<1>1. PICK t \in Topic : TakeSample(t) \/ ReaderDone(t)
  BY DEF WorkerStep, Wake, Unlocked
<1>2. t \in draining /\ draining \subseteq DOMAIN payload
  BY <1>1 DEF TakeSample, ReaderDone, NativeInv, WorkerOwnsTheMap
<1>3. CASE TakeSample(t)
  <2>1. /\ draining' = draining /\ payload[t].pending # NoMessage
        /\ payload'[t].pending = NoMessage
        /\ \A u \in draining \ {t} : payload'[u] = payload[u]
    BY <1>2, <1>3 DEF TakeSample
  <2>2. Left' \subseteq Left
    BY <2>1, RoundFrame
  <2>3. <<t, "sample">> \in Left /\ <<t, "sample">> \notin Left'
    BY <1>2, <2>1 DEF Left
  <2> QED BY <2>2, <2>3
<1>4. CASE ReaderDone(t)
  <2>1. draining' = draining \ {t} /\ payload' = payload
    BY <1>4 DEF ReaderDone, Undrained
  <2>2. Left' \subseteq Left
    BY <2>1, RoundFrame
  <2>3. <<t, "reader">> \in Left /\ <<t, "reader">> \notin Left'
    BY <1>2, <2>1 DEF Left
  <2> QED BY <2>2, <2>3
<1> QED BY <1>1, <1>3, <1>4

LEMMA CallShrinks ==
  ASSUME NativeInv, draining # {}, FinishStep \/ BeginStep
  PROVE  Left' \subseteq Left
<1>1. draining \subseteq DOMAIN payload
  BY DEF NativeInv, WorkerOwnsTheMap
<1>2. CASE DeleteParticipant
  <2>1. draining' = draining /\ \A t \in DOMAIN payload : payload'[t].pending = NoMessage
    <3>1. \A t \in DOMAIN payload : "pending" \in DOMAIN payload[t]
      <4>1. ASSUME NEW t \in DOMAIN payload PROVE "pending" \in DOMAIN payload[t]
        <5>1. PICK p, q \in Samples(t) : payload[t] = ReaderOf(p, q)
          BY DEF NativeInv, ReadersDecode
        <5> QED BY <5>1 DEF ReaderOf
      <4> QED BY <4>1
    <3> QED BY <1>2, <3>1 DEF DeleteParticipant
  <2> QED BY <1>1, <2>1, RoundFrame
<1>3. CASE UNCHANGED <<draining, payload>>
  BY <1>3, RoundFrame
<1>4. ~ClearTrackers
  BY DEF ClearTrackers, HasMutex, Unlocked
<1>5. ASSUME NEW t \in Topic,
             \/ Untrack(t) \/ Unwatch(t)
             \/ (\E o \in Outcome : Watch(t, o)) \/ \E b \in BOOLEAN : LatestBlob(t, b) \/ LatestJson(b)
      PROVE  FALSE
  BY <1>5 DEF Untrack, Unwatch, Watch, LatestBlob, LatestJson, HasMutex, Unlocked
<1>6. ASSUME NEW t \in Topic,
             \/ UnwatchTopic(t) \/ StopPublishing(t)
             \/ WatchPayload(t) \/ UnwatchPayload(t)
             \/ TopicPayloadJson(t) \/ TopicPayloadBlob(t)
             \/ \E o \in Outcome : WatchTopic(t, o) \/ \E k \in MessageKind : Publish(k, t, o)
      PROVE  UNCHANGED <<draining, payload>>
  BY <1>6 DEF UnwatchTopic, StopPublishing, WatchPayload, UnwatchPayload, TopicPayloadJson,
              TopicPayloadBlob, Ask, WatchTopic, Publish
<1>7. ASSUME \/ Shutdown \/ \E R \in SUBSET Readers : Initialize(R)
             \/ \E S, gone \in SUBSET Topic : Poll(S, gone)
             \/ \E b \in BOOLEAN : CopyAndFree(b) \/ TopicsJson(b) \/ LatestJson(b)
      PROVE  UNCHANGED <<draining, payload>>
  BY <1>7 DEF Shutdown, Initialize, Poll, CopyAndFree, TopicsJson, LatestJson
<1>8. CASE FinishStep
  BY <1>2, <1>3, <1>4, <1>5, <1>7, <1>8 DEF FinishStep
<1>9. CASE BeginStep
  BY <1>3, <1>6, <1>7, <1>9 DEF BeginStep
<1> QED BY <1>8, <1>9

\* A call that waits for the mutex, of whatever kind, waits for finitely many steps
\* of the worker, unless samples keep coming: the order of them is given, the
\* fairness is not.
THEOREM RoundsCorrect == Spec => RoundShrinks
<1>1. NativeInv /\ [Next]_vars =>
        [draining # {} /\ ~Arrivals =>
           Left' \subseteq Left /\ (WorkerStep => Left' # Left)]_vars
  BY WorkerShrinks, CallShrinks DEF Next
<1> QED BY <1>1, NativeCorrect, PTL DEF Spec, RoundShrinks
=============================================================================
