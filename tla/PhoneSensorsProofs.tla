--------------------------- MODULE PhoneSensorsProofs ---------------------------
(***************************************************************************)
(* Proofs about PhoneSensors, for any sensors, topic names and number of   *)
(* calls that wait at once.                                                *)
(***************************************************************************)
EXTENDS PhoneSensors, TLAPS

\* The field a start sets names the listener it keeps: both are set and reset
\* together, a second start included.
ListenerIsShown == \A k \in Kind : listener[k] = topicOf[k]

\* A sensor that was not started twice has no listener but the one kept, and
\* at most one start that waits, during which it is off.
OneStart ==
  \A k \in Kind \ raced :
    /\ stray[k] = {}
    /\ k \in Async =>
         /\ Starting(k) => topicOf[k] = NoTopic
         /\ \A t, u \in Topic :
              /\ starting[k][t] <= 1
              /\ starting[k][t] > 0 /\ starting[k][u] > 0 => t = u

SensorInv == TypeOK /\ ListenerIsShown /\ OneStart /\ WriterHasPublisher

-----------------------------------------------------------------------------
LEMMA SensorInit == Init => SensorInv
<1> SUFFICES ASSUME Init PROVE SensorInv
  OBVIOUS
<1>1. TypeOK
  <2>1. starting \in [Async -> [Topic -> 0..MaxCalls]]
    <3>1. [t \in Topic |-> 0] \in [Topic -> 0..MaxCalls]
      BY SensorAssumption
    <3> QED BY <3>1 DEF Init
  <2>2. closing \in [Topic -> Nat] /\ stray \in [Kind -> SUBSET Topic]
    BY DEF Init
  <2> QED BY <2>1, <2>2 DEF Init, TypeOK
<1>2. ListenerIsShown
  BY DEF Init, ListenerIsShown
<1>3. WriterHasPublisher
  BY DEF Init, WriterHasPublisher
<1>4. OneStart
  BY DEF Init, OneStart, Starting, Async, Kind
<1> QED BY <1>1, <1>2, <1>3, <1>4 DEF SensorInv

\* The kinds a start call is made for.
LEMMA Kinds ==
  /\ Instant \subseteq Kind /\ Async \subseteq Kind /\ Camera \in Kind
  /\ Instant \cap Async = {}
BY SensorAssumption DEF Kind, Async

-----------------------------------------------------------------------------
(* Starting.                                                                *)

\* A start that sets the fields: the listener it replaces, if there is one, is
\* a stray from now on and still publishes for its topic.
LEMMA RunKeeps ==
  ASSUME SensorInv, NEW k \in Kind, NEW t \in Topic, Run(k, t)
  PROVE  /\ topicOf' \in [Kind -> Topic \cup {NoTopic}]
         /\ listener' \in [Kind -> Topic \cup {NoTopic}]
         /\ stray' \in [Kind -> SUBSET Topic]
         /\ ListenerIsShown'
         /\ \A u \in Topic, j \in Kind :
              topicOf[j] = u \/ u \in stray[j] => topicOf'[j] = u \/ u \in stray'[j]
         /\ \A j \in Kind \ {k} : stray'[j] = stray[j] /\ topicOf'[j] = topicOf[j]
         /\ topicOf[k] = NoTopic => stray'[k] = stray[k]
<1>1. /\ topicOf' = [topicOf EXCEPT ![k] = t]
      /\ listener' = [listener EXCEPT ![k] = t]
      /\ stray' = [stray EXCEPT ![k] = stray[k] \cup ({listener[k]} \ {NoTopic})]
  BY DEF Run, StrayAfter
<1>2. /\ topicOf \in [Kind -> Topic \cup {NoTopic}]
      /\ listener \in [Kind -> Topic \cup {NoTopic}]
      /\ stray \in [Kind -> SUBSET Topic]
      /\ listener[k] = topicOf[k]
  BY DEF SensorInv, TypeOK, ListenerIsShown
<1>3. ListenerIsShown'
  BY <1>1, <1>2 DEF SensorInv, ListenerIsShown
<1>4. NoTopic \notin Topic
  BY SensorAssumption
<1> QED BY <1>1, <1>2, <1>3, <1>4

LEMMA StartInstantStep ==
  ASSUME SensorInv, NEW k \in Instant, StartInstant(k)
  PROVE  SensorInv'
<1> DEFINE t == name[k]
<1>1. /\ k \in Kind /\ k \notin Async /\ t \in Topic
      /\ topicOf[k] = NoTopic /\ Run(k, t)
  BY Kinds DEF StartInstant, Tapped, SensorInv, TypeOK
<1>2. UNCHANGED <<starting, closing, converting, name, editing, shown, mounted, raced, writer, unclosed>>
  BY DEF StartInstant, cardVars, writerVars
<1> HIDE DEF t
<1>3. TypeOK'
  BY <1>1, <1>2, RunKeeps DEF SensorInv, TypeOK
<1>4. WriterHasPublisher'
  BY <1>1, <1>2, RunKeeps DEF SensorInv, WriterHasPublisher
<1>5. OneStart'
  BY <1>1, <1>2, RunKeeps DEF SensorInv, OneStart, Starting
<1> QED BY <1>1, <1>3, <1>4, <1>5, RunKeeps DEF SensorInv

LEMMA StartAsyncStep ==
  ASSUME SensorInv, NEW k \in Async, StartAsync(k)
  PROVE  SensorInv'
<1> DEFINE t == name[k]
<1>0. t \in Topic
  BY Kinds DEF SensorInv, TypeOK
<1>1. /\ topicOf[k] = NoTopic /\ starting[k][t] < MaxCalls
      /\ starting' = [starting EXCEPT ![k][t] = @ + 1]
      /\ raced' = IF Starting(k) THEN raced \cup {k} ELSE raced
      /\ UNCHANGED <<topicOf, listener, stray, closing, converting, name, editing, shown, mounted,
                     writer, unclosed>>
  BY DEF StartAsync, Tapped, cardVars, writerVars
<1> HIDE DEF t
<1>2. /\ starting \in [Async -> [Topic -> 0..MaxCalls]] /\ MaxCalls \in Nat
      /\ raced \in SUBSET Async
  BY SensorAssumption DEF SensorInv, TypeOK
<1>3. /\ starting' \in [Async -> [Topic -> 0..MaxCalls]]
      /\ starting'[k][t] = starting[k][t] + 1
      /\ \A u \in Topic \ {t} : starting'[k][u] = starting[k][u]
      /\ \A j \in Async \ {k} : starting'[j] = starting[j]
  BY <1>0, <1>1, <1>2
<1>4. TypeOK'
  BY <1>1, <1>2, <1>3 DEF SensorInv, TypeOK
<1>5. ListenerIsShown' /\ WriterHasPublisher'
  BY <1>1 DEF SensorInv, ListenerIsShown, WriterHasPublisher
<1>6. OneStart'
  <2> SUFFICES ASSUME NEW j \in Kind \ raced'
               PROVE  /\ stray'[j] = {}
                      /\ j \in Async =>
                           /\ Starting(j)' => topicOf'[j] = NoTopic
                           /\ \A u, v \in Topic :
                                /\ starting'[j][u] <= 1
                                /\ starting'[j][u] > 0 /\ starting'[j][v] > 0 => u = v
    BY DEF OneStart
  <2>1. j \in Kind \ raced
    BY <1>1
  <2>2. CASE j # k
    BY <1>1, <1>3, <2>1, <2>2 DEF SensorInv, OneStart, Starting
  <2>3. CASE j = k
    <3>1. ~Starting(k)
      BY <1>1, <2>3
    <3>2. \A u \in Topic : starting[k][u] = 0
      BY <1>2, <3>1 DEF Starting
    <3>3. stray'[k] = {} /\ topicOf'[k] = NoTopic
      BY <1>1, <2>1, <2>3 DEF SensorInv, OneStart
    <3>4. \A u \in Topic : starting'[k][u] = IF u = t THEN 1 ELSE 0
      BY <1>3, <3>2
    <3> QED BY <2>3, <3>3, <3>4
  <2> QED BY <2>2, <2>3
<1> QED BY <1>4, <1>5, <1>6 DEF SensorInv

\* One start call less.
LEMMA StartEnds ==
  ASSUME SensorInv, NEW k \in Async, NEW t \in Topic, starting[k][t] > 0,
         starting' = [starting EXCEPT ![k][t] = @ - 1]
  PROVE  /\ starting' \in [Async -> [Topic -> 0..MaxCalls]]
         /\ \A j \in Async, u \in Topic : starting'[j][u] <= starting[j][u]
         /\ \A j \in Async \ {k} : starting'[j] = starting[j]
         /\ k \notin raced => \A u \in Topic : starting'[k][u] = 0
<1>1. starting \in [Async -> [Topic -> 0..MaxCalls]] /\ MaxCalls \in Nat
  BY SensorAssumption DEF SensorInv, TypeOK
<1>2. /\ starting'[k][t] = starting[k][t] - 1
      /\ \A u \in Topic \ {t} : starting'[k][u] = starting[k][u]
      /\ \A j \in Async \ {k} : starting'[j] = starting[j]
      /\ starting' \in [Async -> [Topic -> 0..MaxCalls]]
  BY <1>1
<1>3. k \notin raced =>
        starting[k][t] <= 1 /\ \A u \in Topic : starting[k][u] > 0 => t = u
  BY Kinds DEF SensorInv, OneStart
<1>4. \A j \in Async, u \in Topic : starting[j][u] \in 0..MaxCalls
  BY <1>1
<1>5. k \notin raced => \A u \in Topic : starting'[k][u] = 0
  BY <1>1, <1>2, <1>3, <1>4
<1>6. \A j \in Async, u \in Topic : starting'[j][u] <= starting[j][u]
  BY <1>1, <1>2, <1>4
<1> QED BY <1>2, <1>5, <1>6

LEMMA FinishStartStep ==
  ASSUME SensorInv, NEW k \in Async, NEW t \in Topic, FinishStart(k, t)
  PROVE  SensorInv'
<1>1. /\ k \in Kind /\ starting[k][t] > 0 /\ Run(k, t)
      /\ starting' = [starting EXCEPT ![k][t] = @ - 1]
      /\ UNCHANGED <<closing, converting, name, editing, shown, mounted, raced, writer, unclosed>>
  BY Kinds DEF FinishStart, cardVars, writerVars
<1>2. TypeOK'
  BY <1>1, RunKeeps, StartEnds DEF SensorInv, TypeOK
<1>3. WriterHasPublisher'
  BY <1>1, RunKeeps DEF SensorInv, WriterHasPublisher
<1>4. OneStart'
  <2> SUFFICES ASSUME NEW j \in Kind \ raced
               PROVE  /\ stray'[j] = {}
                      /\ j \in Async =>
                           /\ Starting(j)' => topicOf'[j] = NoTopic
                           /\ \A u, v \in Topic :
                                /\ starting'[j][u] <= 1
                                /\ starting'[j][u] > 0 /\ starting'[j][v] > 0 => u = v
    BY <1>1 DEF OneStart
  <2>1. CASE j # k
    BY <1>1, <2>1, RunKeeps, StartEnds DEF SensorInv, OneStart, Starting
  <2>2. CASE j = k
    <3>1. topicOf[k] = NoTopic /\ stray[k] = {}
      BY <1>1, <2>2 DEF SensorInv, OneStart, Starting
    <3>2. stray'[k] = {}
      BY <1>1, <3>1, RunKeeps
    <3>3. \A u \in Topic : starting'[k][u] = 0
      BY <1>1, <2>2, StartEnds
    <3> QED BY <2>2, <3>2, <3>3 DEF Starting
  <2> QED BY <2>1, <2>2
<1> QED BY <1>1, <1>2, <1>3, <1>4, RunKeeps DEF SensorInv

LEMMA FailStartStep ==
  ASSUME SensorInv, NEW k \in Async, NEW t \in Topic, FailStart(k, t)
  PROVE  SensorInv'
<1>1. /\ starting[k][t] > 0
      /\ starting' = [starting EXCEPT ![k][t] = @ - 1]
      /\ UNCHANGED <<topicOf, listener, stray, closing, converting, name, editing, shown, mounted,
                     raced, writer, unclosed>>
  BY DEF FailStart, cardVars, writerVars
<1>2. TypeOK'
  BY <1>1, StartEnds DEF SensorInv, TypeOK
<1>3. ListenerIsShown' /\ WriterHasPublisher'
  BY <1>1 DEF SensorInv, ListenerIsShown, WriterHasPublisher
<1>4. OneStart'
  <2> SUFFICES ASSUME NEW j \in Kind \ raced
               PROVE  /\ stray[j] = {}
                      /\ j \in Async =>
                           /\ Starting(j)' => topicOf[j] = NoTopic
                           /\ \A u, v \in Topic :
                                /\ starting'[j][u] <= 1
                                /\ starting'[j][u] > 0 /\ starting'[j][v] > 0 => u = v
    BY <1>1 DEF OneStart
  <2>1. CASE j # k
    BY <1>1, <2>1, StartEnds DEF SensorInv, OneStart, Starting
  <2>2. CASE j = k
    <3>1. \A u \in Topic : starting'[k][u] = 0
      BY <1>1, <2>2, StartEnds
    <3> QED BY <2>2, <3>1 DEF SensorInv, OneStart, Starting
  <2> QED BY <2>1, <2>2
<1> QED BY <1>2, <1>3, <1>4 DEF SensorInv

-----------------------------------------------------------------------------
(* Publishing.                                                              *)

\* A step that leaves the starts and the fields alone disturbs the writers only.
LEMMA WriterFrame ==
  ASSUME SensorInv, UNCHANGED <<topicOf, listener, stray, starting, raced>>,
         TypeOK', WriterHasPublisher'
  PROVE  SensorInv'
BY DEF SensorInv, ListenerIsShown, OneStart, Starting

LEMMA SampleStep ==
  ASSUME SensorInv, NEW k \in Kind, NEW t \in Topic, Sample(k, t)
  PROVE  SensorInv'
<1>1. /\ t \in {listener[k]} \cup stray[k]
      /\ writer' = [writer EXCEPT ![t] = IF @ = NoKind THEN k ELSE @]
      /\ UNCHANGED <<topicOf, listener, stray, starting, closing, converting, name, editing, shown,
                     mounted, raced, unclosed>>
  BY DEF Sample, Write, cardVars
<1>2. TypeOK'
  BY <1>1 DEF SensorInv, TypeOK
<1>3. topicOf[k] = t \/ t \in stray[k]
  BY <1>1 DEF SensorInv, ListenerIsShown
<1>4. WriterHasPublisher'
  BY <1>1, <1>3 DEF SensorInv, TypeOK, WriterHasPublisher
<1> QED BY <1>1, <1>2, <1>4, WriterFrame

LEMMA CameraStep ==
  ASSUME SensorInv, CameraFrame \/ Converted \/ ConversionFails
  PROVE  SensorInv'
<1>1. UNCHANGED <<topicOf, listener, stray, starting, closing, name, editing, shown, mounted,
                  raced, unclosed>>
  BY DEF CameraFrame, Converted, ConversionFails, cardVars, writerVars
<1>2. converting' \in BOOLEAN
  BY DEF CameraFrame, Converted, ConversionFails
<1>3. CASE UNCHANGED writer
  BY <1>1, <1>2, <1>3, WriterFrame DEF SensorInv, TypeOK, WriterHasPublisher
<1>4. CASE topicOf[Camera] # NoTopic /\ Write(Camera, topicOf[Camera])
  <2>1. /\ topicOf[Camera] \in Topic
        /\ writer' = [writer EXCEPT ![topicOf[Camera]] = IF @ = NoKind THEN Camera ELSE @]
    BY <1>4, Kinds DEF SensorInv, TypeOK, Write
  <2>2. TypeOK'
    BY <1>1, <1>2, <2>1, Kinds DEF SensorInv, TypeOK
  <2>3. WriterHasPublisher'
    BY <1>1, <2>1, Kinds DEF SensorInv, TypeOK, WriterHasPublisher
  <2> QED BY <1>1, <2>2, <2>3, WriterFrame
<1> QED BY <1>3, <1>4 DEF CameraFrame, Converted, ConversionFails, writerVars

-----------------------------------------------------------------------------
(* Stopping.                                                                *)

\* What stop calls leave: the writers of the topics given up are gone, but that
\* of a camera, which is closing.
LEMMA HaltKeeps ==
  ASSUME SensorInv, NEW S \in SUBSET Kind, Halt(S), UNCHANGED stray
  PROVE  /\ topicOf' \in [Kind -> Topic \cup {NoTopic}]
         /\ listener' \in [Kind -> Topic \cup {NoTopic}]
         /\ closing' \in [Topic -> Nat]
         /\ writer' \in [Topic -> Kind \cup {NoKind}]
         /\ unclosed' \in SUBSET Topic
         /\ ListenerIsShown'
         /\ WriterHasPublisher'
         /\ \A k \in Kind : topicOf'[k] \in {NoTopic, topicOf[k]}
<1>1. /\ topicOf' = [k \in Kind |-> IF k \in S THEN NoTopic ELSE topicOf[k]]
      /\ listener' = [k \in Kind |-> IF k \in S THEN NoTopic ELSE listener[k]]
      /\ writer' = [t \in Topic |-> IF t \in {topicOf[k] : k \in S \ {Camera}} THEN NoKind
                                                                              ELSE writer[t]]
      /\ closing' = [t \in Topic |->
           closing[t] + IF Camera \in S /\ topicOf[Camera] = t THEN 1 ELSE 0]
      /\ unclosed' = unclosed \ {topicOf[k] : k \in S \ {Camera}}
  BY DEF Halt, SilencedIn, WriterWithout
<1>2. TypeOK /\ ListenerIsShown /\ WriterHasPublisher
  BY DEF SensorInv
<1>3. /\ topicOf' \in [Kind -> Topic \cup {NoTopic}]
      /\ listener' \in [Kind -> Topic \cup {NoTopic}]
  BY <1>1, <1>2 DEF TypeOK
<1>4. closing' \in [Topic -> Nat]
  <2>1. \A t \in Topic : closing[t] \in Nat
    BY <1>2 DEF TypeOK
  <2> QED BY <1>1, <2>1
<1>5. writer' \in [Topic -> Kind \cup {NoKind}] /\ unclosed' \in SUBSET Topic
  BY <1>1, <1>2 DEF TypeOK
<1>6. ListenerIsShown'
  BY <1>1, <1>2 DEF ListenerIsShown
<1>7. WriterHasPublisher'
  <2> SUFFICES ASSUME NEW t \in Topic, writer'[t] # NoKind
               PROVE  \/ \E k \in Kind : topicOf'[k] = t \/ t \in stray'[k]
                      \/ closing'[t] > 0
                      \/ t \in unclosed'
    BY DEF WriterHasPublisher
  <2>1. writer[t] # NoKind /\ \A k \in S \ {Camera} : topicOf[k] # t
    BY <1>1
  <2>2. CASE closing[t] > 0
    BY <1>1, <1>2, <2>2 DEF TypeOK
  <2>3. ASSUME NEW k \in Kind, t \in stray[k]
        PROVE  \E j \in Kind : t \in stray'[j]
    BY <2>3
  <2>4. ASSUME NEW k \in Kind, topicOf[k] = t, k \notin S
        PROVE  topicOf'[k] = t
    BY <1>1, <2>4
  <2>5. CASE topicOf[Camera] = t /\ Camera \in S
    BY <1>1, <1>2, <2>5 DEF TypeOK
  <2>6. CASE t \in unclosed
    BY <1>1, <2>1, <2>6
  <2> QED BY <1>2, <2>1, <2>2, <2>3, <2>4, <2>5, <2>6 DEF WriterHasPublisher
<1>8. \A k \in Kind : topicOf'[k] \in {NoTopic, topicOf[k]}
  BY <1>1
<1> QED BY <1>3, <1>4, <1>5, <1>6, <1>7, <1>8

LEMMA StopTapStep ==
  ASSUME SensorInv, NEW k \in Kind, StopTap(k)
  PROVE  SensorInv'
<1>1. /\ Halt({k}) /\ {k} \in SUBSET Kind
      /\ UNCHANGED <<stray, starting, converting, name, editing, shown, mounted, raced>>
  BY DEF StopTap, cardVars
<1>2. TypeOK'
  BY <1>1, HaltKeeps DEF SensorInv, TypeOK
<1>3. OneStart'
  BY <1>1, HaltKeeps DEF SensorInv, OneStart, Starting
<1> QED BY <1>1, <1>2, <1>3, HaltKeeps DEF SensorInv

LEMMA DisposeStep ==
  ASSUME SensorInv, Dispose
  PROVE  SensorInv'
<1>1. /\ Halt(Kind) /\ Kind \in SUBSET Kind /\ mounted' = FALSE
      /\ raced' = raced \cup {k \in Async : Starting(k)}
      /\ UNCHANGED <<stray, starting, converting, name, editing, shown>>
  BY DEF Dispose, cardVars
<1>2. TypeOK'
  BY <1>1, HaltKeeps DEF SensorInv, TypeOK
<1>3. OneStart'
  BY <1>1, HaltKeeps DEF SensorInv, OneStart, Starting
<1> QED BY <1>1, <1>2, <1>3, HaltKeeps DEF SensorInv

LEMMA FinishCloseStep ==
  ASSUME SensorInv, NEW t \in Topic, FinishClose(t)
  PROVE  SensorInv'
<1>1. /\ closing[t] > 0
      /\ closing' = [closing EXCEPT ![t] = @ - 1]
      /\ writer' = [u \in Topic |-> IF u \in {t} THEN NoKind ELSE writer[u]]
      /\ unclosed' = unclosed \ {t}
      /\ UNCHANGED <<topicOf, listener, stray, starting, converting, name, editing, shown, mounted, raced>>
  BY DEF FinishClose, cardVars, CloseWriter, WriterWithout
<1>2. closing \in [Topic -> Nat] /\ closing' \in [Topic -> Nat]
  BY <1>1 DEF SensorInv, TypeOK
<1>3. TypeOK'
  BY <1>1, <1>2 DEF SensorInv, TypeOK
<1>4. WriterHasPublisher'
  BY <1>1, <1>2 DEF SensorInv, WriterHasPublisher
<1> QED BY <1>1, <1>3, <1>4, WriterFrame

\* A camera that cannot be closed keeps its writer, which is unclosed from now on.
LEMMA FailCloseStep ==
  ASSUME SensorInv, NEW t \in Topic, FailClose(t)
  PROVE  SensorInv'
<1>1. /\ closing[t] > 0
      /\ closing' = [closing EXCEPT ![t] = @ - 1]
      /\ unclosed' = unclosed \cup {t}
      /\ UNCHANGED <<topicOf, listener, stray, starting, converting, name, editing, shown, mounted,
                     raced, writer>>
  BY DEF FailClose, cardVars
<1>2. closing \in [Topic -> Nat] /\ closing' \in [Topic -> Nat]
  BY <1>1 DEF SensorInv, TypeOK
<1>3. TypeOK'
  BY <1>1, <1>2 DEF SensorInv, TypeOK
<1>4. WriterHasPublisher'
  BY <1>1, <1>2 DEF SensorInv, WriterHasPublisher
<1> QED BY <1>1, <1>3, <1>4, WriterFrame

\* The dialog changes a name and nothing a sensor publishes under.
LEMMA DialogStep ==
  ASSUME SensorInv,
         \/ \E k \in Kind : EditName(k)
         \/ \E t \in Topic : SaveName(t)
         \/ CancelEdit
  PROVE  SensorInv'
<1>1. UNCHANGED <<topicOf, listener, stray, starting, closing, converting, shown, mounted, raced,
                  writer, unclosed>>
  BY DEF EditName, SaveName, CancelEdit, CloseDialog, writerVars
<1>2. name' \in [Kind -> Topic] /\ editing' \in Kind \cup {NoKind}
  BY DEF EditName, SaveName, CancelEdit, CloseDialog, SensorInv, TypeOK
<1> QED BY <1>1, <1>2, WriterFrame DEF SensorInv, TypeOK, WriterHasPublisher

LEMMA SensorStep == SensorInv /\ [Next]_vars => SensorInv'
<1> SUFFICES ASSUME SensorInv, [Next]_vars PROVE SensorInv'
  OBVIOUS
<1>1. CASE Build
  BY <1>1, WriterFrame DEF Build, SensorInv, TypeOK, WriterHasPublisher, writerVars
<1>2. CASE UNCHANGED vars
  BY <1>2, WriterFrame DEF vars, cardVars, writerVars, SensorInv, TypeOK, WriterHasPublisher
<1>3. ASSUME NEW k \in Instant \cup Located, NEW t \in Topic, Sample(k, t) PROVE SensorInv'
  BY <1>3, SampleStep DEF Kind
<1> QED BY <1>1, <1>2, <1>3, StartInstantStep, StartAsyncStep, FinishStartStep, FailStartStep,
    CameraStep, StopTapStep, DisposeStep, FinishCloseStep, FailCloseStep, DialogStep DEF Next

-----------------------------------------------------------------------------
\* The inductive invariant, in every reachable state.
THEOREM SensorsCorrect == Spec => []SensorInv
BY SensorInit, SensorStep, PTL DEF Spec

\* Every variable has its type, with at most MaxCalls starts of a kind that wait
\* for a topic and never a negative number of closings.
THEOREM SensorTypes == Spec => []TypeOK
<1>1. SensorInv => TypeOK
  BY DEF SensorInv
<1> QED BY <1>1, SensorsCorrect, PTL

\* A sensor no second start was tapped for publishes under the topic its stop call
\* deletes, and nothing when it is off.
THEOREM OnlyItsTopicCorrect == Spec => []OnlyItsTopic
<1>1. SensorInv => OnlyItsTopic
  BY DEF SensorInv, ListenerIsShown, OneStart, OnlyItsTopic
<1> QED BY <1>1, SensorsCorrect, PTL

\* No writer without a live listener or a camera that is closing or could not be
\* closed.
THEOREM WriterCorrect == Spec => []WriterHasPublisher
<1>1. SensorInv => WriterHasPublisher
  BY DEF SensorInv
<1> QED BY <1>1, SensorsCorrect, PTL

-----------------------------------------------------------------------------
(* What OffIsSilent rests on: once every sensor is off, the closings that   *)
(* wait are all that is left to do, and each of them is needed once.        *)

Off == raced = {} /\ \A k \in Kind : topicOf[k] = NoTopic

\* A topic that is still in the graph has a camera that closes or could not be closed.
OffIsClosing ==
  Off => \A t \in Topic \ unclosed : writer[t] # NoKind => closing[t] > 0

\* While every sensor is off no step makes a writer and none begins a closing;
\* the end of a closing leaves its topic without a writer, or fails.
OffOnlyCloses ==
  [][Off =>
       \A t \in Topic :
         /\ writer'[t] \in {writer[t], NoKind}
         /\ closing'[t] <= closing[t]
         /\ closing'[t] < closing[t] => writer'[t] = NoKind \/ t \in unclosed']_vars

\* No listener and no image of a camera brings a topic back: with every sensor
\* off, a writer is there only as long as its camera closes, or because that failed.
THEOREM OffIsClosingCorrect == Spec => []OffIsClosing
<1>1. SensorInv => OffIsClosing
  <2> SUFFICES ASSUME SensorInv, Off, NEW t \in Topic \ unclosed, writer[t] # NoKind
               PROVE  closing[t] > 0
    BY DEF OffIsClosing
  <2>1. \A k \in Kind : topicOf[k] # t /\ stray[k] = {}
    BY SensorAssumption DEF Off, SensorInv, OneStart
  <2> QED BY <2>1 DEF SensorInv, WriterHasPublisher
<1> QED BY <1>1, SensorsCorrect, PTL

\* A step with every sensor off, action by action.
LEMMA OffStep ==
  ASSUME SensorInv, [Next]_vars, Off, NEW t \in Topic
  PROVE  /\ writer'[t] \in {writer[t], NoKind}
         /\ closing'[t] <= closing[t]
         /\ closing'[t] < closing[t] => writer'[t] = NoKind \/ t \in unclosed'
<1> DEFINE Goal == /\ writer'[t] \in {writer[t], NoKind}
                   /\ closing'[t] <= closing[t]
                   /\ closing'[t] < closing[t] => writer'[t] = NoKind \/ t \in unclosed'
<1>1. /\ \A k \in Kind : topicOf[k] = NoTopic /\ listener[k] = NoTopic /\ stray[k] = {}
      /\ closing \in [Topic -> Nat] /\ writer \in [Topic -> Kind \cup {NoKind}]
  BY DEF Off, SensorInv, TypeOK, ListenerIsShown, OneStart
<1>2. CASE UNCHANGED <<writer, closing>>
  BY <1>1, <1>2
<1>3. ASSUME NEW k \in Instant \cup Located, NEW u \in Topic, Sample(k, u) PROVE FALSE
  BY <1>1, <1>3, Kinds, SensorAssumption DEF Sample, Async
<1>4. CASE Converted
  BY <1>1, <1>2, <1>4, Kinds DEF Converted
<1>5. ASSUME NEW S \in SUBSET Kind, Halt(S) PROVE Goal
  <2>1. closing' = [u \in Topic |-> closing[u] + 0]
    BY <1>1, <1>5, Kinds, SensorAssumption DEF Halt
  <2>2. writer'[t] \in {writer[t], NoKind}
    BY <1>1, <1>5 DEF Halt, WriterWithout
  <2> QED BY <1>1, <2>1, <2>2
<1>6. ASSUME NEW u \in Topic, FinishClose(u) PROVE Goal
  <2>1. /\ closing' = [closing EXCEPT ![u] = @ - 1]
        /\ writer' = [v \in Topic |-> IF v \in {u} THEN NoKind ELSE writer[v]]
    BY <1>6 DEF FinishClose, CloseWriter, WriterWithout
  <2> QED BY <1>1, <2>1
<1>11. ASSUME NEW u \in Topic, FailClose(u) PROVE Goal
  <2>1. /\ closing' = [closing EXCEPT ![u] = @ - 1] /\ writer' = writer
        /\ unclosed' = unclosed \cup {u}
    BY <1>11 DEF FailClose
  <2> QED BY <1>1, <2>1
<1>7. ASSUME NEW k \in Kind, StopTap(k) PROVE Goal
  BY <1>5, <1>7 DEF StopTap
<1>8. CASE Dispose
  BY <1>5, <1>8 DEF Dispose
<1>9. CASE CameraFrame \/ ConversionFails \/ Build \/ UNCHANGED vars
  BY <1>2, <1>9 DEF CameraFrame, ConversionFails, Build, vars, writerVars
<1>10. ASSUME NEW k \in Kind, NEW u \in Topic,
              \/ StartInstant(k) \/ StartAsync(k) \/ FinishStart(k, u) \/ FailStart(k, u)
              \/ EditName(k) \/ SaveName(u) \/ CancelEdit
       PROVE  Goal
  BY <1>2, <1>10 DEF StartInstant, StartAsync, FinishStart, FailStart, EditName, SaveName,
    CancelEdit, CloseDialog, writerVars
<1> QED BY <1>3, <1>4, <1>6, <1>7, <1>8, <1>9, <1>10, <1>11, Kinds DEF Next

\* What is off goes quiet and stays so: with OffIsClosingCorrect, each closing
\* that ends brings the graph nearer to the silence OffIsSilent promises.
THEOREM OffOnlyClosesCorrect == Spec => OffOnlyCloses
<1>1. SensorInv /\ [Next]_vars =>
        [Off =>
           \A t \in Topic :
             /\ writer'[t] \in {writer[t], NoKind}
             /\ closing'[t] <= closing[t]
             /\ closing'[t] < closing[t] => writer'[t] = NoKind \/ t \in unclosed']_vars
  BY OffStep
<1> QED BY <1>1, SensorsCorrect, PTL DEF Spec, OffOnlyCloses
=============================================================================
