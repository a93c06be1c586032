----------------------------- MODULE PhoneSensors -----------------------------
(***************************************************************************)
(* The phone as a sensor: the cards of SensorsScreen, the four sensors of  *)
(* PhoneSensorPublisher, and the writers of TopicPublisher in the core.    *)
(*                                                                         *)
(* IMU and magnetometer start and stop within one call.  GPS and camera    *)
(* start after awaits, which leave the card's button on Start and the      *)
(* state on "off"; the camera also stops after awaits.  The awaits of one  *)
(* call are a single one here, as the state changes only before the first  *)
(* and after the last.  A camera counts as a listener from the moment its  *)
(* fields are set, whether its image stream begins later or fails to: what *)
(* it delivers, if anything, is not tied to the topic it was started for.  *)
(*                                                                         *)
(* A sensor starts under the name on its card, which a dialog changes.     *)
(* The dialog opens from a card that shows Start and is modal.             *)
(***************************************************************************)
EXTENDS Integers

CONSTANTS
  Instant,   \* sensors that start and stop at once
  Located,   \* sensors that start after awaits: GPS
  Camera,    \* the camera
  Topic,     \* topic names the user types on the cards
  NoTopic,   \* null
  NoKind,    \* no writer
  MaxCalls   \* bound on the calls of one kind that wait at once

Kind  == Instant \cup Located \cup {Camera}
Async == Located \cup {Camera}

ASSUME SensorAssumption ==
  /\ Instant \cap Async = {}
  /\ Camera \notin Located
  /\ NoTopic \notin Topic
  /\ NoKind \notin Kind
  /\ MaxCalls \in Nat

VARIABLES
  topicOf,     \* _imuTopic, _magTopic, _gpsTopic, _cameraTopic
  listener,    \* topic of the subscription or controller kept in a field
  stray,       \* topics of the live listeners no field refers to
  starting,    \* start calls that wait, by topic
  closing,     \* stopCamera calls that wait, by topic
  converting,  \* _frameInFlight
  name,        \* text of each card's topicController
  editing,     \* kind whose name dialog is open, or NoKind
  shown,       \* kinds whose card shows Stop
  mounted,
  writer,      \* kind of message each topic's writer was made for
  (* history *)
  unclosed,    \* topics whose writer was left by a stopCamera that failed
  raced        \* kinds started twice at once, or still starting at the end

cardVars   == <<name, editing, shown>>
writerVars == <<writer, unclosed>>
vars == <<topicOf, listener, stray, starting, closing, converting, cardVars, mounted,
          writerVars, raced>>

Init ==
  /\ topicOf = [k \in Kind |-> NoTopic]
  /\ listener = [k \in Kind |-> NoTopic]
  /\ stray = [k \in Kind |-> {}]
  /\ starting = [k \in Async |-> [t \in Topic |-> 0]]
  /\ closing = [t \in Topic |-> 0]
  /\ converting = FALSE
  /\ name \in [Kind -> Topic]
  /\ editing = NoKind
  /\ shown = {}
  /\ mounted = TRUE
  /\ writer = [t \in Topic |-> NoKind]
  /\ unclosed = {}
  /\ raced = {}

Starting(k) == \E t \in Topic : starting[k][t] > 0

-----------------------------------------------------------------------------
(* TopicPublisher.  An operator named Op_Suffix is a deliberately wrong     *)
(* variant of Op.                                                           *)

\* getOrCreateWriter and dds_write: "the first publish call for that name wins".
Write(k, t) == writer' = [writer EXCEPT ![t] = IF @ = NoKind THEN k ELSE @]

\* stopPublishing of each topic of T: whichever kind made the writer.
WriterWithout_Own(T) == [t \in Topic |-> IF t \in T /\ writer[t] = Camera THEN NoKind ELSE writer[t]]
WriterWithout(T) == [t \in Topic |-> IF t \in T THEN NoKind ELSE writer[t]]

-----------------------------------------------------------------------------
(* Starting.                                                                *)

StrayAfter_Unchecked(k) == stray[k] \cup {listener[k]}

\* The listener a field loses when it is set again.
StrayAfter(k) == stray[k] \cup ({listener[k]} \ {NoTopic})

Run(k, t) ==
  /\ topicOf' = [topicOf EXCEPT ![k] = t]
  /\ listener' = [listener EXCEPT ![k] = t]
  /\ stray' = [stray EXCEPT ![k] = StrayAfter(k)]

\* A tap on a card that shows Start.
Tapped(k) == mounted /\ editing = NoKind /\ k \notin shown /\ topicOf[k] = NoTopic

StartInstant(k) ==
  /\ Tapped(k)
  /\ Run(k, name[k])
  /\ UNCHANGED <<starting, closing, converting, cardVars, mounted, raced, writerVars>>

StartAsync(k) ==
  /\ Tapped(k)
  /\ starting[k][name[k]] < MaxCalls
  /\ starting' = [starting EXCEPT ![k][name[k]] = @ + 1]
  /\ raced' = IF Starting(k) THEN raced \cup {k} ELSE raced
  /\ UNCHANGED <<topicOf, listener, stray, closing, converting, cardVars, mounted, writerVars>>

\* The rest of a start call after its awaits; nothing is checked again.  An
\* image stream that cannot be started is a camera that sends no frame.
FinishStart(k, t) ==
  /\ starting[k][t] > 0
  /\ starting' = [starting EXCEPT ![k][t] = @ - 1]
  /\ Run(k, t)
  /\ UNCHANGED <<closing, converting, cardVars, mounted, raced, writerVars>>

\* No permission, no location service, no camera, or it cannot be initialized.
FailStart(k, t) ==
  /\ starting[k][t] > 0
  /\ starting' = [starting EXCEPT ![k][t] = @ - 1]
  /\ UNCHANGED <<topicOf, listener, stray, closing, converting, cardVars, mounted, raced, writerVars>>

-----------------------------------------------------------------------------
(* Publishing.                                                              *)

\* An event of a listener goes to the topic its closure holds.
Sample(k, t) ==
  /\ t \in {listener[k]} \cup stray[k]
  /\ Write(k, t)
  /\ UNCHANGED <<topicOf, listener, stray, starting, closing, converting, cardVars, mounted,
                 raced, unclosed>>

Streaming ==
  \/ listener[Camera] # NoTopic
  \/ stray[Camera] # {}
  \/ \E t \in Topic : closing[t] > 0

\* _onCameraFrame, for a frame that is not skipped: its conversion starts
\* unless one is in flight.
CameraFrame ==
  /\ Streaming
  /\ topicOf[Camera] # NoTopic
  /\ ~converting
  /\ converting' = TRUE
  /\ UNCHANGED <<topicOf, listener, stray, starting, closing, cardVars, mounted, raced, writerVars>>

\* The conversion ends: the image goes to the topic of now, if there is one.
Converted ==
  /\ converting
  /\ converting' = FALSE
  /\ IF topicOf[Camera] # NoTopic THEN Write(Camera, topicOf[Camera]) ELSE UNCHANGED writer
  /\ UNCHANGED <<topicOf, listener, stray, starting, closing, cardVars, mounted, raced, unclosed>>

ConversionFails ==
  /\ converting
  /\ converting' = FALSE
  /\ UNCHANGED <<topicOf, listener, stray, starting, closing, cardVars, mounted, raced, writerVars>>

-----------------------------------------------------------------------------
(* Stopping.                                                                *)

SilencedIn_OnlyTopic(S) == listener
SilencedIn(S) == [k \in Kind |-> IF k \in S THEN NoTopic ELSE listener[k]]

\* The stop calls of the kinds of S: a camera that is open is closed after
\* awaits, and only then its writer.
Halt(S) ==
  /\ topicOf' = [k \in Kind |-> IF k \in S THEN NoTopic ELSE topicOf[k]]
  /\ listener' = SilencedIn(S)
  /\ writer' = WriterWithout({topicOf[k] : k \in S \ {Camera}})
  /\ unclosed' = unclosed \ {topicOf[k] : k \in S \ {Camera}}
  /\ closing' = [t \in Topic |->
       closing[t] + IF Camera \in S /\ topicOf[Camera] = t THEN 1 ELSE 0]

StopTap(k) ==
  /\ mounted
  /\ editing = NoKind
  /\ k \in shown
  /\ \A t \in Topic : closing[t] < MaxCalls
  /\ Halt({k})
  /\ UNCHANGED <<stray, starting, converting, cardVars, mounted, raced>>

CloseWriter_Skipped(t) == WriterWithout({})
CloseWriter(t) == WriterWithout({t})

\* The rest of stopCamera.
FinishClose(t) ==
  /\ closing[t] > 0
  /\ closing' = [closing EXCEPT ![t] = @ - 1]
  /\ writer' = CloseWriter(t)
  /\ unclosed' = unclosed \ {t}
  /\ UNCHANGED <<topicOf, listener, stray, starting, converting, cardVars, mounted, raced>>

\* The camera cannot be disposed of: the call ends there, before stopPublishing.
FailClose(t) ==
  /\ closing[t] > 0
  /\ closing' = [closing EXCEPT ![t] = @ - 1]
  /\ unclosed' = unclosed \cup {t}
  /\ UNCHANGED <<topicOf, listener, stray, starting, converting, cardVars, mounted, raced, writer>>

-----------------------------------------------------------------------------
(* The cards.                                                               *)

\* A rebuild of the cards, after any notifyListeners().
Build ==
  /\ mounted
  /\ shown' = {k \in Kind : topicOf[k] # NoTopic}
  /\ UNCHANGED <<topicOf, listener, stray, starting, closing, converting, name, editing, mounted,
                 raced, writerVars>>

\* _editTopicName: the dialog opens on a card that shows Start, and what it saves
\* goes to the card whatever that shows by then.
EditName(k) ==
  /\ mounted
  /\ editing = NoKind
  /\ k \notin shown
  /\ editing' = k
  /\ UNCHANGED <<topicOf, listener, stray, starting, closing, converting, name, shown, mounted,
                 raced, writerVars>>

CloseDialog(names) ==
  /\ mounted
  /\ editing # NoKind
  /\ editing' = NoKind
  /\ name' = names
  /\ UNCHANGED <<topicOf, listener, stray, starting, closing, converting, shown, mounted,
                 raced, writerVars>>

SaveName(t) == CloseDialog([name EXCEPT ![editing] = t])
CancelEdit  == CloseDialog(name)

Dispose ==
  /\ mounted
  /\ mounted' = FALSE
  /\ Halt(Kind)
  /\ raced' = raced \cup {k \in Async : Starting(k)}
  /\ UNCHANGED <<stray, starting, converting, cardVars>>

-----------------------------------------------------------------------------
Next ==
  \/ \E k \in Instant : StartInstant(k)
  \/ \E k \in Async : StartAsync(k)
  \/ \E k \in Async, t \in Topic : FinishStart(k, t) \/ FailStart(k, t)
  \/ \E k \in Instant \cup Located, t \in Topic : Sample(k, t)
  \/ CameraFrame
  \/ Converted
  \/ ConversionFails
  \/ \E k \in Kind : StopTap(k)
  \/ \E t \in Topic : FinishClose(t) \/ FailClose(t)
  \/ Build
  \/ \E k \in Kind : EditName(k)
  \/ \E t \in Topic : SaveName(t)
  \/ CancelEdit
  \/ Dispose

Spec == Init /\ [][Next]_vars

\* The platform completes the calls that close a camera, or reports their failure.
FairSpec == Spec /\ \A t \in Topic : WF_vars(FinishClose(t) \/ FailClose(t))

-----------------------------------------------------------------------------
TypeOK ==
  /\ topicOf \in [Kind -> Topic \cup {NoTopic}]
  /\ listener \in [Kind -> Topic \cup {NoTopic}]
  /\ stray \in [Kind -> SUBSET Topic]
  /\ starting \in [Async -> [Topic -> 0..MaxCalls]]
  /\ closing \in [Topic -> Nat]
  /\ converting \in BOOLEAN
  /\ name \in [Kind -> Topic]
  /\ editing \in Kind \cup {NoKind}
  /\ shown \in SUBSET Kind
  /\ mounted \in BOOLEAN
  /\ writer \in [Topic -> Kind \cup {NoKind}]
  /\ unclosed \in SUBSET Topic
  /\ raced \in SUBSET Async

\* A sensor that is off publishes nothing, and one that is on publishes only
\* under the topic its stop call deletes, as long as no second start was tapped
\* while one was waiting.
OnlyItsTopic ==
  \A k \in Kind \ raced : stray[k] = {} /\ listener[k] = topicOf[k]

\* A writer exists only for a listener that is alive, or a camera that is closing
\* or could not be closed: no late image or late stop brings back a topic the
\* user has stopped.
WriterHasPublisher ==
  \A t \in Topic : writer[t] # NoKind =>
    \/ \E k \in Kind : topicOf[k] = t \/ t \in stray[k]
    \/ closing[t] > 0
    \/ t \in unclosed

\* When every sensor is off for good, all writers are gone from the graph in
\* the end, whatever order the camera's images and closings came in, but those
\* of a camera that could not be closed.
OffIsSilent ==
  <>[](raced = {} /\ \A k \in Kind : topicOf[k] = NoTopic)
     => <>[](\A t \in Topic \ unclosed : writer[t] = NoKind)

\* "Publishes the phone's own hardware onto topics you name": the name on a card
\* that shows Stop is the topic its sensor publishes under.  (Fails: a name saved
\* while a start waits changes the card, and not the start.)
CardNamesTopic ==
  \A k \in shown : topicOf[k] # NoTopic => name[k] = topicOf[k]

\* "Call when a Sensors card or Teleop's publish toggle turns off": with every
\* card off and no stop call at work no writer is left.  (Fails: a camera whose
\* dispose throws skips the call.)
OffHasNoWriter ==
  raced = {} /\ (\A k \in Kind : topicOf[k] = NoTopic) /\ (\A t \in Topic : closing[t] = 0)
    => \A t \in Topic : writer[t] = NoKind

\* "stopCamera's job is just to make sure it's stopped": no listener is alive
\* that no stop call can reach.  (Fails: two starts at once leave one behind.)
NoStrayListener == \A k \in Kind : stray[k] = {}
=============================================================================
