# HandyROS in TLA+

HandyROS is a phone application that shows the topics of a ROS 2 system, decodes
some of their messages, drives a robot and publishes the phone's sensors. It
speaks DDS itself: a C++ core (`handyros_core/`) over Cyclone DDS, called
through FFI by a Flutter application (`lib/`). This directory holds TLA+ models
of the parts where order matters, the TLC configurations that check them on
small instances, and TLAPS proofs of the main results for every instance. Paths
below are those of the repository.

## 1. Inventory

### Threads and clocks

| Who | What it does | How often |
|---|---|---|
| UI isolate | every widget callback, timer, frame and C API call, one event at a time | 50 ms teleop timer, 100 ms viewer timer, 500 ms discovery poll, frames |
| Discovery thread of Cyclone DDS | fills the built-in readers and the histories of typed readers | any moment |
| Stats worker, payload worker (`TopicStatsTracker::Impl::run`, `TopicPayloadTracker::Impl::run`) | drain typed readers under the tracker's mutex | 30 ms |
| Isolates of `compute()`, engine callbacks | convert images, upload them | end whenever they end |

`poll()` and every other call of the C API run on the UI isolate and are
synchronous, so they never overlap each other; they do overlap the other rows.

### Components

| Component | State | Operations | Talks to | What makes it correct |
|---|---|---|---|---|
| `DDSManager` (`dds_manager.cpp`) | `topics_`, `endpointIndex_`, `participants_`, the participant | `initialize`, `shutdown`, `poll` (three drains), watch/unwatch, publish/stop, `topicsJson` | built-in readers, the trackers, the publisher | the list follows the DDS graph, of other programs only; index and maps agree; identities and QoS survive any order of discovery; nothing outlives its topic or its session |
| `TopicStatsTracker` | typed reader and sample window by topic | track, untrack, drain, `get` | worker thread | a reader per watched topic, with a QoS that matches; a rate that counts the samples that arrived and divides by a positive time |
| `TopicPayloadTracker` | typed reader, `latestJson`, `latestBlob` by topic | watch, unwatch, drain, decode, read | worker thread | the newest sample, JSON and bytes of one sample, no read outside a message |
| C API and bindings (`handyros.cpp`, `handyros_bindings.dart`) | blocks handed to Dart | one function per call, two `free` functions | the core; Dart | each block freed once; a length that is true |
| `TopicPublisher` | writer by topic name | `publish*`, `stopPublishing` | DDS | one writer per name, of the right type, while somebody publishes |
| `DdsTopicService` (Dart) | topic list, `_watchRefCounts` | tick, watch, unwatch, `latestPayload` | the core; cards and viewers | counts are the number of open views; payload readers are not counted |
| `HomeScreen`, `TopicCard` | filter, a State by list index | scroll, filter, expand, collapse, open a viewer | the service | what a card watched is what it unwatches |
| `LivePayloadController` | latest sample, image, decode token, windows | tick, convert, upload, dispose | the service, isolates | the picture never goes back; no image leaks |
| `TeleopScreen`, `VirtualJoystick` | knob, yaw, timer, active topic, spring | start, tick, stop, drag, release, press | the service; the shell's tabs | the robot is never left with a stale command |
| `PhoneSensorPublisher`, `SensorsScreen` | topic, listener, error of four sensors | start, stop, events, frames, conversions | platform plugins; the service | off means silent; what runs can be stopped |
| `AppShell`, settings, viewers, painters, helpers | see `PROJECT.json` | | | mostly stateless |

### Hard behaviours

`PROJECT.json` lists them under `hazards`, each at its line. In short: discovery
samples that arrive between two drains of one poll; the application's own
readers coming back as discovery; counts kept in Dart of readers that the core
deletes on its own; list cells whose State moves to another topic; two threads
sharing a decoded sample that takes two calls to read; awaits between the check
and the assignment of a start; a tap that ends on another tab than it began on;
timers and frames that go on after the finger left; conversions that end out of order; a shutdown under a worker thread; create
calls that fail half way; point clouds whose declared size is not that of their data.

## 2. Modules

| Module | Models | Composed with |
|---|---|---|
| `TopicRegistry` | abstract: what the registry promises to its screens | implemented by `DdsManager` |
| `DdsManager` | discovery, registry, lifetimes of trackers and writers | `INSTANCE TopicRegistry` |
| `WatchService` | cards, viewers, reference counts, native readers | takes the registry as the graph after a tick, which `DdsManager` justifies; `INSTANCE Watching` |
| `Watching` | abstract: a native reader lives from the first view of its topic to the last | implemented by `WatchService` |
| `NativeApi` | the C API: DDS entities, records of trackers and publisher, the payload worker, blocks of the getters | extends `PayloadDecoders`; takes the list of topics as any set, which `DdsManager` models |
| `PayloadDecoders` | the decoders and JSON helpers, as pure operators | used by `NativeApi` |
| `TopicStats` | the statistics of one topic: history, worker, window, rate | the registry's tracking of it is in `DdsManager` and `NativeApi` |
| `Teleop` | teleop screen, joystick, shell tabs, the writer of its topic | `INSTANCE Drive` |
| `Drive` | abstract: runs that send commands and end in one step with zero and no writer; hiding the tab ends one | implemented by `Teleop` |
| `PhoneSensors` | sensors, their cards and the name dialog, the writers they share | |
| `LivePayload` | one image viewer from reader to screen | `INSTANCE Display` |
| `Display` | abstract: pictures whose samples only go forward | implemented by `LivePayload` |
| `DdsManagerProofs`, `DdsRefinementProofs`, `WatchServiceProofs`, `NativeProofs`, `TopicStatsProofs`, `TeleopProofs`, `PhoneSensorsProofs`, `LivePayloadProofs` | theorems | extend the modules they are about |
| `MC*` | constants for TLC | |

In every module an operator `Op_Suffix` beside `Op` is a deliberately wrong
variant, used only to see that the runs notice it.

### DdsManager

`topics`, `endpointIndex`, `participants` are the three maps of `DDSManager`;
`statsReaders` and `payloadReaders` map a topic to the reliability its reader was
created with; the `qos` of an entry holds the four labels `drainEndpoints` writes
(a depth that `historyLabel` cannot read stays); `writers` are the names `TopicPublisher` has a writer for. A `poll()`
is not one step: `phase` says which drain is running, `TakeParticipant` and
`TakeEndpoint` handle one sample, and actions of the graph (`ParticipantUp`,
`EndpointLost`, ...) may come between any two samples. That is what the code
allows, since `dds_take` is called until nothing is left and the mutex keeps only
the UI isolate out. The other calls need `phase = "idle"`, because the isolate is
inside `poll()` otherwise. A built-in reader keeps one data sample and one
disposal per guid. Creating or deleting a typed reader or writer produces samples
about the application's own guids, so the filter of `drainEndpoints` is modelled by
what would arrive, not by leaving those samples out.

The disposal of an instance whose data is unread may come as a sample of its own or
only in that sample's `instance_state`; DDS allows both, `Disposals` does either at
every departure, and nothing is proved or checked under an assumption about it. The
code reads `valid_data` alone, so in the second case it registers an endpoint that is
gone. `TopicRegistry` has such endpoints as `missed`: they may settle in the list
without existing, and no others may (`GhostsWereMissed`). `ownKeyKnown` is FALSE in a
session in which `dds_get_guid` failed, where `ownParticipantKey_` names no live participant;
own endpoints are then registered like any others, which the code does.

`dds_manager.h:113` says the QoS of an entry is that "last observed on any one endpoint".
`drainEndpoints` takes it from publications only (`dds_manager.cpp:452-465`), and the model and
`OnlyPublishersSetQos` follow the code; an entry made by a subscription is "unknown".

### WatchService

A frame builds the list for a range of indices (`Frame`): the State of an index is
kept, the topic of the index is whatever the filter puts there, and expanded cards
that are built no more are disposed and unwatch. `Tick` is `poll()` with
`topicsJson()`; a topic that left and came back since the last tick may or may
not have lost its entry, depending on which sample was taken first. `rebound` and
`wentAway` are history variables that say for which topics the promises of the
counts are off, so that the invariants hold for all others exactly. `Watching` is
the same promise without counts: a set of readers, a number of views for each topic,
and three steps (discovery, a view that opens, views that close). Its `moved` is `rebound`.

`Visualize` pushes a route on every tap, as `_visualize` does, and `OpenViewer` builds it.
Nothing in the code keeps a second viewer from opening before the first is disposed (at
the end of its pop transition), so `viewers` counts the controllers of each topic.
The statistics of a topic are counted, its payload reader is not (`PayloadsAfter`).

### NativeApi and PayloadDecoders

`live` is the set of DDS entities that exist, `stats`, `payload` and `writers` the
maps that hold their handles. A call that others can see half done has steps, and `call` says
which call is in progress and for which topics: a call that needs the mutex of the payload
tracker (`Ask`, `Poll` with topics to untrack, shutdown) waits, with the worker acting meanwhile,
and goes on with `HasMutex` (`Watch`, `Unwatch`, `Untrack`, `LatestJson`, `LatestBlob`, `ClearTrackers`).
Shutdown deletes the participant before that, without a lock (`DeleteParticipant`). A getter
returns a block that the Dart side copies and frees
(`CopyAndFree`, `throws` when the text is not UTF-8). `draining` is what is left of the
worker's round, the mutex being held while it is not empty (`Unlocked`).
Every create call has an `Outcome`, every `malloc` may fail.

`PayloadDecoders` translates each decoder. A point of a cloud is the set of cells
(offset and width) its values are read from, which is what bounds are about; the
count is `width * height` modulo `Word`, the number of values of a `uint32_t`, which
the run takes as 64 and the proofs leave open. Messages have the types of their IDL structs
(`CloudMessage`, `ImageMessage`). A text is a sequence of classes of characters, a number
is an integer or not finite. Six significant digits and the names of the JSON keys are left out.

### TopicStats

One topic. The writers stamp samples with clocks of their own (`Offset`); `history` is
the KEEP_LAST history of the reader, `Take` one `dds_takecdr` of at most `Batch` samples,
`Refresh` the end of the round, with `refreshWindow`. Writers act between any two takes, and
`DeleteParticipant` too. `lost` is a history variable: what the network or the
reader dropped, which a rate may fall short by, and nothing else.

### Teleop

The fingers, the joystick, the screen, the shell and the core, with frames apart
from events: `active` and `tapStops` are what the last frame built, so a second
tap may meet the old button. A finger goes down (`Press`, `PressYaw`, `TouchDown`) only on what is
shown, and may be lifted when something else is: every tab stays mounted, and neither `_start` nor
`_stop` asks whether its tab is shown, so `Start` does not either. `Halt` is the whole of `_stop`.
The spring's positions are the sign of `Curves.easeOutBack`: the side it started on, the opposite one, then zero.
`Drive` leaves out fingers, frames and timers: its `screen` is shown, hidden or gone and its `run` is
`activeTopic`, so that what a tick, a forgotten timer or a late tap does must be a command of
the run in progress or nothing. A run may begin behind a hidden tab, as in the code; what
`Drive` demands is that the step which hides the tab ends the run it finds. That no
robot moves while the tab is hidden is `LeftIsZero`, which a run shows violated.

### PhoneSensors

Three ways to start: at once (IMU, magnetometer), after awaits (GPS), after awaits
with a close that also waits (camera). `listener` is what the fields refer to, `stray`
what nothing refers to. `raced` remembers the sensors for which a start was tapped
during another, or was waiting when the screen was disposed. `name` is the text of a
card; the dialog (`EditName`, `SaveName`, `CancelEdit`) opens from a card that shows Start, is modal, and
sets the text whatever the card shows by then. A start takes the name of its tap.
`FailClose` is `controller.dispose()` throwing outside the try of `stopCamera`: the call ends before
`stopPublishing`, and `unclosed` remembers the topic. A `startImageStream` that fails comes after the fields
are set, so it is a camera that runs and delivers no frame.

### LivePayload

`history` is the KEEP_LAST history of the reader, `latestJson` and `latestBlob` the
sample numbers the tracker holds; `ReadJson` and `ReadBlob` are the two native
calls of `latestPayload`, between which only the worker acts (`UiIdle` guards
every other action of the UI isolate). `jobs` are the pending `_decodeImage` calls.
`Display` sees the two sample numbers of the picture shown and whether an image is kept.

## 3. Runs

| Run | Checks | Instance |
|---|---|---|
| `dds_registry` | type invariant, tables consistent, own endpoints, lifetimes, identities, nothing alive missing, QoS, refinement of `TopicRegistry`, convergence | 1 participant with a publisher and a subscriber of one topic and an endpoint of a service, both trackers and a writer of the application, at most 2 endpoints with unread samples when the graph or the application acts |
| `dds_ghost` | violated: a topic disappears with its last endpoint | the same graph, no tracker, no writer, no bound |
| `watch` | counts, stats readers, payload readers, refinement of `Watching` | 2 topics, counts up to 3, 2 viewers of each |
| `watch_leak` | violated: no reader without a view | the same |
| `teleop` | stale commands, yaw, zero at rest, refinement of `Drive` (tab, runs, writers), standing still | 2 topics, 2 timers, a spring of 3 frames |
| `teleop_hidden` | violated: standing still while another tab is shown | the same |
| `sensors` | topics, writers, silence | the camera and a sensor that starts at once, 2 names, 1 waiting call of a kind and topic |
| `sensor_leak` | violated: nothing stray | the camera and GPS, 2 names, 2 waiting calls |
| `payload` | images, refinement of `Display` (order), arrival of the last sample | depth 2, 4 samples, 4 ticks |
| `payload_pairing` | violated: JSON and bytes of one sample | depth 2, 2 samples, 1 tick |
| `native` | entities and records, the worker's map, blocks and lengths, reads inside the data, JSON and bytes, escaping, calls return | 1 topic of any of 8 types, 16 messages, among them clouds that wrap, are cut short, lack an axis or reach past a point, and an image without data; every failure of a create call or `malloc` |
| `stats` | buffers and division, the rate, draining | 2 writers, one 2 ticks ahead, depth 2, batch 1, window 3, 3 samples a writer |

Why the bounds are enough. The registry treats entries of different topics and
guids alike and independently; what interacts is two endpoints on one topic,
an endpoint outside `rt/`, and the application's own endpoints on the same topic, all
present in `dds_registry`. `MaxUnread` holds up the graph and the calls, never `poll()`: two endpoints
with unread samples are enough for news that arrives behind, in and ahead of a drain, each of them may hold data and a disposal, and the
removal of a watched topic adds two more. That nothing else interacts is no conjecture: all
its invariants, and the refinement, are proved for every graph without this bound (section 4), and the run
is left with `Converges`. In `native` one topic suffices, since no record refers to another topic,
two readers under one mutex differ from one only by a longer round, and a poll that untracks two topics waits twice; what matters is
the choice of messages, which holds a cloud whose product wraps, one shorter than
declared, fields that end with the point, beyond it, and so far out that a 32-bit sum would wrap,
duplicate and missing names, both colors, and texts with every class of character. In `stats` the
history overflows between takes, a round takes several batches, and the window slides over
samples of both clocks, forward and backward. Two topics make every case of
`WatchService`: an insertion before an expanded card needs two, and three
counts are a card and two viewers of one topic. Two timers are a known and a forgotten one; three frames hold
the three positions of the spring. One waiting call for each of two topic names
already lets two starts of one sensor overlap, under different names; GPS, which
is the camera without a closing that waits, is in the proofs and in `sensor_leak`. Four samples
overflow a history of two twice over, and four ticks let three conversions be
superseded at once.

`Teleop`, `PhoneSensors` and `LivePayload` are checked without deadlock
detection: a disposed screen with all calls ended, or an exhausted bound, is a
proper end. The violated runs are the findings of `PROJECT.json`; each quotes the
sentence of the repository it contradicts.

Five more sentences of the repository are stated in the modules, beside the
properties that hold, and are no part of a run. Each fails in a few steps when it is added to a cfg of its module:

| Formula | Says | Fails because |
|---|---|---|
| `ReaderMirrorsPublisher` (`DdsManager`) | a stats reader "should mirror the actual publisher's QoS" (`topic_stats.h:42`) | the labels are those of the publisher read last, even one that left, and a reader is made once; it needs two publishers of different reliability |
| `ViewerHasPayload` (`WatchService`) | "only ever one Viewer screen is open at a time" (`dds_topic_service.dart:110`) | of two viewers of a topic that overlap, the first to close deletes the payload reader |
| `ReleaseIsZero` (`Teleop`) | "a zero-`Twist` is sent the instant the stick is released" (`src/README.md:123`) | the returning spring is published, its overshoot too; `RestIsZero` is what holds |
| `CardNamesTopic` (`PhoneSensors`) | "topics you name" (`src/README.md:21`) | a name saved while a start waits, or before the card is built again, changes the card only; `OnlyItsTopic` is what holds |
| `OffHasNoWriter` (`PhoneSensors`) | stop publishing "when a Sensors card [...] turns off" (`handyros.h:99`) | a camera whose `dispose` throws skips the call; `WriterHasPublisher` and `OffIsSilent` are what holds |

### Fairness

* `DdsManager`: weak fairness of the poll as a whole. `Timer.periodic` fires every
  500 ms for the life of the service and each loop of `poll()` goes on while there
  are samples. No fairness for the graph: `Converges` assumes instead that it
  eventually stops changing.
* `Teleop`: weak fairness of the publish timer, which is periodic, and of frames.
  `Frame` is disabled in the background, where Flutter draws none.
* `PhoneSensors`: weak fairness of the completion of a camera that is closing; a
  platform that never answers would leave the writer, and nothing in the code can help it.
  It may complete with a failure: `OffIsSilent` excepts the topics of `unclosed`.
  None for starts: a permission dialog may stay open for ever.
* `LivePayload`: weak fairness of the worker's drain, a loop with a sleep of 30 ms.
* `NativeApi`: weak fairness of the worker, and strong fairness of the steps that end
  a call. A call that waits for the mutex is enabled only between two rounds; the worker sleeps 30 ms there,
  so the waiting thread gets it, which strong fairness says. Even so `CallsReturn`
  has to assume that rounds end again and again, or that samples stop arriving: `drainOne` loops as long as there are some,
  and under a stream that never pauses each of the waiting calls waits for ever.
* `TopicStats`: weak fairness of the worker, a thread of its own.

## 4. Proofs

The constants are arbitrary sets under the assumptions of the modules: the shape of
the graph (`GraphAssumption`, `TableAssumption`), a list of distinct topics, a spring of at
least two frames, positive depths, batches and capacities (`StatsAssumption`), and
for `NativeApi` messages of their IDL types (`NativeAssumption`) and any word size. Every
type invariant, safety invariant, action property and refinement of the passing runs is
proved, for the specification without the bounds of the MC modules. What the proofs establish beyond the runs is said at each component: the
state and step facts the liveness properties rest on, and the exact condition of
what a violated run shows.

* **Registry** (`TypeCorrect`, `RegistryCorrect` with `NoOrphanCorrect`, `TrackersCorrect`,
  `DownCorrect`; `OwnNeverListed`). The inductive invariant is `RegistryInv`: types,
  `IndexIsInverse`, `NoOrphanTopic`, `TrackersFollowTopics` and `DownIsEmpty` (after shutdown nothing is left)
  together. None is inductive alone: that an entry without endpoints is erased
  needs the index to name the side the endpoint is on; that `removeEndpoint`
  finds its topic needs the inverse; that trackers follow needs both. That own
  endpoints are not listed while the own key is known is a separate invariant: `endpointIndex` holds
  remote guids only, which the filter of `drainEndpoints` ensures step by step.
* **QoS** (`QosCorrect`). An action property, for entries that are new in a step too, from the types and the one
  action that can change the labels.
* **What a drained poll leaves** (`LiveListedCorrect`, `UpToDateCorrect`). Whatever a disposal rides
  on, an endpoint that is alive is listed or its data is pending; with nothing pending every endpoint that exists is
  listed and every identity is resolved, which is what `Converges` needs of each state. Riding
  disposals leave ghosts, never gaps.
* **Identities** (`IdentityCorrect`). `IdentityInv` adds where a missing identity still is:
  a live participant is known or its data sample is pending, and a
  pending disposal means it is gone.
* **Refinement** (`Refinement`, `GhostsCorrect`). The pending samples of an endpoint are exactly
  what the list has still to learn: with the last sample taken the endpoint is listed iff it exists, or it was
  missed. `Init` maps to `Init`, every action to a step of `TopicRegistry` or to a stutter; a departure whose disposal
  rides on unread data is the `Vanish` that makes an endpoint `missed`. `GhostsCorrect`: a
  step that leaves an endpoint listed, settled and gone takes one of these. No theorem has a hypothesis about DDS.
* **Watching** (`CountCorrect`, `WatchedCorrect`, `ReadersCorrect`). `WatchInv` adds that two cards of
  the list never have one topic (`OneCardPerTopic`: the filter keeps the order of the
  topics, so rows and topics correspond) and counts views without cardinalities
  (`CountIsViews`); a lemma turns that into the number of expanded cards. With it every step of
  the counts is a step of `Watching` (`WatchingRefinement`), and a reader without a view is traced to a
  rebuild that moved its topic (`LeakCorrect`): the run `watch_leak` finds the only way.
* **Native core** (`EntitiesCorrect`, `WorkerCorrect`, `CopiesCorrect`, `ReadsCorrect`,
  `BlobCorrect`). `NativeInv` says what a call in progress owns (`CallInv`), that the
  entities are the recorded ones except while a shutdown is half done (`EntityInv`), which calls may wait for which topics, and that every
  reader's JSON and bytes are `Decode` of its sample (`ReadersDecode`). The last two theorems
  then rest on lemmas about the decoder alone: `CloudReadsInData`, that with
  `offset + width <= point_step` and at most `length \div point_step` points each cell
  ends within the data, for any fields; and `WellFormedKeepsAll`, that a product that
  fits does not wrap. `RoundsCorrect`: while no sample arrives each step of the worker
  leaves less to do in its round and no call adds to it, so any call that waits for the mutex waits for
  finitely many steps.
* **Texts** (`EscapeReadsBack`, `TextCorrect`). `Escape`, `Unescape` and `Printed` are recursive
  functions on sequences, and what they compute is shown for texts of any length. The
  induction is over sets: `SeqSetInduction` takes the set of the texts a statement holds for
  instead of an operator, and follows from the least element of a set of numbers (`WFMin`,
  `NatLessThanWellFounded`). `CausalFixedPoint` gives the three functions their defining
  equations: an equation that looks only at shorter texts has a solution, built by length
  (`TextRecursion`).
* **Statistics** (`StatsTypes`, `RateCorrect`). Both buffers in a row, window then history, are
  one stream. `StreamInv` says that the numbers of a writer rise along it and that
  what is missing between two of them, or after the last, is in `lost`. A window of
  one writer then has as many samples as numbers between its ends, less the lost ones, which
  is the rate; the counting is by a bijection between places and numbers. `DrainsInARound`:
  without arrivals each take shortens what the reader holds, and only a take that finds nothing ends a round.
* **Teleop** (`TeleopCorrect` and the theorems that name its parts). `TeleopInv` adds to the checked
  invariants `RunHasTimer` (a run in progress has a timer the screen still refers to) and `WriterIsActive`. Forgotten timers
  need no bound: they are harmless because `_tick` looks at `_activeTopic`, which the proof shows. `RestIsZeroCorrect` adds `RestInv`: with no
  finger down and the spring at rest, stick and yaw are zero while the screen exists. `PromiseKept` is the refinement of
  `Drive`; the hard step is a tab switch, where the frame that hides the tab must also end the run it finds. That no run goes on behind a hidden tab is not
  true (`teleop_hidden`) and no part of the invariant.
* **Sensors** (`OnlyItsTopicCorrect`, `WriterCorrect`). `SensorInv` adds that a field refers
  to a listener exactly when the card shows a topic, and that a sensor no second start was tapped
  for has at most one call waiting, and none while it runs (`OneStart`). `OffIsClosingCorrect` and
  `OffOnlyClosesCorrect`: with every sensor off, a writer that is left has a closing that waits or failed, no step makes
  a writer or begins a closing, and the end of a closing removes its writer unless it fails. Fairness
  of the closings is all `OffIsSilent` adds.
* **Viewer** (`OneImageCorrect`, `DisplayRefinement`, `NewestCorrect`). `PayloadInv` orders what the
  pipeline holds: samples along history, core and controller (`InOrder`), and pending conversions by
  their tokens (`TokensDiffer`, `TokensInOrder`), so the only upload that may replace
  the picture is of a later call, which began to read where the earlier one ended or after it. That is the step of `Display`.
  `NewestCorrect`: what an open viewer decodes next is the last sample published, for any
  depth, since KEEP_LAST keeps what was appended.

Checked by TLC only: the liveness properties (`Converges`, `ReleasedStops`, `OffIsSilent`,
`LastSampleArrives`, `CallsReturn`, `Drains`), since liveness under fairness and `ENABLED` are out of the
prover's reach. For each of them but `ReleasedStops` the facts about states and steps named above are
proved; of `ReleasedStops` it is `RestIsZeroCorrect` for a spring that has come to rest, and that it does
come to rest is left to TLC. The violated runs show single behaviours and have no theorem, but
`LeakCorrect`, `GhostsCorrect` and `OnlyItsTopicCorrect` say under which condition the sentence they refute is true.
No module declares a recursive operator.

## 5. Order of the work, and what is left

Registry and its refinement came first, then watching, teleop, sensors and the image
viewer, then the native core with its decoders, the statistics, and the proofs of all of them.
What would come next:

1. Abstract specifications of what the sensors and the statistics promise, like those of
   the registry, the views, the tab and the viewer.
2. The sample windows of the viewer (odometry trail, log lines, transform rates), which
   take a sample on every tick, new or not.
3. Composing `WatchService` with the registry's specification instead of a graph taken over by a tick.

## 6. Not modelled

Wording and layout (keys of the JSON, demangled types), painting and theme: no property
speaks of them. Settings: two values that act at the next start. The parsing of the
JSON into Dart objects, the tree of transforms and the conversion of camera images are
pure and sequential; what happens around them concurrently is in `WatchService`, `LivePayload` and
`PhoneSensors`. Mean size and bandwidth come from the window the rate comes from.
`patch_idl.py` runs at build time. Demo data is used only without a core.
The duration of a round or of a conversion needs time, which the models leave out: they show that calls
return, not how soon. A name used with two kinds of message is a misuse the
header excludes; `PhoneSensors` keeps what the code then does, and nothing is claimed of it.
