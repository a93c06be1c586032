------------------------------ MODULE LivePayload ------------------------------
(***************************************************************************)
(* One viewer of an image topic: the reader and the worker thread of       *)
(* TopicPayloadTracker in the core, DdsTopicService.latestPayload and      *)
(* LivePayloadController in the app.                                       *)
(*                                                                         *)
(* The worker thread and the UI isolate share latestJson and latestBlob    *)
(* under a mutex; the UI takes it once for each.  An image is converted in *)
(* an isolate of its own and then uploaded, both of which end whenever     *)
(* they do.  A sample is its number; an image names the samples its JSON   *)
(* and its pixels came from.                                               *)
(***************************************************************************)
EXTENDS Naturals, Sequences

CONSTANTS
  Depth,       \* history of the reader, KEEP_LAST
  MaxSamples,  \* bound on the samples published
  MaxDecodes   \* bound on the ticks that find an image

ASSUME PayloadAssumption ==
  /\ Depth \in Nat \ {0}
  /\ MaxSamples \in Nat
  /\ MaxDecodes \in Nat

VARIABLES
  (* the publisher and the core *)
  sent,         \* number of the last sample published
  history,      \* samples the reader holds and nobody took
  latestJson,   \* sample of TrackedReader.latestJson; 0 before the first
  latestBlob,   \* sample of TrackedReader.latestBlob
  (* the app *)
  open,         \* the viewer is open, and the topic watched
  jsonRead,     \* sample of the JSON of a latestPayload call under way, or 0
  token,        \* _imageDecodeToken
  jobs,         \* _decodeImage calls that wait
  decoded,      \* decodedImage: its job, or NoJob
  images        \* ui.Images not disposed: their jobs

coreVars == <<sent, history, latestJson, latestBlob>>
vars == <<coreVars, open, jsonRead, token, jobs, decoded, images>>

Sample == 1..MaxSamples
Job    == [token : 1..MaxDecodes, json : Sample, blob : Sample, at : {"convert", "upload"}]
NoJob  == [token |-> 0, json |-> 0, blob |-> 0, at |-> "upload"]

Init ==
  /\ sent = 0
  /\ history = <<>>
  /\ latestJson = 0
  /\ latestBlob = 0
  /\ open = TRUE
  /\ jsonRead = 0
  /\ token = 0
  /\ jobs = {}
  /\ decoded = NoJob
  /\ images = {}

-----------------------------------------------------------------------------
(* The core.  An operator named Op_Suffix is a deliberately wrong variant   *)
(* of Op.                                                                   *)

KeepLast(s) == IF Len(s) <= Depth THEN s ELSE Tail(s)

Publish ==
  /\ sent < MaxSamples
  /\ sent' = sent + 1
  /\ history' = IF open THEN KeepLast(Append(history, sent + 1)) ELSE history
  /\ UNCHANGED <<latestJson, latestBlob, open, jsonRead, token, jobs, decoded, images>>

Decoded_First(s) == s[1]
Decoded(s) == s[Len(s)]

\* drainOne: takes until nothing is left, under the mutex.  Each sample
\* replaces the one before it.
Drain ==
  /\ history # <<>>
  /\ history' = <<>>
  /\ latestJson' = Decoded(history)
  /\ latestBlob' = Decoded(history)
  /\ UNCHANGED <<sent, open, jsonRead, token, jobs, decoded, images>>

-----------------------------------------------------------------------------
(* The controller.                                                          *)

\* No latestPayload call is under way: the UI isolate may take its next event.
UiIdle == jsonRead = 0

\* The JSON says "available".
Available == latestJson # 0

\* _tick up to the first native call.
ReadJson ==
  /\ UiIdle
  /\ open
  /\ token < MaxDecodes
  /\ Available
  /\ jsonRead' = latestJson
  /\ UNCHANGED <<coreVars, open, token, jobs, decoded, images>>

\* The second native call and the rest of _tick: the decoding of the image
\* starts, and supersedes every one before.
ReadBlob ==
  /\ ~UiIdle
  /\ jsonRead' = 0
  /\ token' = token + 1
  /\ jobs' = jobs \cup {[token |-> token + 1, json |-> jsonRead, blob |-> latestBlob,
                         at |-> "convert"]}
  /\ UNCHANGED <<coreVars, open, decoded, images>>

Superseded_Never(j) == FALSE
Superseded(j) == j.token # token

\* compute() returns.
Converted(j) ==
  /\ UiIdle
  /\ j \in jobs
  /\ j.at = "convert"
  /\ jobs' = IF Superseded(j) THEN jobs \ {j}
             ELSE (jobs \ {j}) \cup {[j EXCEPT !.at = "upload"]}
  /\ UNCHANGED <<coreVars, open, jsonRead, token, decoded, images>>

\* compute() finds no decoder for the encoding: an error text or nothing.
NotConvertible(j) ==
  /\ UiIdle
  /\ j \in jobs
  /\ j.at = "convert"
  /\ jobs' = jobs \ {j}
  /\ UNCHANGED <<coreVars, open, jsonRead, token, decoded, images>>

Replaced_Kept(j) == images \cup {j}
Replaced_Swapped(j) == (images \cup {decoded}) \ {j}

\* The image shown until now is disposed.
Replaced(j) == (images \cup {j}) \ {decoded}

\* The callback of decodeImageFromPixels, with a new ui.Image; it does not ask
\* whether the controller still exists.
Uploaded(j) ==
  /\ UiIdle
  /\ j \in jobs
  /\ j.at = "upload"
  /\ jobs' = jobs \ {j}
  /\ IF Superseded(j)
     THEN UNCHANGED <<decoded, images>>
     ELSE /\ decoded' = j
          /\ images' = Replaced(j)
  /\ UNCHANGED <<coreVars, open, jsonRead, token>>

\* The route is popped between two events of the UI isolate; unwatchPayload
\* deletes the reader.
Dispose ==
  /\ UiIdle
  /\ open
  /\ open' = FALSE
  /\ images' = images \ {decoded}
  /\ history' = <<>>
  /\ latestJson' = 0
  /\ latestBlob' = 0
  /\ UNCHANGED <<sent, jsonRead, token, jobs, decoded>>

-----------------------------------------------------------------------------
Next ==
  \/ Publish
  \/ Drain
  \/ ReadJson
  \/ ReadBlob
  \/ \E j \in jobs : Converted(j) \/ NotConvertible(j) \/ Uploaded(j)
  \/ Dispose

Spec == Init /\ [][Next]_vars

\* The worker thread wakes up every 30 ms.
FairSpec == Spec /\ WF_vars(Drain)

-----------------------------------------------------------------------------
TypeOK ==
  /\ sent \in 0..MaxSamples
  /\ history \in Seq(Sample)
  /\ latestJson \in 0..MaxSamples
  /\ latestBlob \in 0..MaxSamples
  /\ open \in BOOLEAN
  /\ jsonRead \in 0..MaxSamples
  /\ token \in 0..MaxDecodes
  /\ jobs \subseteq Job
  /\ decoded \in Job \cup {NoJob}
  /\ images \subseteq Job

\* An open viewer keeps no ui.Image but the one it shows, and shows no disposed
\* one: conversions and uploads in any order leak no image.  What a closed one
\* leaks is at most the image of one upload that was under way.
OneImage ==
  /\ open => images = {decoded} \ {NoJob}
  /\ images \subseteq {decoded}

\* Display: conversions of older samples may end later, uploads may end after the
\* viewer was closed, and the worker may decode between the two native calls, but
\* the samples of the pictures only go forward, one after the other.
Promise == INSTANCE Display WITH
  json <- decoded.json, blob <- decoded.blob, kept <- images # {}
ImplementsDisplay == Promise!Spec

\* The last sample published reaches the viewer's side of the core, unless the
\* viewer is closed: no burst makes the reader keep the wrong end.
LastSampleArrives ==
  (open /\ sent = MaxSamples) ~> (latestJson = MaxSamples \/ ~open)

\* "Heap-allocated raw binary payload paired with the JSON above": the pixels
\* shown come from the sample the width, height and encoding come from.  (Fails:
\* the worker may decode another sample between the two calls.)
PayloadIsPaired == \A j \in jobs \cup images : j.json = j.blob
=============================================================================
