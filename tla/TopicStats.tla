------------------------------- MODULE TopicStats -------------------------------
(***************************************************************************)
(* TopicStatsTracker, for one watched topic: a typed reader with a KEEP_   *)
(* LAST history, a worker thread that drains it every 30 ms into a sliding *)
(* window, and the rate, size and latency computed from the window.        *)
(*                                                                         *)
(* The writers of the topic publish at any moment, each stamping samples   *)
(* with its own clock, which may be ahead or behind ours; the network may  *)
(* lose a sample.  The worker holds the tracker's mutex for a whole round, *)
(* so track, untrack and clear fall between rounds, but the writers, and   *)
(* shutdown's dds_delete of the participant, do not wait for it.           *)
(*                                                                         *)
(* Seconds are ticks, and a rate is kept as the fraction intervals /       *)
(* elapsed.  The mean size and the bandwidth come from the same window and *)
(* are left out.  Samples without valid_data leave no trace and are not    *)
(* modelled.                                                               *)
(*                                                                         *)
(* An operator named Op_Suffix is a deliberately wrong variant of Op.      *)
(***************************************************************************)
EXTENDS Integers, Sequences, FiniteSets

CONSTANTS
  Writer,        \* the writers of the topic
  Offset,        \* writer -> its clock minus ours
  Depth,         \* of the reader's history: 8 if reliable, else 16
  Batch,         \* kMaxSamplesPerPoll
  Capacity,      \* Window::kCapacity
  LatencyLimit,  \* 60000 ms
  MaxTime,       \* bound: ticks of our clock
  MaxNumber      \* bound: samples a writer publishes

ASSUME StatsAssumption ==
  /\ Offset \in [Writer -> Int]
  /\ Depth \in Nat \ {0} /\ Batch \in Nat \ {0} /\ Capacity \in Nat \ {0}
  /\ LatencyLimit \in Nat
  /\ MaxTime \in Nat /\ MaxNumber \in Nat

VARIABLES
  clock,      \* dds_time() of this machine
  published,  \* writer -> number of its last sample
  lost,       \* samples the network or the history dropped, as <<writer, number>>
  reader,     \* "none": not in readers; "dead": there, but deleted with the participant
  history,    \* what the reader holds, oldest first
  window,     \* window.samples
  stats,      \* window.stats
  round       \* the worker holds the mutex

vars == <<clock, published, lost, reader, history, window, stats, round>>

Sample == [by : Writer, number : Nat, timestamp : Int]

Stats == [available : BOOLEAN, intervals : Nat, elapsed : Int, latency : Nat]

NoStats == [available |-> FALSE, intervals |-> 0, elapsed |-> 0, latency |-> 0]

\* The last n of a sequence: push_back, then pop_front when it is too long.
Newest(samples, n) ==
  IF Len(samples) <= n THEN samples
                       ELSE SubSeq(samples, Len(samples) - n + 1, Len(samples))

First(samples) == samples[1]
Last(samples)  == samples[Len(samples)]

Init ==
  /\ clock = 0
  /\ published = [w \in Writer |-> 0]
  /\ lost = {}
  /\ reader = "none"
  /\ history = <<>>
  /\ window = <<>>
  /\ stats = NoStats
  /\ round = FALSE

-----------------------------------------------------------------------------
(* Time and the writers.                                                    *)

Tick ==
  /\ clock < MaxTime
  /\ clock' = clock + 1
  /\ UNCHANGED <<published, lost, reader, history, window, stats, round>>

NewSample(w) ==
  [by |-> w, number |-> published[w] + 1, timestamp |-> clock + Offset[w]]

Name(s) == <<s.by, s.number>>

\* The newest Depth samples are kept.
Arrive(w) ==
  /\ published[w] < MaxNumber /\ reader = "live"
  /\ LET all == Append(history, NewSample(w)) IN
     /\ history' = Newest(all, Depth)
     /\ lost' = IF Len(all) > Depth THEN lost \cup {Name(First(all))} ELSE lost
  /\ published' = [published EXCEPT ![w] = @ + 1]
  /\ UNCHANGED <<clock, reader, window, stats, round>>

Lose(w) ==
  /\ published[w] < MaxNumber
  /\ published' = [published EXCEPT ![w] = @ + 1]
  /\ lost' = lost \cup {<<w, published[w] + 1>>}
  /\ UNCHANGED <<clock, reader, history, window, stats, round>>

-----------------------------------------------------------------------------
(* The calls.                                                               *)

\* trackIfKnownType, for a topic whose type is known.
Track ==
  /\ reader = "none" /\ ~round
  /\ reader' = "live"
  /\ UNCHANGED <<clock, published, lost, history, window, stats, round>>

\* untrack deletes the reader and erases the record; get then returns {}.
Erase ==
  /\ reader' = "none"
  /\ history' = <<>>
  /\ window' = <<>>
  /\ stats' = NoStats

Untrack ==
  /\ reader = "live" /\ ~round
  /\ Erase
  /\ UNCHANGED <<clock, published, lost, round>>

\* shutdown() deletes the participant without the mutex...
DeleteParticipant ==
  /\ reader = "live"
  /\ reader' = "dead"
  /\ history' = <<>>
  /\ UNCHANGED <<clock, published, lost, window, stats, round>>

\* ... and clears the tracker with it.
Clear ==
  /\ reader = "dead" /\ ~round
  /\ Erase
  /\ UNCHANGED <<clock, published, lost, round>>

-----------------------------------------------------------------------------
(* The worker.                                                              *)

Wakes_UntilFull == reader # "none" /\ Len(window) < Capacity

\* Every round takes up every reader of the map.
Wakes == reader # "none"

Wake ==
  /\ Wakes /\ ~round
  /\ round' = TRUE
  /\ UNCHANGED <<clock, published, lost, reader, history, window, stats>>

Rest_Nothing(taken) == <<>>

\* What dds_takecdr leaves in the reader.
Rest(taken) == SubSeq(history, taken + 1, Len(history))

\* drain(): one dds_takecdr, of at most Batch samples.
Take ==
  LET taken == IF Len(history) < Batch THEN Len(history) ELSE Batch IN
  /\ round /\ history # <<>>
  /\ window' = Newest(window \o SubSeq(history, 1, taken), Capacity)
  /\ history' = Rest(taken)
  /\ UNCHANGED <<clock, published, lost, reader, stats, round>>

Elapsed == Last(window).timestamp - First(window).timestamp

Measurable_AnyClock == Len(window) >= 2

\* Two samples, and no skew that turns time back.
Measurable == Len(window) >= 2 /\ Elapsed > 0

\* A latency that the clocks of two machines make nonsense leaves the old one.
Latency(old) ==
  LET l == clock - Last(window).timestamp IN
  IF l >= 0 /\ l < LatencyLimit THEN l ELSE old

Measured(old) ==
  [available |-> TRUE, intervals |-> Len(window) - 1, elapsed |-> Elapsed,
   latency |-> Latency(old)]

\* dds_takecdr returned none, or an error for a dead reader: refreshWindow,
\* and the round ends.
Refresh ==
  /\ round /\ history = <<>>
  /\ stats' = IF Measurable THEN Measured(stats.latency) ELSE stats
  /\ round' = FALSE
  /\ UNCHANGED <<clock, published, lost, reader, history, window>>

-----------------------------------------------------------------------------
WriterStep == \E w \in Writer : Lose(w) \/ Arrive(w)
CallStep   == Track \/ Untrack \/ DeleteParticipant \/ Clear
WorkerStep == Wake \/ Take \/ Refresh

Next == Tick \/ WriterStep \/ CallStep \/ WorkerStep

Spec == Init /\ [][Next]_vars

\* The worker is a thread of its own.
FairSpec == Spec /\ WF_vars(WorkerStep)

-----------------------------------------------------------------------------
\* Types, the bounds of both buffers, and a rate one can divide by.
TypeOK ==
  /\ clock \in 0..MaxTime
  /\ published \in [Writer -> 0..MaxNumber]
  /\ lost \subseteq Writer \X Nat
  /\ reader \in {"none", "live", "dead"}
  /\ history \in Seq(Sample) /\ Len(history) <= Depth
  /\ window \in Seq(Sample) /\ Len(window) <= Capacity
  /\ stats \in Stats
  /\ stats.available => stats.intervals > 0 /\ stats.elapsed > 0
  /\ round \in BOOLEAN

LostBetween(first, last) ==
  {n \in first.number..last.number : <<first.by, n>> \in lost}

\* A rate computed from the samples of one writer counts exactly the samples
\* that reached the reader: it is short by those that were lost, never by one
\* the worker skipped, and never too high, however writes fall between the
\* takes of a round.
RateIsTrue ==
  [][stats' # stats /\ stats'.available
       /\ (\A i \in 1..Len(window) : window[i].by = First(window).by) =>
     stats'.intervals = Last(window).number - First(window).number
                          - Cardinality(LostBetween(First(window), Last(window)))]_vars

\* "A tight internal loop": once the writers pause, what the reader holds is
\* in the window, whatever calls are made meanwhile.
Drains == (reader = "live" /\ history # <<>>) ~> history = <<>>
=============================================================================
