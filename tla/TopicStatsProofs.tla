---------------------------- MODULE TopicStatsProofs ----------------------------
(***************************************************************************)
(* Proofs about TopicStats, for any writers, clocks, depth of the history, *)
(* batch and capacity of the window.                                       *)
(***************************************************************************)
EXTENDS TopicStats, SequenceTheorems, FiniteSetTheorems, TLAPS

-----------------------------------------------------------------------------
(* Types.                                                                   *)

\* The newest n of a sequence are what is left when some of its first are gone.
LEMMA NewestIsSuffix ==
  ASSUME NEW S, NEW q \in Seq(S), NEW n \in Nat
  PROVE  /\ Newest(q, n) \in Seq(S) /\ Len(Newest(q, n)) <= n
         /\ \E d \in 0..Len(q) :
              /\ Len(Newest(q, n)) = Len(q) - d
              /\ \A i \in 1..(Len(q) - d) : Newest(q, n)[i] = q[i + d]
              /\ Len(q) <= n + 1 => d <= 1
<1>1. Len(q) \in Nat /\ \A i \in 1..Len(q) : q[i] \in S
  BY LenProperties, ElementOfSeq
<1>2. CASE Len(q) <= n
  <2>1. Newest(q, n) = q
    BY <1>2 DEF Newest
  <2>2. /\ 0 \in 0..Len(q)
        /\ Len(Newest(q, n)) = Len(q) - 0
        /\ \A i \in 1..(Len(q) - 0) : Newest(q, n)[i] = q[i + 0]
        /\ 0 <= 1
    BY <1>1, <2>1
  <2>3. Newest(q, n) \in Seq(S) /\ Len(Newest(q, n)) <= n
    BY <1>2, <2>1
  <2> HIDE DEF Newest
  <2> QED BY <2>2, <2>3
<1>3. CASE Len(q) > n
  <2> DEFINE m == Len(q) - n + 1
             d == Len(q) - n
  <2>1. Newest(q, n) = SubSeq(q, m, Len(q))
    BY <1>1, <1>3 DEF Newest
  <2>2. m \in Int /\ Len(q) \in Int /\ \A i \in m..Len(q) : q[i] \in S
    BY <1>1, <1>3
  <2>3. /\ Newest(q, n) \in Seq(S)
        /\ Len(Newest(q, n)) = IF m <= Len(q) THEN Len(q) - m + 1 ELSE 0
        /\ \A i \in 1..(Len(q) - m + 1) : Newest(q, n)[i] = q[m + i - 1]
    BY <2>1, <2>2, SubSeqProperties
  <2>4. Len(Newest(q, n)) = Len(q) - d /\ d \in 0..Len(q) /\ Len(q) - d = n
    BY <1>1, <1>3, <2>3
  <2>5. \A i \in 1..(Len(q) - d) : Newest(q, n)[i] = q[i + d]
    BY <1>1, <1>3, <2>3
  <2>6. Len(q) <= n + 1 => d <= 1
    BY <1>1
  <2> HIDE DEF d, m
  <2> QED BY <2>3, <2>4, <2>5, <2>6
<1> QED BY <1>1, <1>2, <1>3

\* A batch and what it leaves, when the worker takes it.
Taken == IF Len(history) < Batch THEN Len(history) ELSE Batch

LEMMA TakenSplits ==
  ASSUME TypeOK, history # <<>>
  PROVE  /\ Taken \in 1..Len(history)
         /\ SubSeq(history, 1, Taken) \in Seq(Sample) /\ Rest(Taken) \in Seq(Sample)
         /\ Len(Rest(Taken)) = Len(history) - Taken
         /\ SubSeq(history, 1, Taken) \o Rest(Taken) = history
<1>1. history \in Seq(Sample) /\ Len(history) \in Nat \ {0} /\ DOMAIN history = 1..Len(history)
  BY EmptySeq, LenProperties DEF TypeOK
<1>2. Taken \in 1..Len(history)
  BY <1>1, StatsAssumption DEF Taken
<1>3. \A i \in 1..Len(history) : history[i] \in Sample
  BY <1>1, ElementOfSeq
<1> HIDE DEF Taken
<1>4. SubSeq(history, 1, Taken) \in Seq(Sample)
  BY <1>1, <1>2, <1>3, SubSeqProperties
<1>5. /\ SubSeq(history, Taken + 1, Len(history)) \in Seq(Sample)
      /\ Len(SubSeq(history, Taken + 1, Len(history))) = Len(history) - Taken
  <2>1. Taken + 1 \in Int /\ Len(history) \in Int /\ \A i \in (Taken + 1)..Len(history) : history[i] \in Sample
    BY <1>1, <1>2, <1>3
  <2>2. /\ SubSeq(history, Taken + 1, Len(history)) \in Seq(Sample)
        /\ Len(SubSeq(history, Taken + 1, Len(history)))
             = IF Taken + 1 <= Len(history) THEN Len(history) - (Taken + 1) + 1 ELSE 0
    BY <2>1, SubSeqProperties
  <2> DEFINE rest == SubSeq(history, Taken + 1, Len(history))
  <2>3. rest \in Seq(Sample)
    BY <2>2
  <2>4. Len(rest) = IF Taken + 1 <= Len(history) THEN Len(history) - (Taken + 1) + 1 ELSE 0
    BY <2>2
  <2> HIDE DEF rest
  <2>5. Len(rest) = Len(history) - Taken
    <3>1. Len(history) \in Nat /\ Taken \in Nat /\ Taken <= Len(history)
      BY <1>1, <1>2
    <3>2. \A n, k \in Nat : k <= n => (IF k + 1 <= n THEN n - (k + 1) + 1 ELSE 0) = n - k
      OBVIOUS
    <3> QED BY <3>1, <3>2, <2>4
  <2> QED BY <2>3, <2>5 DEF rest
<1>6. SubSeq(history, 1, Taken) \o SubSeq(history, Taken + 1, Len(history)) = history
  <2>1. 1 \in 1..(Len(history) + 1) /\ Taken \in (1 - 1)..Len(history) /\ Len(history) \in Taken..Len(history)
    BY <1>1, <1>2
  <2>2. SubSeq(history, 1, Taken) \o SubSeq(history, Taken + 1, Len(history))
          = SubSeq(history, 1, Len(history))
    BY <1>1, <2>1, ConcatAdjacentSubSeq
  <2> QED BY <1>1, <2>2, SubSeqFull
<1> QED BY <1>2, <1>4, <1>5, <1>6 DEF Rest

LEMMA NewSampleType ==
  ASSUME TypeOK, NEW w \in Writer
  PROVE  /\ NewSample(w) \in Sample
         /\ Append(history, NewSample(w)) \in Seq(Sample)
         /\ Len(Append(history, NewSample(w))) = Len(history) + 1
<1>1. clock \in Int /\ published[w] \in Nat /\ Offset[w] \in Int
  BY StatsAssumption DEF TypeOK
<1>2. NewSample(w) \in Sample
  BY <1>1 DEF NewSample, Sample
<1> QED BY <1>2 DEF TypeOK

LEMMA TypeInit == Init => TypeOK
<1> SUFFICES ASSUME Init PROVE TypeOK
  OBVIOUS
<1>1. <<>> \in Seq(Sample) /\ Len(<<>>) = 0
  BY EmptySeq
<1>2. NoStats \in Stats
  BY DEF NoStats, Stats
<1>3. published \in [Writer -> 0..MaxNumber]
  BY StatsAssumption DEF Init
<1>4. 0 \in 0..MaxTime /\ 0 <= Depth /\ 0 <= Capacity
  BY StatsAssumption
<1>5. ~NoStats.available
  BY DEF NoStats
<1> QED BY <1>1, <1>2, <1>3, <1>4, <1>5 DEF Init, TypeOK

LEMMA TypeStep == TypeOK /\ [Next]_vars => TypeOK'
<1> SUFFICES ASSUME TypeOK, [Next]_vars PROVE TypeOK'
  OBVIOUS
<1>0. /\ <<>> \in Seq(Sample) /\ Len(<<>>) = 0 /\ NoStats \in Stats /\ ~NoStats.available
      /\ Len(window) \in Nat /\ Len(history) \in Nat
  BY EmptySeq, LenProperties DEF NoStats, Stats, TypeOK
<1>1. CASE UNCHANGED vars
  BY <1>1 DEF vars, TypeOK
<1>2. CASE Tick
  BY <1>2, StatsAssumption DEF Tick, TypeOK
<1>3. ASSUME NEW w \in Writer, Lose(w) PROVE TypeOK'
  <2>1. published[w] \in 0..MaxNumber
    BY DEF TypeOK
  <2>2. published' \in [Writer -> 0..MaxNumber] /\ lost' \subseteq Writer \X Nat
    BY <1>3, <2>1, StatsAssumption DEF Lose, TypeOK
  <2> QED BY <1>3, <2>2 DEF Lose, TypeOK
<1>4. ASSUME NEW w \in Writer, Arrive(w) PROVE TypeOK'
  <2> DEFINE all == Append(history, NewSample(w))
  <2>1. all \in Seq(Sample) /\ Len(all) = Len(history) + 1
    BY NewSampleType
  <2>2. history' \in Seq(Sample) /\ Len(history') <= Depth
    BY <1>4, <2>1, NewestIsSuffix, StatsAssumption DEF Arrive
  <2>3. First(all) \in Sample
    BY <1>0, <2>1, ElementOfSeq DEF First
  <2>4. lost' \subseteq Writer \X Nat
    BY <1>4, <2>3 DEF Arrive, Name, Sample, TypeOK
  <2>5. published' \in [Writer -> 0..MaxNumber]
    BY <1>4, StatsAssumption DEF Arrive, TypeOK
  <2> QED BY <1>4, <2>2, <2>4, <2>5 DEF Arrive, TypeOK
<1>5. CASE CallStep
  <2>1. 0 <= Depth /\ 0 <= Capacity
    BY StatsAssumption
  <2>2. CASE Track
    BY <2>2 DEF Track, TypeOK
  <2>3. CASE Untrack \/ Clear
    BY <1>0, <2>1, <2>3 DEF Untrack, Clear, Erase, TypeOK
  <2>4. CASE DeleteParticipant
    BY <1>0, <2>1, <2>4 DEF DeleteParticipant, TypeOK
  <2> QED BY <1>5, <2>2, <2>3, <2>4 DEF CallStep
<1>6. CASE Wake
  BY <1>6 DEF Wake, TypeOK
<1>7. CASE Take
  <2>1. /\ window' = Newest(window \o SubSeq(history, 1, Taken), Capacity)
        /\ history' = Rest(Taken)
        /\ history # <<>>
        /\ UNCHANGED <<clock, published, lost, reader, stats, round>>
    BY <1>7 DEF Take, Taken
  <2>2. window \o SubSeq(history, 1, Taken) \in Seq(Sample)
    BY <2>1, TakenSplits, ConcatProperties DEF TypeOK
  <2>3. window' \in Seq(Sample) /\ Len(window') <= Capacity
    BY <2>1, <2>2, NewestIsSuffix, StatsAssumption
  <2>4. history' \in Seq(Sample) /\ Len(history') <= Depth
    BY <1>0, <2>1, TakenSplits, StatsAssumption DEF TypeOK
  <2> QED BY <2>1, <2>3, <2>4 DEF TypeOK
<1>8. CASE Refresh
  <2>1. CASE Measurable
    <3>1. stats' = Measured(stats.latency)
      BY <1>8, <2>1 DEF Refresh
    <3>2. window[1] \in Sample /\ window[Len(window)] \in Sample
      BY <1>0, <2>1, ElementOfSeq DEF Measurable, TypeOK
    <3>3. Elapsed \in Int /\ Elapsed > 0 /\ Len(window) - 1 > 0 /\ Len(window) - 1 \in Nat
      BY <1>0, <2>1, <3>2 DEF Measurable, Elapsed, First, Last, Sample
    <3>4. Latency(stats.latency) \in Nat
      BY <3>2 DEF Latency, Last, Sample, TypeOK, Stats
    <3>5. stats' \in Stats /\ stats'.intervals > 0 /\ stats'.elapsed > 0
      BY <3>1, <3>3, <3>4 DEF Measured, Stats
    <3> QED BY <1>8, <3>5 DEF Refresh, TypeOK
  <2>2. CASE ~Measurable
    BY <1>8, <2>2 DEF Refresh, TypeOK
  <2> QED BY <2>1, <2>2
<1> QED BY <1>1, <1>2, <1>3, <1>4, <1>5, <1>6, <1>7, <1>8 DEF Next, WriterStep, WorkerStep

\* Every variable has its type, no buffer grows past its limit, and no rate is
\* divided by zero or by a negative time.
THEOREM StatsTypes == Spec => []TypeOK
BY TypeInit, TypeStep, PTL DEF Spec

-----------------------------------------------------------------------------
(* What the tracker has of a writer's samples: no gaps but those lost.       *)

Has(q, w, n) == \E k \in 1..Len(q) : q[k].by = w /\ q[k].number = n

Ordered(q) ==
  \A i, j \in 1..Len(q) : i < j /\ q[i].by = q[j].by => q[i].number < q[j].number

Present(q, gone) == \A i \in 1..Len(q) : Name(q[i]) \notin gone

Complete(q, gone) ==
  \A i, j \in 1..Len(q), n \in Nat :
    q[i].by = q[j].by /\ q[i].number <= n /\ n <= q[j].number =>
      <<q[i].by, n>> \in gone \/ Has(q, q[i].by, n)

Tracks(q, gone) == Ordered(q) /\ Present(q, gone) /\ Complete(q, gone)

Bounded(q, gone, top) ==
  /\ \A i \in 1..Len(q) : q[i].number <= top[q[i].by]
  /\ \A w \in Writer, n \in Nat : <<w, n>> \in gone => n <= top[w]

UpToDate(q, gone, top) ==
  \A i \in 1..Len(q), n \in Nat :
    q[i].number <= n /\ n <= top[q[i].by] => <<q[i].by, n>> \in gone \/ Has(q, q[i].by, n)

LEMMA SamplesOf ==
  ASSUME NEW q \in Seq(Sample)
  PROVE  /\ Len(q) \in Nat
         /\ \A i \in 1..Len(q) : q[i].by \in Writer /\ q[i].number \in Nat
                                /\ Name(q[i]) = <<q[i].by, q[i].number>>
<1>1. Len(q) \in Nat /\ \A i \in 1..Len(q) : q[i] \in Sample
  BY LenProperties, ElementOfSeq
<1>2. \A s \in Sample : s.by \in Writer /\ s.number \in Nat /\ Name(s) = <<s.by, s.number>>
  BY DEF Sample, Name
<1> QED BY <1>1, <1>2

\* A segment of what was tracked is tracked.
LEMMA SegmentKeeps ==
  ASSUME NEW q \in Seq(Sample), NEW r \in Seq(Sample), NEW d \in Nat, NEW gone,
         Len(r) + d <= Len(q), \A i \in 1..Len(r) : r[i] = q[i + d], Tracks(q, gone)
  PROVE  Tracks(r, gone)
<1>1. /\ Len(r) \in Nat /\ Len(q) \in Nat
      /\ \A i \in 1..Len(r) : i + d \in 1..Len(q)
      /\ \A i \in 1..Len(q) : q[i].by \in Writer /\ q[i].number \in Nat
  BY SamplesOf
<1>2. Ordered(r)
  <2>1. SUFFICES ASSUME NEW i \in 1..Len(r), NEW j \in 1..Len(r), i < j, r[i].by = r[j].by
                 PROVE  r[i].number < r[j].number
    BY DEF Ordered
  <2>2. /\ i + d \in 1..Len(q) /\ j + d \in 1..Len(q) /\ i + d < j + d
        /\ r[i] = q[i + d] /\ r[j] = q[j + d]
    BY <1>1, <2>1
  <2> QED BY <2>1, <2>2 DEF Tracks, Ordered
<1>3. Present(r, gone)
  BY <1>1 DEF Tracks, Present
<1>4. ASSUME NEW i \in 1..Len(r), NEW j \in 1..Len(r), NEW n \in Nat,
             r[i].by = r[j].by, r[i].number <= n, n <= r[j].number, <<r[i].by, n>> \notin gone
      PROVE  Has(r, r[i].by, n)
  <2>1. Has(q, r[i].by, n)
    BY <1>1, <1>4 DEF Tracks, Complete
  <2>2. PICK k \in 1..Len(q) : q[k].by = r[i].by /\ q[k].number = n
    BY <2>1 DEF Has
  <2>3. ~(k < i + d)
    <3>1. SUFFICES ASSUME k < i + d PROVE FALSE
      OBVIOUS
    <3>2. i + d \in 1..Len(q) /\ q[i + d] = r[i]
      BY <1>1
    <3>3. q[k].number < q[i + d].number
      BY <2>2, <3>1, <3>2 DEF Tracks, Ordered
    <3>4. q[k].number \in Nat /\ q[i + d].number \in Nat
      BY <1>1, <3>2
    <3> QED BY <1>4, <2>2, <3>2, <3>3, <3>4
  <2>4. ~(k > j + d)
    BY <1>1, <1>4, <2>2 DEF Tracks, Ordered
  <2>5. k - d \in 1..Len(r) /\ r[k - d] = q[k]
    BY <1>1, <2>3, <2>4
  <2> QED BY <2>2, <2>5 DEF Has
<1>5. Complete(r, gone)
  BY <1>4 DEF Complete
<1> QED BY <1>2, <1>3, <1>5 DEF Tracks

\* A suffix is as up to date as the whole.
LEMMA SuffixUpToDate ==
  ASSUME NEW q \in Seq(Sample), NEW r \in Seq(Sample), NEW d \in Nat, NEW gone, NEW top,
         Len(r) + d = Len(q), \A i \in 1..Len(r) : r[i] = q[i + d], Ordered(q),
         UpToDate(q, gone, top)
  PROVE  UpToDate(r, gone, top)
<1>1. /\ Len(r) \in Nat /\ Len(q) \in Nat
      /\ \A i \in 1..Len(r) : i + d \in 1..Len(q)
      /\ \A i \in 1..Len(q) : q[i].by \in Writer /\ q[i].number \in Nat
  BY SamplesOf
<1>2. ASSUME NEW i \in 1..Len(r), NEW n \in Nat, r[i].number <= n, n <= top[r[i].by],
             <<r[i].by, n>> \notin gone
      PROVE  Has(r, r[i].by, n)
  <2>1. Has(q, r[i].by, n)
    BY <1>1, <1>2 DEF UpToDate
  <2>2. PICK k \in 1..Len(q) : q[k].by = r[i].by /\ q[k].number = n
    BY <2>1 DEF Has
  <2>3. ~(k < i + d)
    <3>1. SUFFICES ASSUME k < i + d PROVE FALSE
      OBVIOUS
    <3>2. i + d \in 1..Len(q) /\ q[i + d] = r[i]
      BY <1>1
    <3>3. q[k].number < q[i + d].number
      BY <2>2, <3>1, <3>2 DEF Ordered
    <3>4. q[k].number \in Nat /\ q[i + d].number \in Nat
      BY <1>1, <3>2
    <3> QED BY <1>2, <2>2, <3>2, <3>3, <3>4
  <2>4. k - d \in 1..Len(r) /\ r[k - d] = q[k]
    BY <1>1, <2>3
  <2> QED BY <2>2, <2>4 DEF Has
<1> QED BY <1>2 DEF UpToDate

\* A sample that drops out of the middle is lost, and nothing else changes.
LEMMA DropKeeps ==
  ASSUME NEW q \in Seq(Sample), NEW r \in Seq(Sample), NEW c \in 1..Len(q), NEW gone, NEW top,
         Len(r) = Len(q) - 1,
         \A i \in 1..Len(r) : r[i] = IF i < c THEN q[i] ELSE q[i + 1],
         Tracks(q, gone), UpToDate(q, gone, top)
  PROVE  LET now == gone \cup {Name(q[c])} IN Tracks(r, now) /\ UpToDate(r, now, top)
<1> DEFINE now   == gone \cup {Name(q[c])}
           at(i) == IF i < c THEN i ELSE i + 1
<1>1. /\ Len(r) \in Nat /\ Len(q) \in Nat
      /\ \A i \in 1..Len(q) : q[i].by \in Writer /\ q[i].number \in Nat
                             /\ Name(q[i]) = <<q[i].by, q[i].number>>
  BY SamplesOf
<1>2. /\ \A i \in 1..Len(r) : at(i) \in 1..Len(q) /\ at(i) # c /\ r[i] = q[at(i)]
      /\ \A i, j \in 1..Len(r) : i < j => at(i) < at(j)
      /\ \A k \in 1..Len(q) : k # c => \E i \in 1..Len(r) : at(i) = k
  <2>1. \A k \in 1..Len(q) : k < c => k \in 1..Len(r) /\ at(k) = k
    BY <1>1
  <2>2. \A k \in 1..Len(q) : k > c => k - 1 \in 1..Len(r) /\ at(k - 1) = k
    BY <1>1
  <2>3. \A k \in 1..Len(q) : k # c => k < c \/ k > c
    BY <1>1
  <2>4. \A k \in 1..Len(q) : k # c => \E i \in 1..Len(r) : at(i) = k
    BY <2>1, <2>2, <2>3
  <2>5. \A i \in 1..Len(r) : at(i) \in 1..Len(q) /\ at(i) # c /\ r[i] = q[at(i)]
    BY <1>1
  <2>6. \A i, j \in 1..Len(r) : i < j => at(i) < at(j)
    BY <1>1
  <2> QED BY <2>4, <2>5, <2>6
<1> HIDE DEF at
<1>3. Ordered(r)
  BY <1>1, <1>2 DEF Tracks, Ordered
<1>4. Present(r, now)
  <2>1. SUFFICES ASSUME NEW i \in 1..Len(r) PROVE Name(r[i]) \notin now
    BY DEF Present
  <2>2. Name(q[at(i)]) # Name(q[c])
    <3>1. at(i) < c \/ at(i) > c
      BY <1>1, <1>2
    <3>2. q[at(i)].by # q[c].by \/ q[at(i)].number # q[c].number
      BY <1>1, <1>2, <3>1 DEF Tracks, Ordered
    <3> QED BY <1>1, <1>2, <3>2
  <2> QED BY <1>2, <2>2 DEF Tracks, Present
<1>5. ASSUME NEW w, NEW n, <<w, n>> \in gone \/ Has(q, w, n)
      PROVE  <<w, n>> \in now \/ Has(r, w, n)
  <2>1. CASE <<w, n>> \in gone
    BY <2>1
  <2>2. CASE Has(q, w, n)
    <3>1. PICK k \in 1..Len(q) : q[k].by = w /\ q[k].number = n
      BY <2>2 DEF Has
    <3>2. CASE k = c
      BY <1>1, <3>1, <3>2
    <3>3. CASE k # c
      <4>1. PICK i \in 1..Len(r) : at(i) = k
        BY <1>2, <3>3
      <4>2. r[i].by = w /\ r[i].number = n
        BY <1>2, <3>1, <4>1
      <4> QED BY <4>2 DEF Has
    <3> QED BY <3>2, <3>3
  <2> QED BY <1>5, <2>1, <2>2
<1>6. Complete(r, now)
  <2>1. SUFFICES ASSUME NEW i \in 1..Len(r), NEW j \in 1..Len(r), NEW n \in Nat,
                        r[i].by = r[j].by, r[i].number <= n, n <= r[j].number
                 PROVE  <<r[i].by, n>> \in now \/ Has(r, r[i].by, n)
    BY DEF Complete
  <2>2. <<r[i].by, n>> \in gone \/ Has(q, r[i].by, n)
    BY <1>2, <2>1 DEF Tracks, Complete
  <2> QED BY <1>5, <2>2
<1>7. UpToDate(r, now, top)
  <2>1. SUFFICES ASSUME NEW i \in 1..Len(r), NEW n \in Nat, r[i].number <= n, n <= top[r[i].by]
                 PROVE  <<r[i].by, n>> \in now \/ Has(r, r[i].by, n)
    BY DEF UpToDate
  <2>2. <<r[i].by, n>> \in gone \/ Has(q, r[i].by, n)
    BY <1>2, <2>1 DEF UpToDate
  <2> QED BY <1>5, <2>2
<1> QED BY <1>3, <1>4, <1>6, <1>7 DEF Tracks

\* Sample s comes last, and is the next of its writer.
Extends(r, q, s) ==
  Len(r) = Len(q) + 1 /\ (\A i \in 1..Len(q) : r[i] = q[i]) /\ r[Len(q) + 1] = s

Counts(now, top, s) ==
  /\ s.number = top[s.by] + 1 /\ now[s.by] = s.number
  /\ \A w \in Writer \ {s.by} : now[w] = top[w]

\* The next sample of a writer continues what there is.
LEMMA AppendKeeps ==
  ASSUME NEW q \in Seq(Sample), NEW s \in Sample, NEW r \in Seq(Sample), NEW gone,
         NEW top \in [Writer -> Nat], NEW now \in [Writer -> Nat],
         Extends(r, q, s), Counts(now, top, s),
         Tracks(q, gone), Bounded(q, gone, top), UpToDate(q, gone, top)
  PROVE  Tracks(r, gone) /\ Bounded(r, gone, now) /\ UpToDate(r, gone, now)
<1>1. /\ Len(r) \in Nat /\ Len(q) \in Nat
      /\ \A i \in 1..Len(q) : q[i].by \in Writer /\ q[i].number \in Nat
                             /\ Name(q[i]) = <<q[i].by, q[i].number>>
      /\ s.by \in Writer /\ s.number \in Nat /\ Name(s) = <<s.by, s.number>>
      /\ Len(r) = Len(q) + 1 /\ (\A i \in 1..Len(q) : r[i] = q[i]) /\ r[Len(q) + 1] = s
      /\ s.number = top[s.by] + 1
  BY SamplesOf DEF Sample, Name, Extends, Counts
<1>2. /\ \A i \in 1..Len(r) : (i \in 1..Len(q) /\ r[i] = q[i]) \/ (i = Len(r) /\ r[i] = s)
      /\ Len(r) \in 1..Len(r) /\ r[Len(r)] = s
      /\ \A i \in 1..Len(q) : i \in 1..Len(r) /\ i < Len(r) /\ r[i] = q[i]
  <2>1. \A i \in 1..Len(r) : i \in 1..Len(q) \/ i = Len(r)
    BY <1>1
  <2>2. Len(r) \in 1..Len(r) /\ r[Len(r)] = s
    BY <1>1
  <2>3. \A i \in 1..Len(q) : i \in 1..Len(r) /\ i < Len(r) /\ r[i] = q[i]
    BY <1>1
  <2>4. ASSUME NEW i \in 1..Len(r)
        PROVE  (i \in 1..Len(q) /\ r[i] = q[i]) \/ (i = Len(r) /\ r[i] = s)
    BY <2>1, <2>2, <2>3
  <2> QED BY <2>2, <2>3, <2>4
<1>3. now[s.by] = s.number /\ \A w \in Writer \ {s.by} : now[w] = top[w]
  BY DEF Counts
<1>4. \A i \in 1..Len(q) : q[i].number <= top[q[i].by] /\ top[q[i].by] <= now[q[i].by]
  <2>1. \A v \in Writer : top[v] \in Nat /\ top[v] <= now[v]
    BY <1>1, <1>3
  <2>2. \A i \in 1..Len(q) : q[i].number <= top[q[i].by]
    BY DEF Bounded
  <2> QED BY <1>1, <2>1, <2>2
<1>5. \A i \in 1..Len(q) : q[i].by = s.by => q[i].number < s.number
  BY <1>1, <1>4
<1>6. Ordered(r)
  <2>1. SUFFICES ASSUME NEW i \in 1..Len(r), NEW j \in 1..Len(r), i < j, r[i].by = r[j].by
                 PROVE  r[i].number < r[j].number
    BY DEF Ordered
  <2>2. i \in 1..Len(q) /\ r[i] = q[i]
    BY <1>1, <1>2, <2>1
  <2>3. CASE j \in 1..Len(q) /\ r[j] = q[j]
    BY <2>1, <2>2, <2>3 DEF Tracks, Ordered
  <2>4. CASE j = Len(r) /\ r[j] = s
    BY <1>5, <2>1, <2>2, <2>4
  <2> QED BY <1>2, <2>3, <2>4
<1>7. Present(r, gone)
  <2>1. Name(s) \notin gone
    <3>1. ~(s.number <= top[s.by])
      BY <1>1
    <3> QED BY <1>1, <3>1 DEF Bounded
  <2> QED BY <1>2, <2>1 DEF Tracks, Present
<1>8. \A w, n : Has(q, w, n) => Has(r, w, n)
  BY <1>2 DEF Has
<1>9. Has(r, s.by, s.number)
  BY <1>2 DEF Has
<1>10. UpToDate(r, gone, now)
  <2>1. SUFFICES ASSUME NEW i \in 1..Len(r), NEW n \in Nat, r[i].number <= n, n <= now[r[i].by]
                 PROVE  <<r[i].by, n>> \in gone \/ Has(r, r[i].by, n)
    BY DEF UpToDate
  <2>2. CASE i \in 1..Len(q) /\ r[i] = q[i] /\ n <= top[q[i].by]
    BY <1>8, <2>1, <2>2 DEF UpToDate
  <2>3. CASE i \in 1..Len(q) /\ r[i] = q[i] /\ ~(n <= top[q[i].by])
    <3>1. q[i].by \in Writer /\ top[q[i].by] \in Nat /\ n <= now[q[i].by]
      BY <1>1, <2>1, <2>3
    <3>2. q[i].by = s.by
      BY <1>3, <2>3, <3>1
    <3>3. n = s.number
      BY <1>1, <1>3, <2>3, <3>1, <3>2
    <3> QED BY <1>9, <2>3, <3>2, <3>3
  <2>4. CASE r[i] = s
    <3>1. n = s.number
      BY <1>1, <1>3, <2>1, <2>4
    <3> QED BY <1>9, <2>4, <3>1
  <2> QED BY <1>2, <2>2, <2>3, <2>4
<1>11. Bounded(r, gone, now)
  <2>1. \A i \in 1..Len(r) : r[i].number <= now[r[i].by]
    <3>1. ASSUME NEW i \in 1..Len(q) PROVE q[i].number <= now[q[i].by]
      BY <1>1, <1>4
    <3> QED BY <1>1, <1>2, <1>3, <3>1
  <2>2. ASSUME NEW w \in Writer, NEW n \in Nat, <<w, n>> \in gone PROVE n <= now[w]
    <3>1. n <= top[w]
      BY <2>2 DEF Bounded
    <3> QED BY <1>1, <1>3, <3>1
  <2> QED BY <2>1, <2>2 DEF Bounded
<1>12. Complete(r, gone)
  <2>1. SUFFICES ASSUME NEW i \in 1..Len(r), NEW j \in 1..Len(r), NEW n \in Nat,
                        r[i].by = r[j].by, r[i].number <= n, n <= r[j].number
                 PROVE  <<r[i].by, n>> \in gone \/ Has(r, r[i].by, n)
    BY DEF Complete
  <2>2. r[j].number <= now[r[j].by] /\ r[j].number \in Nat /\ now[r[j].by] \in Nat
    BY <1>1, <1>2, <1>11 DEF Bounded
  <2>3. n <= now[r[i].by]
    BY <2>1, <2>2
  <2> QED BY <1>10, <2>1, <2>3 DEF UpToDate
<1> QED BY <1>6, <1>7, <1>10, <1>11, <1>12 DEF Tracks

-----------------------------------------------------------------------------
(* The steps.                                                               *)

Stream == window \o history

StreamInv ==
  /\ TypeOK
  /\ Tracks(Stream, lost)
  /\ Bounded(Stream, lost, published)
  /\ reader = "live" => UpToDate(Stream, lost, published)
  /\ reader = "none" => window = <<>> /\ history = <<>>

LEMMA StreamType ==
  ASSUME TypeOK
  PROVE  /\ Stream \in Seq(Sample) /\ Len(window) \in Nat /\ Len(history) \in Nat
         /\ Len(Stream) = Len(window) + Len(history)
         /\ \A i \in 1..(Len(window) + Len(history)) :
              Stream[i] = IF i <= Len(window) THEN window[i] ELSE history[i - Len(window)]
BY ConcatProperties, LenProperties DEF TypeOK, Stream

LEMMA EmptyStream ==
  ASSUME NEW q, q = <<>>, NEW gone, NEW top,
         \A w \in Writer, n \in Nat : <<w, n>> \in gone => n <= top[w]
  PROVE  Tracks(q, gone) /\ Bounded(q, gone, top) /\ UpToDate(q, gone, top)
<1>1. \A i \in 1..Len(q) : FALSE
  OBVIOUS
<1> QED BY <1>1 DEF Tracks, Ordered, Present, Complete, Bounded, UpToDate

LEMMA StreamInit == Init => StreamInv
<1> SUFFICES ASSUME Init PROVE StreamInv
  OBVIOUS
<1>1. window = <<>> /\ history = <<>> /\ lost = {} /\ reader = "none"
  BY DEF Init
<1>2. Stream = <<>>
  BY <1>1 DEF Stream
<1> QED BY <1>1, <1>2, TypeInit, EmptyStream DEF StreamInv

LEMMA ArriveStep ==
  ASSUME StreamInv, NEW w \in Writer, Arrive(w), TypeOK'
  PROVE  StreamInv'
<1> DEFINE s   == NewSample(w)
           all == Append(history, s)
           q   == window \o all
<1>1. /\ s \in Sample /\ s.by = w /\ s.number = published[w] + 1
      /\ all \in Seq(Sample) /\ Len(all) = Len(history) + 1
      /\ \A i \in 1..Len(history) : all[i] = history[i]
      /\ all[Len(history) + 1] = s
  BY NewSampleType DEF NewSample, StreamInv, TypeOK
<1>2. /\ history' = Newest(all, Depth)
      /\ lost' = IF Len(all) > Depth THEN lost \cup {Name(First(all))} ELSE lost
      /\ published' = [published EXCEPT ![w] = @ + 1]
      /\ reader = "live" /\ reader' = "live" /\ window' = window
  BY DEF Arrive
<1>3. /\ Len(window) \in Nat /\ Len(history) \in Nat /\ Len(history) <= Depth /\ Depth \in Nat \ {0}
      /\ window \in Seq(Sample) /\ history \in Seq(Sample)
  BY StreamType, StatsAssumption DEF StreamInv, TypeOK
<1> HIDE DEF s, all
<1>4. /\ q \in Seq(Sample) /\ Len(q) = Len(window) + Len(all)
      /\ \A i \in 1..(Len(window) + Len(all)) :
           q[i] = IF i <= Len(window) THEN window[i] ELSE all[i - Len(window)]
  BY <1>1, <1>3, ConcatProperties
<1> HIDE DEF q
<1>5. /\ Len(q) = Len(Stream) + 1
      /\ \A i \in 1..Len(Stream) : q[i] = Stream[i]
      /\ q[Len(Stream) + 1] = s
  <2>1. Len(q) = Len(Stream) + 1
    <3>1. Len(Stream) = Len(window) + Len(history)
      BY StreamType DEF StreamInv
    <3> QED BY <1>1, <1>3, <1>4, <3>1
  <2>2. ASSUME NEW i \in 1..Len(Stream) PROVE q[i] = Stream[i]
    <3>1. /\ i \in 1..(Len(window) + Len(history)) /\ i \in 1..(Len(window) + Len(all))
          /\ Stream[i] = IF i <= Len(window) THEN window[i] ELSE history[i - Len(window)]
      BY <1>1, <1>3, StreamType DEF StreamInv
    <3>2. ~(i <= Len(window)) => all[i - Len(window)] = history[i - Len(window)]
      BY <1>1, <1>3, <3>1
    <3> QED BY <1>4, <3>1, <3>2
  <2>3. q[Len(Stream) + 1] = s
    <3>1. Len(Stream) = Len(window) + Len(history)
      BY StreamType DEF StreamInv
    <3>2. /\ Len(Stream) + 1 \in 1..(Len(window) + Len(all)) /\ ~(Len(Stream) + 1 <= Len(window))
          /\ Len(Stream) + 1 - Len(window) = Len(history) + 1
      BY <1>1, <1>3, <3>1
    <3> QED BY <1>1, <1>4, <3>2
  <2> QED BY <2>1, <2>2, <2>3
<1>6. Tracks(q, lost) /\ Bounded(q, lost, published') /\ UpToDate(q, lost, published')
  <2>1. Stream \in Seq(Sample) /\ published \in [Writer -> Nat]
    BY StreamType, StatsAssumption DEF StreamInv, TypeOK
  <2>2. published' \in [Writer -> Nat]
    BY <1>2, <2>1
  <2>3. Tracks(Stream, lost) /\ Bounded(Stream, lost, published) /\ UpToDate(Stream, lost, published)
    BY <1>2 DEF StreamInv
  <2>4. Counts(published', published, s)
    BY <1>1, <1>2, <2>1 DEF Counts
  <2>5. s \in Sample /\ q \in Seq(Sample)
    BY <1>1, <1>4
  <2>6. Extends(q, Stream, s)
    BY <1>5 DEF Extends
  <2> QED BY <2>1, <2>2, <2>3, <2>4, <2>5, <2>6, AppendKeeps
<1>7. CASE ~(Len(all) > Depth)
  <2>1. history' = all /\ lost' = lost
    BY <1>1, <1>2, <1>3, <1>7 DEF Newest
  <2>2. Stream' = q
    BY <1>2, <2>1 DEF Stream, q
  <2> QED BY <1>2, <1>6, <2>1, <2>2 DEF StreamInv
<1>8. CASE Len(all) > Depth
  <2> DEFINE c == Len(window) + 1
             r == Stream'
  <2>1. lost' = lost \cup {Name(q[c])} /\ c \in 1..Len(q)
    <3>1. c \in 1..(Len(window) + Len(all)) /\ ~(c <= Len(window)) /\ c - Len(window) = 1
      BY <1>1, <1>3
    <3>2. q[c] = First(all)
      BY <1>4, <3>1 DEF First
    <3> QED BY <1>2, <1>4, <1>8, <3>1, <3>2
  <2>2. /\ Len(history') = Len(all) - 1
        /\ \A i \in 1..(Len(all) - 1) : history'[i] = all[i + 1]
    <3>1. Depth \in Nat /\ Len(all) = Depth + 1
      BY <1>1, <1>3, <1>8
    <3>2. PICK d \in 0..Len(all) :
            /\ Len(history') = Len(all) - d
            /\ \A i \in 1..(Len(all) - d) : history'[i] = all[i + d]
            /\ Len(all) <= Depth + 1 => d <= 1
      BY <1>1, <1>2, <3>1, NewestIsSuffix
    <3>3. Len(history') <= Depth
      BY <1>1, <1>2, <3>1, NewestIsSuffix
    <3>4. d = 1
      BY <3>1, <3>2, <3>3
    <3> QED BY <3>2, <3>4
  <2>3. /\ r \in Seq(Sample) /\ Len(r) = Len(window) + Len(history')
        /\ \A i \in 1..(Len(window) + Len(history')) :
             r[i] = IF i <= Len(window) THEN window[i] ELSE history'[i - Len(window)]
    <3>1. window' \in Seq(Sample) /\ history' \in Seq(Sample) /\ window' = window
      BY <1>2 DEF TypeOK
    <3> QED BY <3>1, ConcatProperties DEF Stream
  <2>4. Len(r) = Len(q) - 1
    BY <1>1, <1>3, <1>4, <2>2, <2>3
  <2>5. ASSUME NEW i \in 1..Len(r) PROVE r[i] = IF i < c THEN q[i] ELSE q[i + 1]
    <3>0. i \in 1..(Len(window) + Len(history')) /\ i \in Nat
      BY <1>3, <2>3
    <3>1. CASE i < c
      <4>1. i <= Len(window) /\ i \in 1..(Len(window) + Len(all))
        BY <1>1, <1>3, <3>0, <3>1
      <4> QED BY <1>4, <2>3, <3>0, <3>1, <4>1
    <3>2. CASE ~(i < c)
      <4>1. /\ ~(i <= Len(window)) /\ ~(i + 1 <= Len(window))
            /\ i + 1 \in 1..(Len(window) + Len(all))
            /\ i - Len(window) \in 1..(Len(all) - 1)
            /\ (i - Len(window)) + 1 = (i + 1) - Len(window)
        BY <1>1, <1>3, <2>2, <3>0, <3>2
      <4>2. r[i] = all[(i - Len(window)) + 1]
        BY <2>2, <2>3, <3>0, <4>1
      <4>3. q[i + 1] = all[(i + 1) - Len(window)]
        BY <1>4, <4>1
      <4> QED BY <3>2, <4>1, <4>2, <4>3
    <3> QED BY <3>1, <3>2
  <2> HIDE DEF r, c
  <2>6. Tracks(r, lost') /\ UpToDate(r, lost', published')
    BY <1>4, <1>6, <2>1, <2>3, <2>4, <2>5, DropKeeps
  <2>7. Bounded(r, lost', published')
    <3>1. /\ \A i \in 1..Len(q) : q[i].by \in Writer /\ q[i].number \in Nat
                                 /\ Name(q[i]) = <<q[i].by, q[i].number>>
          /\ Len(q) \in Nat /\ Len(r) \in Nat
      BY <1>4, <2>3, SamplesOf
    <3>2. \A i \in 1..Len(r) : \E k \in 1..Len(q) : r[i] = q[k]
      <4>1. \A i \in 1..Len(r) : i \in 1..Len(q) /\ i + 1 \in 1..Len(q)
        BY <2>4, <3>1
      <4> QED BY <2>5, <4>1
    <3>3. \A i \in 1..Len(r) : r[i].number <= published'[r[i].by]
      BY <1>6, <3>2 DEF Bounded
    <3>4. ASSUME NEW v \in Writer, NEW n \in Nat, <<v, n>> \in lost' PROVE n <= published'[v]
      <4>1. CASE <<v, n>> \in lost
        BY <1>6, <4>1 DEF Bounded
      <4>2. CASE <<v, n>> = Name(q[c])
        <5>1. q[c].by = v /\ q[c].number = n
          BY <2>1, <3>1, <4>2
        <5> QED BY <1>6, <2>1, <5>1 DEF Bounded
      <4> QED BY <2>1, <3>4, <4>1, <4>2
    <3> QED BY <3>3, <3>4 DEF Bounded
  <2> QED BY <1>2, <2>6, <2>7 DEF StreamInv, r
<1> QED BY <1>7, <1>8

\* A sample that is lost is one the tracker need not have.
LEMMA LoseStep ==
  ASSUME StreamInv, NEW w \in Writer, Lose(w), TypeOK'
  PROVE  StreamInv'
<1>1. /\ lost' = lost \cup {<<w, published[w] + 1>>}
      /\ published' = [published EXCEPT ![w] = @ + 1]
      /\ UNCHANGED <<window, history, reader>>
  BY DEF Lose
<1>2. /\ Stream' = Stream /\ Stream \in Seq(Sample) /\ published \in [Writer -> Nat]
      /\ published'[w] = published[w] + 1 /\ \A v \in Writer \ {w} : published'[v] = published[v]
  BY <1>1, StreamType, StatsAssumption DEF Stream, StreamInv, TypeOK
<1>3. /\ Len(Stream) \in Nat
      /\ \A i \in 1..Len(Stream) : Stream[i].by \in Writer /\ Stream[i].number \in Nat
                                 /\ Name(Stream[i]) = <<Stream[i].by, Stream[i].number>>
                                 /\ Stream[i].number <= published[Stream[i].by]
  BY <1>2, SamplesOf DEF StreamInv, Bounded
<1>4. Ordered(Stream)
  BY DEF StreamInv, Tracks
<1>5. Present(Stream, lost')
  <2>1. SUFFICES ASSUME NEW i \in 1..Len(Stream) PROVE Name(Stream[i]) \notin lost'
    BY DEF Present
  <2>2. Name(Stream[i]) \notin lost
    BY DEF StreamInv, Tracks, Present
  <2>3. Name(Stream[i]) # <<w, published[w] + 1>>
    <3>1. SUFFICES ASSUME Stream[i].by = w, Stream[i].number = published[w] + 1 PROVE FALSE
      BY <1>3
    <3>2. published[w] \in Nat /\ Stream[i].number <= published[w]
      BY <1>2, <1>3, <3>1
    <3> QED BY <3>1, <3>2
  <2> QED BY <1>1, <2>2, <2>3
<1>6. Complete(Stream, lost')
  BY <1>1 DEF StreamInv, Tracks, Complete
<1>7. Bounded(Stream, lost', published')
  <2>1. \A v \in Writer : published[v] \in Nat /\ published'[v] \in Nat /\ published[v] <= published'[v]
    BY <1>2
  <2>2. \A i \in 1..Len(Stream) : Stream[i].number <= published'[Stream[i].by]
    BY <1>3, <2>1
  <2>3. ASSUME NEW v \in Writer, NEW n \in Nat, <<v, n>> \in lost' PROVE n <= published'[v]
    <3>1. CASE <<v, n>> \in lost
      <4>1. n <= published[v]
        BY <3>1 DEF StreamInv, Bounded
      <4> QED BY <2>1, <4>1
    <3>2. CASE <<v, n>> = <<w, published[w] + 1>>
      BY <1>2, <2>1, <3>2
    <3> QED BY <1>1, <2>3, <3>1, <3>2
  <2> QED BY <2>2, <2>3 DEF Bounded
<1>8. ASSUME reader = "live" PROVE UpToDate(Stream, lost', published')
  <2>1. SUFFICES ASSUME NEW i \in 1..Len(Stream), NEW n \in Nat,
                        Stream[i].number <= n, n <= published'[Stream[i].by]
                 PROVE  <<Stream[i].by, n>> \in lost' \/ Has(Stream, Stream[i].by, n)
    BY DEF UpToDate
  <2>2. CASE n <= published[Stream[i].by]
    BY <1>1, <1>8, <2>1, <2>2 DEF StreamInv, UpToDate
  <2>3. CASE ~(n <= published[Stream[i].by])
    <3>1. Stream[i].by = w
      BY <1>2, <1>3, <2>1, <2>3
    <3>2. n = published[w] + 1
      BY <1>2, <2>1, <2>3, <3>1
    <3> QED BY <1>1, <3>1, <3>2
  <2> QED BY <2>2, <2>3
<1>9. reader' = "none" => window' = <<>> /\ history' = <<>>
  BY <1>1 DEF StreamInv
<1>10. StreamInv' <=> /\ TypeOK'
                      /\ Tracks(Stream', lost')
                      /\ Bounded(Stream', lost', published')
                      /\ reader' = "live" => UpToDate(Stream', lost', published')
                      /\ reader' = "none" => window' = <<>> /\ history' = <<>>
  BY DEF StreamInv
<1> QED BY <1>1, <1>2, <1>4, <1>5, <1>6, <1>7, <1>8, <1>9, <1>10 DEF Tracks

\* The worker moves a batch into the window, which may lose its oldest.
LEMMA TakeStep ==
  ASSUME StreamInv, Take, TypeOK'
  PROVE  StreamInv'
<1> DEFINE batch == SubSeq(history, 1, Taken)
           all   == window \o batch
<1>1. /\ window' = Newest(all, Capacity)
      /\ history' = Rest(Taken)
      /\ history # <<>> /\ UNCHANGED <<lost, published, reader>>
  BY DEF Take, Taken
<1>2. /\ window \in Seq(Sample) /\ batch \in Seq(Sample) /\ Rest(Taken) \in Seq(Sample)
      /\ batch \o Rest(Taken) = history
  BY <1>1, TakenSplits DEF StreamInv, TypeOK
<1>3. all \in Seq(Sample)
  BY <1>2, ConcatProperties
<1>4. Stream = all \o Rest(Taken)
  <2> HIDE DEF batch
  <2>1. (window \o batch) \o Rest(Taken) = window \o (batch \o Rest(Taken))
    <3>1. \A x, y, z \in Seq(Sample) : (x \o y) \o z = x \o (y \o z)
      BY ConcatAssociative
    <3> QED BY <1>2, <3>1
  <2> QED BY <1>2, <2>1 DEF Stream
<1> HIDE DEF batch, all
<1>5. PICK d \in 0..Len(all) :
        /\ Len(window') = Len(all) - d
        /\ \A i \in 1..(Len(all) - d) : window'[i] = all[i + d]
  BY <1>1, <1>3, NewestIsSuffix, StatsAssumption
<1>6. Len(all) \in Nat /\ Len(Rest(Taken)) \in Nat /\ window' \in Seq(Sample)
  BY <1>2, <1>3, LenProperties DEF TypeOK
<1>7. /\ Len(Stream) = Len(all) + Len(Rest(Taken))
      /\ \A i \in 1..(Len(all) + Len(Rest(Taken))) :
           Stream[i] = IF i <= Len(all) THEN all[i] ELSE Rest(Taken)[i - Len(all)]
  BY <1>2, <1>3, <1>4, ConcatProperties
<1>8. /\ Stream' \in Seq(Sample) /\ Len(Stream') = Len(window') + Len(Rest(Taken))
      /\ \A i \in 1..(Len(window') + Len(Rest(Taken))) :
           Stream'[i] = IF i <= Len(window') THEN window'[i] ELSE Rest(Taken)[i - Len(window')]
  BY <1>1, <1>2, <1>6, ConcatProperties DEF Stream
<1> DEFINE r == Stream'
<1>9. Len(r) + d = Len(Stream) /\ d \in Nat
  BY <1>5, <1>6, <1>7, <1>8
<1>10. ASSUME NEW i \in 1..Len(r) PROVE r[i] = Stream[i + d]
  <2>0. i \in 1..(Len(window') + Len(Rest(Taken))) /\ i + d \in 1..(Len(all) + Len(Rest(Taken)))
    BY <1>5, <1>6, <1>8
  <2>1. CASE i <= Len(window')
    <3>1. i \in 1..(Len(all) - d) /\ i + d <= Len(all)
      BY <1>5, <1>6, <2>0, <2>1
    <3> QED BY <1>5, <1>7, <1>8, <2>0, <2>1, <3>1
  <2>2. CASE ~(i <= Len(window'))
    <3>1. ~(i + d <= Len(all)) /\ i - Len(window') = (i + d) - Len(all)
      BY <1>5, <1>6, <2>0, <2>2
    <3> QED BY <1>7, <1>8, <2>0, <2>2, <3>1
  <2> QED BY <2>1, <2>2
<1>11. Stream \in Seq(Sample) /\ r \in Seq(Sample)
  BY <1>8, StreamType DEF StreamInv
<1> HIDE DEF r
<1>12. Tracks(r, lost)
  <2>1. Len(r) + d <= Len(Stream)
    BY <1>9, <1>11, SamplesOf
  <2> QED BY <1>9, <1>10, <1>11, <2>1, SegmentKeeps DEF StreamInv
<1>13. reader = "live" => UpToDate(r, lost, published)
  BY <1>9, <1>10, <1>11, SuffixUpToDate DEF StreamInv, Tracks
<1>14. Bounded(r, lost, published)
  <2>1. \A i \in 1..Len(r) : i + d \in 1..Len(Stream)
    BY <1>9, <1>11, SamplesOf
  <2> QED BY <1>10, <2>1 DEF StreamInv, Bounded
<1>15. reader # "none"
  BY <1>1 DEF StreamInv
<1> QED BY <1>1, <1>12, <1>13, <1>14, <1>15 DEF StreamInv, r

\* Without the reader only what is in the window is tracked.
LEMMA DeleteStep ==
  ASSUME StreamInv, DeleteParticipant, TypeOK'
  PROVE  StreamInv'
<1>1. history' = <<>> /\ reader' = "dead" /\ UNCHANGED <<window, lost, published>>
  BY DEF DeleteParticipant
<1>2. window \in Seq(Sample)
  BY DEF StreamInv, TypeOK
<1>3. Stream' = window
  BY <1>1, <1>2, ConcatEmptySeq DEF Stream
<1>4. /\ Stream \in Seq(Sample) /\ Len(window) \in Nat /\ Len(window) + 0 <= Len(Stream)
      /\ \A i \in 1..Len(window) : i \in 1..Len(Stream) /\ window[i] = Stream[i] /\ window[i] = Stream[i + 0]
  <2>1. /\ Stream \in Seq(Sample) /\ Len(window) \in Nat /\ Len(history) \in Nat
        /\ Len(Stream) = Len(window) + Len(history)
        /\ \A i \in 1..(Len(window) + Len(history)) :
             Stream[i] = IF i <= Len(window) THEN window[i] ELSE history[i - Len(window)]
    BY StreamType DEF StreamInv
  <2>2. \A i \in 1..Len(window) : i \in 1..(Len(window) + Len(history)) /\ i <= Len(window) /\ i + 0 = i
    BY <2>1
  <2> QED BY <2>1, <2>2
<1>5. Tracks(window, lost)
  <2>1. 0 \in Nat /\ Tracks(Stream, lost)
    BY DEF StreamInv
  <2> QED BY <1>2, <1>4, <2>1, SegmentKeeps
<1>6. Bounded(window, lost, published)
  BY <1>4 DEF StreamInv, Bounded
<1> QED BY <1>1, <1>3, <1>5, <1>6 DEF StreamInv

LEMMA StreamStep == StreamInv /\ [Next]_vars => StreamInv'
<1> SUFFICES ASSUME StreamInv, [Next]_vars PROVE StreamInv'
  OBVIOUS
<1>1. TypeOK'
  BY TypeStep DEF StreamInv
<1>2. CASE Untrack \/ Clear
  <2>1. window' = <<>> /\ history' = <<>> /\ reader' = "none" /\ UNCHANGED <<lost, published>>
    BY <1>2 DEF Untrack, Clear, Erase
  <2>2. Stream' = <<>>
    BY <2>1 DEF Stream
  <2>3. \A w \in Writer, n \in Nat : <<w, n>> \in lost => n <= published[w]
    BY DEF StreamInv, Bounded
  <2>4. Tracks(Stream', lost) /\ Bounded(Stream', lost, published)
    BY <2>2, <2>3, EmptyStream
  <2> QED BY <1>1, <2>1, <2>4 DEF StreamInv
<1>3. CASE Track
  <2>1. window = <<>> /\ history = <<>> /\ reader' = "live" /\ UNCHANGED <<window, history, lost, published>>
    BY <1>3 DEF Track, StreamInv
  <2>2. Stream' = Stream /\ Stream = <<>>
    BY <2>1 DEF Stream
  <2>3. \A w \in Writer, n \in Nat : <<w, n>> \in lost => n <= published[w]
    BY DEF StreamInv, Bounded
  <2>4. Tracks(Stream, lost) /\ Bounded(Stream, lost, published) /\ UpToDate(Stream, lost, published)
    BY <2>2, <2>3, EmptyStream
  <2> QED BY <1>1, <2>1, <2>2, <2>4 DEF StreamInv
<1>4. CASE Tick \/ Wake \/ Refresh \/ UNCHANGED vars
  <2>1. UNCHANGED <<window, history, lost, published, reader>>
    BY <1>4 DEF Tick, Wake, Refresh, vars
  <2>2. Stream' = Stream
    BY <2>1 DEF Stream
  <2> QED BY <1>1, <2>1, <2>2 DEF StreamInv
<1> QED BY <1>1, <1>2, <1>3, <1>4, ArriveStep, LoseStep, TakeStep, DeleteStep
    DEF Next, WriterStep, CallStep, WorkerStep

-----------------------------------------------------------------------------
(* The rate.                                                                *)

\* The samples of one writer, from first to last, are those there are and those
\* lost between them.
LEMMA IntervalsAreCounted ==
  ASSUME NEW q \in Seq(Sample), NEW gone, Tracks(q, gone), Len(q) >= 2,
         NEW w \in Writer, \A i \in 1..Len(q) : q[i].by = w
  PROVE  LET a == q[1].number
             b == q[Len(q)].number
         IN  Len(q) - 1 = b - a - Cardinality({n \in a..b : <<w, n>> \in gone})
<1> DEFINE a == q[1].number
           b == q[Len(q)].number
           G == {n \in a..b : <<w, n>> \in gone}
           T == {n \in a..b : <<w, n>> \notin gone}
           f == [i \in 1..Len(q) |-> q[i].number]
<1>1. /\ Len(q) \in Nat /\ 1 \in 1..Len(q) /\ Len(q) \in 1..Len(q)
      /\ \A i \in 1..Len(q) : q[i].number \in Nat /\ Name(q[i]) = <<w, q[i].number>>
  BY SamplesOf
<1>2. \A i, j \in 1..Len(q) : i < j => q[i].number < q[j].number
  BY DEF Tracks, Ordered
<1>3. \A i \in 1..Len(q) : q[i].number \in T
  <2>1. SUFFICES ASSUME NEW i \in 1..Len(q) PROVE q[i].number \in T
    OBVIOUS
  <2>2. a <= q[i].number
    <3>1. i = 1 \/ 1 < i
      BY <1>1
    <3> QED BY <1>1, <1>2, <3>1
  <2>3. q[i].number <= b
    <3>1. i = Len(q) \/ i < Len(q)
      BY <1>1
    <3> QED BY <1>1, <1>2, <3>1
  <2>4. <<w, q[i].number>> \notin gone
    BY <1>1 DEF Tracks, Present
  <2>5. a \in Nat /\ b \in Nat /\ q[i].number \in Nat
    BY <1>1
  <2> HIDE DEF a, b
  <2>6. q[i].number \in a..b
    BY <2>2, <2>3, <2>5
  <2> QED BY <2>4, <2>6
<1>4. \A i, j \in 1..Len(q) : f[i] = f[j] => i = j
  <2>1. SUFFICES ASSUME NEW i \in 1..Len(q), NEW j \in 1..Len(q), q[i].number = q[j].number
                 PROVE  i = j
    OBVIOUS
  <2>2. i < j \/ j < i \/ i = j
    BY <1>1
  <2> QED BY <1>1, <1>2, <2>1, <2>2
<1>5. \A n \in T : \E i \in 1..Len(q) : f[i] = n
  <2>1. SUFFICES ASSUME NEW n \in T PROVE \E i \in 1..Len(q) : q[i].number = n
    OBVIOUS
  <2>2. n \in Nat /\ a <= n /\ n <= b /\ <<w, n>> \notin gone
    BY <1>1
  <2>3. Has(q, w, n)
    BY <1>1, <2>2 DEF Tracks, Complete
  <2> QED BY <2>3 DEF Has
<1>6. ExistsBijection(1..Len(q), T)
  <2>1. f \in Bijection(1..Len(q), T)
    BY <1>3, <1>4, <1>5 DEF Bijection, Injection, Surjection, IsInjective
  <2> QED BY <2>1 DEF ExistsBijection
<1>7. Cardinality(T) = Len(q)
  BY <1>1, <1>6, FS_CountingElements
<1>8. a \in Nat /\ b \in Nat /\ a < b
  BY <1>1, <1>2
<1> HIDE DEF a, b
<1>9. IsFiniteSet(a..b) /\ Cardinality(a..b) = b - a + 1
  BY <1>8, FS_Interval
<1>10. IsFiniteSet(G) /\ IsFiniteSet(T)
  BY <1>9, FS_Subset
<1>11. T \cup G = a..b /\ T \cap G = {}
  OBVIOUS
<1>12. Cardinality(T \cup G) = Cardinality(T) + Cardinality(G) - Cardinality(T \cap G)
  BY <1>10, FS_Union
<1>13. Cardinality(T \cap G) = 0 /\ Cardinality(G) \in Nat
  BY <1>10, <1>11, FS_EmptySet, FS_CardinalityType
<1> HIDE DEF G, T, f
<1>14. Len(q) - 1 = b - a - Cardinality(G)
  <2>1. b - a + 1 = Len(q) + Cardinality(G) - 0
    BY <1>7, <1>9, <1>11, <1>12, <1>13
  <2> QED BY <1>1, <1>8, <1>13, <2>1
<1> QED BY <1>14 DEF a, b, G

RateStep ==
  stats' # stats /\ stats'.available
    /\ (\A i \in 1..Len(window) : window[i].by = First(window).by) =>
  stats'.intervals = Last(window).number - First(window).number
                       - Cardinality(LostBetween(First(window), Last(window)))

LEMMA RateOfStep == StreamInv /\ [Next]_vars => [RateStep]_vars
<1> SUFFICES ASSUME StreamInv, Next, stats' # stats, stats'.available,
                    \A i \in 1..Len(window) : window[i].by = First(window).by
             PROVE  stats'.intervals = Last(window).number - First(window).number
                                         - Cardinality(LostBetween(First(window), Last(window)))
  BY DEF RateStep
<1>1. Refresh
  <2>1. CASE Untrack \/ Clear
    BY <2>1 DEF Untrack, Clear, Erase, NoStats
  <2>2. CASE Tick \/ WriterStep \/ Track \/ DeleteParticipant \/ Wake \/ Take
    BY <2>2 DEF Tick, WriterStep, Lose, Arrive, Track, DeleteParticipant, Wake, Take
  <2> QED BY <2>1, <2>2 DEF Next, CallStep, WorkerStep
<1>2. Measurable /\ history = <<>> /\ stats'.intervals = Len(window) - 1
  BY <1>1 DEF Refresh, Measured
<1>3. window \in Seq(Sample) /\ Len(window) >= 2 /\ Stream = window
  BY <1>2, ConcatEmptySeq DEF Measurable, Stream, StreamInv, TypeOK
<1>4. Tracks(window, lost)
  BY <1>3 DEF StreamInv
<1>5. First(window).by \in Writer
  <2>1. 1 \in 1..Len(window)
    BY <1>3, SamplesOf
  <2> QED BY <1>3, <2>1, SamplesOf DEF First
<1> QED BY <1>2, <1>3, <1>4, <1>5, IntervalsAreCounted DEF First, Last, LostBetween

\* However the writes of a sole writer fall between the takes of a round, and
\* whatever the history and the window drop, its rate counts exactly the samples
\* that reached the reader.
THEOREM RateCorrect == Spec => RateIsTrue
<1>1. Spec => []StreamInv
  BY StreamInit, StreamStep, PTL DEF Spec
<1>2. Spec => [][RateStep]_vars
  BY <1>1, RateOfStep, PTL DEF Spec
<1>3. [][RateStep]_vars => RateIsTrue
  BY DEF RateStep, RateIsTrue
<1> QED BY <1>2, <1>3

-----------------------------------------------------------------------------
(* What Drains rests on.                                                    *)

\* In a round each dds_takecdr leaves the reader fewer samples, and the round
\* ends with the one that found none; while no sample arrives, nothing else
\* that happens gives the reader a sample or ends the round.
RoundDrains ==
  [][round /\ ~(\E w \in Writer : Arrive(w)) =>
       /\ Len(history') <= Len(history)
       /\ WorkerStep => Len(history') < Len(history) \/ (~round' /\ history' = <<>>)
       /\ ~round' => WorkerStep]_vars

LEMMA RoundStep ==
  ASSUME TypeOK, Next, round, ~(\E w \in Writer : Arrive(w))
  PROVE  /\ Len(history') <= Len(history)
         /\ WorkerStep => Len(history') < Len(history) \/ (~round' /\ history' = <<>>)
         /\ ~round' => WorkerStep
<1>1. Len(history) \in Nat /\ Len(<<>>) = 0
  BY LenProperties DEF TypeOK
<1>2. Take => Len(history') < Len(history)
  <2>1. SUFFICES ASSUME Take PROVE Len(history') < Len(history)
    OBVIOUS
  <2>2. history' = Rest(Taken) /\ history # <<>>
    BY <2>1 DEF Take, Taken
  <2> QED BY <1>1, <2>2, TakenSplits
<1>3. Refresh => history' = <<>> /\ history = <<>> /\ ~round'
  BY DEF Refresh
<1>4. ~Wake
  BY DEF Wake
<1>5. Tick \/ (\E w \in Writer : Lose(w)) \/ CallStep =>
        round' = round /\ history' \in {history, <<>>}
  BY DEF Tick, Lose, CallStep, Track, Untrack, DeleteParticipant, Clear, Erase
<1>6. WorkerStep => Take \/ Refresh
  BY <1>4 DEF WorkerStep
<1>7. WorkerStep \/ Tick \/ (\E w \in Writer : Lose(w)) \/ CallStep
  BY DEF Next, WriterStep
<1>8. Len(history') <= Len(history)
  <2>1. CASE Take
    <3>1. Len(history') < Len(history) /\ Len(history') \in Nat
      <4>1. TypeOK'
        BY TypeStep
      <4> QED BY <1>2, <2>1, <4>1, LenProperties DEF TypeOK
    <3> QED BY <1>1, <3>1
  <2>2. CASE history' = <<>>
    BY <1>1, <2>2
  <2>3. CASE history' = history
    BY <1>1, <2>3
  <2>4. Take \/ history' \in {history, <<>>}
    BY <1>3, <1>5, <1>6, <1>7
  <2> QED BY <2>1, <2>2, <2>3, <2>4
<1>9. WorkerStep => Len(history') < Len(history) \/ (~round' /\ history' = <<>>)
  BY <1>2, <1>3, <1>6
<1>10. ~round' => WorkerStep
  BY <1>5, <1>7
<1> QED BY <1>8, <1>9, <1>10

\* Once the writers pause, the samples a live reader holds are taken in finitely
\* many steps of the worker, whatever calls are made meanwhile: only that the
\* worker runs is left to fairness.
THEOREM DrainsInARound == Spec => RoundDrains
<1>1. TypeOK /\ [Next]_vars =>
        [round /\ ~(\E w \in Writer : Arrive(w)) =>
           /\ Len(history') <= Len(history)
           /\ WorkerStep => Len(history') < Len(history) \/ (~round' /\ history' = <<>>)
           /\ ~round' => WorkerStep]_vars
  BY RoundStep
<1> QED BY <1>1, StatsTypes, PTL DEF Spec, RoundDrains
=============================================================================
