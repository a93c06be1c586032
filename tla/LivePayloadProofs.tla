--------------------------- MODULE LivePayloadProofs ---------------------------
(***************************************************************************)
(* Proofs about LivePayload, for any history depth, any number of samples  *)
(* and any number of images in conversion at once.                         *)
(***************************************************************************)
EXTENDS LivePayload, TLAPS

\* The reader holds samples in order of publication, newer than the decoded
\* one, and both halves of what is decoded come from one sample.
InOrder ==
  /\ latestBlob = latestJson
  /\ latestJson <= sent
  /\ \A i \in 1..Len(history) : latestJson <= history[i] /\ history[i] <= sent
  /\ \A i, k \in 1..Len(history) : i <= k => history[i] <= history[k]

\* A latestPayload call under way belongs to an open viewer, and what it has
\* read is not newer than what it is going to read.
CallUnderWay ==
  /\ jsonRead # 0 => open /\ token < MaxDecodes /\ jsonRead <= latestBlob
  /\ ~open => history = <<>> /\ latestJson = 0

\* Conversions carry different tokens, none later than the last; the one that
\* ended after the viewer was closed carried the last.
TokensDiffer ==
  /\ \A j \in jobs : j.token <= token /\ j.token # decoded.token
  /\ \A j, k \in jobs : j.token = k.token => j = k
  /\ decoded.token <= token
  /\ ~open /\ images # {} => decoded.token = token

Before(j, k) == j.blob <= k.json

\* A later token begins where an earlier one ended or after it, the call under
\* way included.
TokensInOrder ==
  /\ \A j, k \in jobs : j.token < k.token => Before(j, k)
  /\ \A k \in jobs : decoded.token < k.token => Before(decoded, k)
  /\ \A j \in jobs \cup {decoded} :
       /\ j.json <= j.blob /\ j.blob <= sent
       /\ open => j.blob <= latestJson
       /\ jsonRead # 0 => j.blob <= jsonRead

PayloadInv ==
  TypeOK /\ InOrder /\ CallUnderWay /\ TokensDiffer /\ TokensInOrder /\ OneImage

-----------------------------------------------------------------------------
\* KEEP_LAST: appending the newest sample keeps the rest in order.
LEMMA KeepLastInOrder ==
  ASSUME TypeOK, InOrder, sent < MaxSamples
  PROVE  LET new == KeepLast(Append(history, sent + 1)) IN
         /\ new \in Seq(Sample)
         /\ \A i \in 1..Len(new) : latestJson <= new[i] /\ new[i] <= sent + 1
         /\ \A i, k \in 1..Len(new) : i <= k => new[i] <= new[k]
<1> DEFINE all == Append(history, sent + 1)
<1>1. /\ history \in Seq(Sample) /\ sent \in Nat /\ sent + 1 \in Sample
      /\ latestJson \in Nat /\ Len(history) \in Nat
  BY PayloadAssumption DEF TypeOK, Sample
<1>2. /\ all \in Seq(Sample)
      /\ Len(all) = Len(history) + 1
      /\ \A i \in 1..Len(history) : all[i] = history[i]
      /\ all[Len(history) + 1] = sent + 1
  BY <1>1
<1>3. \A i \in 1..Len(history) : history[i] \in Sample /\ history[i] \in Nat
  <2>1. \A i \in 1..Len(history) : history[i] \in Sample
    BY <1>1
  <2>2. \A s \in Sample : s \in Nat
    BY DEF Sample
  <2> QED BY <2>1, <2>2
<1>4. \A i \in 1..Len(all) : all[i] \in Nat /\ latestJson <= all[i] /\ all[i] <= sent + 1
  BY <1>1, <1>2, <1>3 DEF InOrder
<1>5. \A i, k \in 1..Len(all) : i <= k => all[i] <= all[k]
  BY <1>1, <1>2, <1>3, <1>4 DEF InOrder
<1> HIDE DEF all
<1>6. CASE Len(all) <= Depth
  BY <1>2, <1>4, <1>5, <1>6 DEF KeepLast, all
<1>7. CASE ~(Len(all) <= Depth)
  <2>1. /\ Tail(all) \in Seq(Sample)
        /\ Len(Tail(all)) = Len(history)
        /\ \A i \in 1..Len(history) : Tail(all)[i] = all[i + 1]
    BY <1>1, <1>2
  <2>2. \A i \in 1..Len(history) : i + 1 \in 1..Len(all)
    BY <1>1, <1>2
  <2>3. \A i, k \in 1..Len(history) : i <= k => i + 1 <= k + 1
    BY <1>1
  <2>4. \A i \in 1..Len(Tail(all)) : latestJson <= Tail(all)[i] /\ Tail(all)[i] <= sent + 1
    BY <1>4, <2>1, <2>2
  <2>5. \A i, k \in 1..Len(Tail(all)) : i <= k => Tail(all)[i] <= Tail(all)[k]
    BY <1>5, <2>1, <2>2, <2>3
  <2> QED BY <1>7, <2>1, <2>4, <2>5 DEF KeepLast, all
<1> QED BY <1>6, <1>7

LEMMA PayloadInit == Init => PayloadInv
BY PayloadAssumption DEF Init, PayloadInv, TypeOK, InOrder, CallUnderWay, TokensDiffer,
   TokensInOrder, OneImage, NoJob, Sample

-----------------------------------------------------------------------------
(* The core.                                                                *)

\* A step of the core leaves the controller alone and its samples only get
\* newer.
LEMMA CoreFrame ==
  ASSUME PayloadInv, TypeOK', InOrder',
         UNCHANGED <<open, jsonRead, token, jobs, decoded, images>>,
         sent <= sent', latestJson <= latestJson', latestBlob <= latestBlob',
         ~open => history' = <<>> /\ latestJson' = 0
  PROVE  PayloadInv'
<1>1. CallUnderWay'
  BY DEF PayloadInv, TypeOK, CallUnderWay
<1>2. TokensDiffer' /\ OneImage'
  BY DEF PayloadInv, TokensDiffer, OneImage
<1>3. TokensInOrder'
  <2>1. \A j \in jobs \cup {decoded} : j.json \in Nat /\ j.blob \in Nat
    BY DEF PayloadInv, TypeOK, Job, NoJob, Sample
  <2>2. sent \in Nat /\ sent' \in Nat /\ latestJson \in Nat /\ latestJson' \in Nat
    BY DEF PayloadInv, TypeOK
  <2>3. \A j \in jobs \cup {decoded} :
          /\ j.json <= j.blob /\ j.blob <= sent
          /\ open => j.blob <= latestJson
          /\ jsonRead # 0 => j.blob <= jsonRead
    BY DEF PayloadInv, TokensInOrder
  <2>4. \A j \in jobs \cup {decoded} : j.blob <= sent' /\ (open => j.blob <= latestJson')
    BY <2>1, <2>2, <2>3
  <2> QED BY <2>3, <2>4 DEF PayloadInv, TokensInOrder, Before
<1> QED BY <1>1, <1>2, <1>3 DEF PayloadInv

LEMMA PublishStep == ASSUME PayloadInv, Publish PROVE PayloadInv'
<1>1. sent \in Nat /\ sent < MaxSamples /\ sent' = sent + 1 /\ sent' \in 0..MaxSamples
  BY PayloadAssumption DEF PayloadInv, TypeOK, Publish
<1>2. UNCHANGED <<latestJson, latestBlob, open, jsonRead, token, jobs, decoded, images>>
  BY DEF Publish
<1>5. sent <= sent' /\ latestJson <= latestJson' /\ latestBlob <= latestBlob'
  BY <1>1, <1>2 DEF PayloadInv, TypeOK
<1>3. CASE open
  <2>1. history' = KeepLast(Append(history, sent + 1))
    BY <1>3 DEF Publish
  <2>2. /\ history' \in Seq(Sample)
        /\ \A i \in 1..Len(history') : latestJson <= history'[i] /\ history'[i] <= sent'
        /\ \A i, k \in 1..Len(history') : i <= k => history'[i] <= history'[k]
    BY <1>1, <2>1, KeepLastInOrder DEF PayloadInv
  <2>3. TypeOK'
    BY <1>1, <1>2, <2>2 DEF PayloadInv, TypeOK
  <2>4. InOrder'
    BY <1>1, <1>2, <2>2 DEF PayloadInv, TypeOK, InOrder
  <2> QED BY <1>2, <1>5, <1>3, <2>3, <2>4, CoreFrame
<1>4. CASE ~open
  <2>1. history' = history /\ history = <<>>
    BY <1>4 DEF Publish, PayloadInv, CallUnderWay
  <2>2. TypeOK'
    BY <1>1, <1>2, <2>1 DEF PayloadInv, TypeOK
  <2>3. InOrder'
    BY <1>1, <1>2, <2>1 DEF PayloadInv, TypeOK, InOrder
  <2>4. latestJson' = 0
    BY <1>2, <1>4 DEF PayloadInv, CallUnderWay
  <2> QED BY <1>2, <1>5, <1>4, <2>1, <2>2, <2>3, <2>4, CoreFrame
<1> QED BY <1>3, <1>4

LEMMA DrainStep == ASSUME PayloadInv, Drain PROVE PayloadInv'
<1>1. /\ history \in Seq(Sample) /\ history # <<>>
      /\ history' = <<>>
      /\ latestJson' = history[Len(history)] /\ latestBlob' = history[Len(history)]
      /\ UNCHANGED <<sent, open, jsonRead, token, jobs, decoded, images>>
  BY DEF PayloadInv, TypeOK, Drain, Decoded
<1>2. Len(history) \in 1..Len(history)
  BY <1>1
<1>3. /\ history[Len(history)] \in 1..MaxSamples
      /\ latestJson <= history[Len(history)] /\ history[Len(history)] <= sent
  <2>1. history[Len(history)] \in Sample
    BY <1>1, <1>2
  <2>2. \A i \in 1..Len(history) : latestJson <= history[i] /\ history[i] <= sent
    BY DEF PayloadInv, InOrder
  <2> QED BY <1>2, <2>1, <2>2 DEF Sample
<1>4. open
  BY <1>1 DEF PayloadInv, CallUnderWay
<1>5. TypeOK'
  BY <1>1, <1>3 DEF PayloadInv, TypeOK
<1>6. InOrder'
  BY <1>1, <1>3 DEF InOrder
<1>7. sent <= sent' /\ latestJson <= latestJson' /\ latestBlob <= latestBlob'
  BY <1>1, <1>3 DEF PayloadInv, TypeOK, InOrder
<1> QED BY <1>1, <1>4, <1>5, <1>6, <1>7, CoreFrame

-----------------------------------------------------------------------------
(* The controller.                                                          *)

LEMMA ReadJsonStep == ASSUME PayloadInv, ReadJson PROVE PayloadInv'
<1>1. /\ open /\ token < MaxDecodes /\ jsonRead' = latestJson /\ latestJson # 0
      /\ UNCHANGED <<coreVars, open, token, jobs, decoded, images>>
  BY DEF ReadJson, Available
<1>2. TypeOK' /\ InOrder' /\ TokensDiffer' /\ OneImage'
  BY <1>1 DEF PayloadInv, TypeOK, InOrder, TokensDiffer, OneImage, coreVars
<1>3. CallUnderWay'
  BY <1>1 DEF PayloadInv, TypeOK, InOrder, CallUnderWay, coreVars
<1>4. TokensInOrder'
  BY <1>1 DEF PayloadInv, TokensInOrder, Before, coreVars
<1> QED BY <1>2, <1>3, <1>4 DEF PayloadInv

LEMMA ReadBlobStep == ASSUME PayloadInv, ReadBlob PROVE PayloadInv'
<1> DEFINE new == [token |-> token + 1, json |-> jsonRead, blob |-> latestBlob, at |-> "convert"]
<1>1. /\ jsonRead # 0 /\ jsonRead' = 0 /\ token' = token + 1
      /\ jobs' = jobs \cup {new}
      /\ UNCHANGED <<coreVars, open, decoded, images>>
  BY DEF ReadBlob, UiIdle
<1>2. /\ open /\ token \in Nat /\ token < MaxDecodes /\ MaxDecodes \in Nat
      /\ jsonRead \in Sample /\ latestBlob \in Sample /\ jsonRead <= latestBlob
      /\ latestBlob = latestJson
  BY <1>1, PayloadAssumption DEF PayloadInv, TypeOK, CallUnderWay, InOrder, Sample
<1>3. new \in Job
  BY <1>2 DEF Job
<1>4. \A j \in jobs \cup {decoded} :
        /\ j.token \in Nat /\ j.token <= token
        /\ j.json \in Nat /\ j.blob \in Nat
        /\ j.json <= j.blob /\ j.blob <= jsonRead /\ j.blob <= sent
  BY <1>1, <1>2 DEF PayloadInv, TypeOK, TokensDiffer, TokensInOrder, Job, NoJob, Sample
<1>5. TypeOK'
  BY <1>1, <1>2, <1>3, PayloadAssumption DEF PayloadInv, TypeOK, coreVars
<1>6. InOrder' /\ CallUnderWay' /\ OneImage'
  BY <1>1 DEF PayloadInv, InOrder, CallUnderWay, OneImage, coreVars
<1>7. TokensDiffer'
  BY <1>1, <1>2, <1>4 DEF PayloadInv, TokensDiffer
<1>8. TokensInOrder'
  <2>1. \A j \in jobs \cup {decoded} : Before(j, new)
    BY <1>4 DEF Before
  <2>2. \A j \in jobs \cup {new} : ~(new.token < j.token)
    BY <1>2, <1>4
  <2>3. \A j \in jobs' \cup {decoded'} :
          j.json <= j.blob /\ j.blob <= sent' /\ j.blob <= latestJson'
    BY <1>1, <1>2, <1>4 DEF PayloadInv, TypeOK, InOrder, coreVars, Sample
  <2> HIDE DEF new
  <2> QED BY <1>1, <2>1, <2>2, <2>3 DEF PayloadInv, TokensInOrder
<1> QED BY <1>5, <1>6, <1>7, <1>8 DEF PayloadInv

\* A conversion that goes on, or ends with no image, keeps its token and its
\* samples.
LEMMA JobsFrame ==
  ASSUME PayloadInv, NEW j \in jobs, j.at = "convert",
         \/ jobs' = jobs \ {j}
         \/ jobs' = (jobs \ {j}) \cup {[j EXCEPT !.at = "upload"]},
         UNCHANGED <<coreVars, open, jsonRead, token, decoded, images>>
  PROVE  PayloadInv'
<1> DEFINE next == [j EXCEPT !.at = "upload"]
<1>1. j \in Job /\ next \in Job
  BY DEF PayloadInv, TypeOK, Job
<1>2. next.token = j.token /\ next.json = j.json /\ next.blob = j.blob
  BY <1>1 DEF Job
<1> HIDE DEF next
<1>3. TypeOK' /\ InOrder' /\ CallUnderWay' /\ OneImage'
  BY <1>1 DEF PayloadInv, TypeOK, InOrder, CallUnderWay, OneImage, coreVars, next
<1>4. CASE jobs' = jobs \ {j}
  BY <1>3, <1>4 DEF PayloadInv, TokensDiffer, TokensInOrder, coreVars
<1>5. CASE jobs' = (jobs \ {j}) \cup {next}
  <2>1. TokensDiffer'
    BY <1>2, <1>5 DEF PayloadInv, TokensDiffer
  <2>2. TokensInOrder'
    BY <1>2, <1>5 DEF PayloadInv, TokensInOrder, Before, coreVars
  <2> QED BY <1>3, <2>1, <2>2 DEF PayloadInv
<1> QED BY <1>4, <1>5 DEF next

\* What an upload shows is later, and begins where what was shown ended.
LEMMA UploadedIsNewer ==
  ASSUME PayloadInv, NEW j \in jobs, ~Superseded(j)
  PROVE  j # decoded /\ j # NoJob /\ Before(decoded, j) /\ decoded.token < j.token
<1>1. j \in Job /\ j.token = token /\ j.token # decoded.token /\ decoded.token <= token
  BY DEF PayloadInv, TypeOK, TokensDiffer, Superseded
<1>2. decoded.token \in Nat /\ j.token \in Nat /\ j # NoJob
  BY <1>1 DEF PayloadInv, TypeOK, Job, NoJob
<1>3. decoded.token < j.token
  BY <1>1, <1>2
<1> QED BY <1>1, <1>2, <1>3 DEF PayloadInv, TokensInOrder

LEMMA UploadedStep == ASSUME PayloadInv, NEW j \in jobs, Uploaded(j) PROVE PayloadInv'
<1>1. /\ jobs' = jobs \ {j}
      /\ UNCHANGED <<coreVars, open, jsonRead, token>>
  BY DEF Uploaded
<1>2. CASE Superseded(j)
  <2>1. UNCHANGED <<decoded, images>>
    BY <1>2 DEF Uploaded
  <2> QED BY <1>1, <2>1 DEF PayloadInv, TypeOK, InOrder, CallUnderWay, TokensDiffer,
            TokensInOrder, OneImage, coreVars
<1>3. CASE ~Superseded(j)
  <2>1. decoded' = j /\ images' = (images \cup {j}) \ {decoded}
    BY <1>3 DEF Uploaded, Replaced
  <2>2. j \in Job /\ j # decoded /\ j # NoJob
    BY <1>3, UploadedIsNewer DEF PayloadInv, TypeOK
  <2>3. TypeOK' /\ InOrder' /\ CallUnderWay'
    BY <1>1, <2>1, <2>2 DEF PayloadInv, TypeOK, InOrder, CallUnderWay, coreVars
  <2>4. OneImage'
    BY <1>1, <2>1, <2>2 DEF PayloadInv, OneImage
  <2>5. TokensDiffer'
    BY <1>1, <1>3, <2>1 DEF PayloadInv, TokensDiffer, Superseded
  <2>6. TokensInOrder'
    BY <1>1, <2>1 DEF PayloadInv, TokensInOrder, coreVars
  <2> QED BY <2>3, <2>4, <2>5, <2>6 DEF PayloadInv
<1> QED BY <1>2, <1>3

LEMMA DisposeStep == ASSUME PayloadInv, Dispose PROVE PayloadInv'
<1>1. /\ jsonRead = 0 /\ jsonRead' = 0 /\ open' = FALSE /\ history' = <<>>
      /\ latestJson' = 0 /\ latestBlob' = 0 /\ images' = images \ {decoded}
      /\ UNCHANGED <<sent, token, jobs, decoded>>
  BY DEF Dispose, UiIdle
<1>2. TypeOK'
  <2>1. history' \in Seq(Sample) /\ 0 \in 0..MaxSamples
    BY <1>1, PayloadAssumption
  <2> QED BY <1>1, <2>1 DEF PayloadInv, TypeOK
<1>3. InOrder' /\ CallUnderWay' /\ TokensDiffer' /\ OneImage'
  BY <1>1 DEF PayloadInv, TypeOK, InOrder, CallUnderWay, TokensDiffer, OneImage
<1>4. TokensInOrder'
  BY <1>1 DEF PayloadInv, TokensInOrder, Before
<1> QED BY <1>2, <1>3, <1>4 DEF PayloadInv

LEMMA PayloadStep == PayloadInv /\ [Next]_vars => PayloadInv'
<1> SUFFICES ASSUME PayloadInv, [Next]_vars PROVE PayloadInv'
  OBVIOUS
<1>1. ASSUME NEW j \in jobs, Converted(j) \/ NotConvertible(j) PROVE PayloadInv'
  BY <1>1, JobsFrame DEF Converted, NotConvertible
<1>2. CASE UNCHANGED vars
  BY <1>2 DEF PayloadInv, TypeOK, InOrder, CallUnderWay, TokensDiffer, TokensInOrder,
     OneImage, vars, coreVars
<1> QED BY <1>1, <1>2, PublishStep, DrainStep, ReadJsonStep, ReadBlobStep, UploadedStep,
    DisposeStep DEF Next

-----------------------------------------------------------------------------
\* In every reachable state the variables have their types, and an open viewer
\* keeps exactly the image it shows.
THEOREM PayloadCorrect == Spec => []PayloadInv
BY PayloadInit, PayloadStep, PTL DEF Spec

\* Every field of the controller has its type, whatever conversions are under way.
THEOREM PayloadTypes == Spec => []TypeOK
<1>1. PayloadInv => TypeOK
  BY DEF PayloadInv
<1> QED BY <1>1, PayloadCorrect, PTL

\* However conversions and uploads end, no image leaks while the viewer is open.
THEOREM OneImageCorrect == Spec => []OneImage
<1>1. PayloadInv => OneImage
  BY DEF PayloadInv
<1> QED BY <1>1, PayloadCorrect, PTL

-----------------------------------------------------------------------------
(* The refinement.                                                          *)

LEMMA DisplayStep ==
  ASSUME PayloadInv, PayloadInv', [Next]_vars
  PROVE  [Promise!Next]_(Promise!vars)
<1>1. CASE Publish
  <2>1. Promise!Publish
    BY <1>1 DEF Publish, Promise!Publish
  <2> QED BY <2>1 DEF Promise!Next
<1>2. CASE Dispose
  <2>1. images' = {}
    BY <1>2 DEF Dispose, PayloadInv, OneImage
  <2>2. Promise!Close
    BY <1>2, <2>1 DEF Dispose, Promise!Close
  <2> QED BY <2>2 DEF Promise!Next
<1>3. ASSUME NEW j \in jobs, Uploaded(j), ~Superseded(j)
      PROVE  [Promise!Next]_(Promise!vars)
  <2>1. decoded' = j /\ images' = (images \cup {j}) \ {decoded} /\ UNCHANGED <<sent, open>>
    BY <1>3 DEF Uploaded, Replaced, coreVars
  <2>2. j # decoded /\ Before(decoded, j)
    BY <1>3, UploadedIsNewer
  <2>3. decoded.blob \in Nat /\ sent \in Nat /\ j.json \in Nat /\ j.blob \in Nat
    <3>1. j \in Job /\ decoded \in Job \cup {NoJob} /\ sent \in Nat
      BY DEF PayloadInv, TypeOK
    <3> QED BY <3>1 DEF Job, NoJob, Sample
  <2>4. j.json \in decoded.blob..sent /\ j.blob \in j.json..sent
    BY <2>2, <2>3 DEF Before, PayloadInv, TokensInOrder
  <2>5. (images # {})'
    BY <2>1, <2>2
  <2>6. CASE open \/ images = {}
    <3>1. Promise!Show
      BY <2>1, <2>4, <2>5, <2>6 DEF Promise!Show
    <3> QED BY <3>1 DEF Promise!Next
  <2>7. CASE ~open /\ images # {}
    BY <1>3, <2>7 DEF PayloadInv, TokensDiffer, Superseded
  <2> QED BY <2>6, <2>7
<1>4. CASE UNCHANGED <<sent, open, decoded, images>>
  BY <1>4 DEF Promise!vars
<1> QED BY <1>1, <1>2, <1>3, <1>4 DEF Next, Drain, ReadJson, ReadBlob, Converted,
        NotConvertible, Uploaded, Dispose, vars, coreVars

\* The viewer implements Display: whatever the worker, the conversions and the
\* uploads do between two steps, the samples of the pictures only go forward.
THEOREM DisplayRefinement == Spec => ImplementsDisplay
<1>1. Init => Promise!Init
  BY DEF Init, Promise!Init, NoJob
<1>2. PayloadInv /\ PayloadInv' /\ [Next]_vars => [Promise!Next]_(Promise!vars)
  BY DisplayStep
<1> QED BY <1>1, <1>2, PayloadCorrect, PTL DEF Spec, ImplementsDisplay, Promise!Spec

-----------------------------------------------------------------------------
(* The last sample.                                                         *)

\* An open viewer has decoded the last sample published, or its reader holds it
\* at the end that drainOne keeps: no overflow of the history drops the newest.
NewestIsNext ==
  open => IF history = <<>> THEN latestJson = sent ELSE history[Len(history)] = sent

\* KEEP_LAST keeps what was appended.
LEMMA KeepLastKeepsNewest ==
  ASSUME NEW A, NEW s \in Seq(A), NEW n \in A
  PROVE  LET new == KeepLast(Append(s, n)) IN new # <<>> /\ new[Len(new)] = n
<1> DEFINE all == Append(s, n)
<1>1. /\ all \in Seq(A) /\ Len(all) = Len(s) + 1 /\ Len(s) \in Nat
      /\ all[Len(s) + 1] = n /\ all # <<>>
  OBVIOUS
<1> HIDE DEF all
<1>2. CASE Len(all) <= Depth
  BY <1>1, <1>2 DEF KeepLast, all
<1>3. CASE ~(Len(all) <= Depth)
  <2>1. Len(s) > 0
    BY <1>1, <1>3, PayloadAssumption
  <2>2. Len(Tail(all)) = Len(s) /\ Tail(all)[Len(s)] = all[Len(s) + 1]
    BY <1>1, <2>1
  <2>3. Tail(all) # <<>>
    BY <2>1, <2>2
  <2> QED BY <1>1, <1>3, <2>2, <2>3 DEF KeepLast, all
<1> QED BY <1>2, <1>3

LEMMA NewestStep == PayloadInv /\ NewestIsNext /\ [Next]_vars => NewestIsNext'
<1> SUFFICES ASSUME PayloadInv, NewestIsNext, [Next]_vars PROVE NewestIsNext'
  OBVIOUS
<1>1. CASE Publish
  <2>1. sent' = sent + 1 /\ history' = (IF open THEN KeepLast(Append(history, sent + 1)) ELSE history)
        /\ open' = open
    BY <1>1 DEF Publish
  <2>2. history \in Seq(Sample) /\ sent + 1 \in Sample
    BY <1>1, PayloadAssumption DEF Publish, PayloadInv, TypeOK, Sample
  <2>3. open => history' # <<>> /\ history'[Len(history')] = sent'
    BY <2>1, <2>2, KeepLastKeepsNewest
  <2> QED BY <2>1, <2>3 DEF NewestIsNext
<1>2. CASE Drain
  BY <1>2 DEF Drain, Decoded, NewestIsNext
<1>3. CASE Dispose
  BY <1>3 DEF Dispose, NewestIsNext
<1>4. CASE UNCHANGED <<coreVars, open>>
  BY <1>4 DEF NewestIsNext, coreVars
<1> QED BY <1>1, <1>2, <1>3, <1>4 DEF Next, ReadJson, ReadBlob, Converted, NotConvertible,
        Uploaded, vars, coreVars

\* What LastSampleArrives needs of every state: when an open viewer's reader is
\* empty, the sample decoded is the last one published.
THEOREM NewestCorrect == Spec => []NewestIsNext
<1>1. Init => NewestIsNext
  BY DEF Init, NewestIsNext
<1> QED BY <1>1, NewestStep, PayloadCorrect, PTL DEF Spec
=============================================================================
