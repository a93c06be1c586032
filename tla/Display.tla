-------------------------------- MODULE Display --------------------------------
(***************************************************************************)
(* What a viewer of an image topic promises the one who looks at it.  A    *)
(* picture names two samples, the one its JSON and the one its pixels came *)
(* from.  The pixels are never older than the JSON, and the next picture   *)
(* begins where the one before ended: a new picture may repeat a sample,   *)
(* it never goes back behind one, and what it mixes lies between the two.  *)
(* A closed viewer keeps no picture but one that came too late.            *)
(***************************************************************************)
EXTENDS Naturals

VARIABLES
  sent,    \* the number of the last sample published
  open,    \* the viewer is open
  json,    \* the sample of the JSON of the last picture, 0 before the first
  blob,    \* the sample of its pixels
  kept     \* there is an image nobody disposed

vars == <<sent, open, json, blob, kept>>

Init ==
  /\ sent = 0
  /\ open = TRUE
  /\ json = 0
  /\ blob = 0
  /\ kept = FALSE

Publish ==
  /\ sent' = sent + 1
  /\ UNCHANGED <<open, json, blob, kept>>

Show ==
  /\ open \/ ~kept
  /\ json' \in blob..sent
  /\ blob' \in json'..sent
  /\ kept' = TRUE
  /\ UNCHANGED <<sent, open>>

Close ==
  /\ open
  /\ open' = FALSE
  /\ kept' = FALSE
  /\ UNCHANGED <<sent, json, blob>>

Next == Publish \/ Show \/ Close

Spec == Init /\ [][Next]_vars
=============================================================================
