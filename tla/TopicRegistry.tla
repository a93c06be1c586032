---------------------------- MODULE TopicRegistry -----------------------------
(***************************************************************************)
(* What the discovery registry promises to the screens that show it: its   *)
(* list of endpoints follows the DDS graph.  It may lag behind for an      *)
(* endpoint the graph has changed since the list last caught up with it    *)
(* (the endpoint is unsettled), and for no other.  An endpoint that exists *)
(* and is not unsettled is listed.  One that left while its arrival was    *)
(* still news may have been missed: the list then takes it up and is not   *)
(* told that it is gone.                                                   *)
(***************************************************************************)
CONSTANT Endpoint

VARIABLES graph,      \* the remote endpoints of ROS 2 topics that exist
          listed,     \* the endpoints under some topic of the list
          unsettled,  \* the endpoints the list has not caught up with
          missed      \* those of them whose departure will not be told

vars == <<graph, listed, unsettled, missed>>

TypeOK ==
  /\ graph \in SUBSET Endpoint
  /\ listed \in SUBSET Endpoint
  /\ unsettled \in SUBSET Endpoint
  /\ missed \in SUBSET unsettled

Init == graph = {} /\ listed = {} /\ unsettled = {} /\ missed = {}

Appear(e) ==
  /\ graph' = graph \cup {e}
  /\ unsettled' = unsettled \cup {e}
  /\ missed' = missed \ {e}
  /\ UNCHANGED listed

\* Only an endpoint the list has not caught up with can be missed.
Vanish(e) ==
  /\ e \in graph
  /\ graph' = graph \ {e}
  /\ unsettled' = unsettled \cup {e}
  /\ \/ UNCHANGED missed
     \/ e \in unsettled /\ missed' = missed \cup {e}
  /\ UNCHANGED listed

\* The list takes up old news of an endpoint; more news is on its way.
TakeOldNews(e) ==
  /\ e \in unsettled \ missed
  /\ \/ listed' = listed \cup {e}
     \/ listed' = listed \ {e}
  /\ UNCHANGED <<graph, unsettled, missed>>

\* The list takes up the last news of an endpoint.
Settle(e) ==
  /\ e \in unsettled
  /\ unsettled' = unsettled \ {e}
  /\ missed' = missed \ {e}
  /\ listed' = IF e \in graph \cup missed THEN listed \cup {e} ELSE listed \ {e}
  /\ UNCHANGED graph

\* shutdown: the graph is no longer observed and nothing stays listed.
Reset == graph' = {} /\ listed' = {} /\ unsettled' = {} /\ missed' = {}

Next ==
  \/ \E e \in Endpoint : Appear(e) \/ Vanish(e) \/ TakeOldNews(e) \/ Settle(e)
  \/ Reset

Spec == Init /\ [][Next]_vars

Ghosts == listed \ (graph \cup unsettled)

\* A settled endpoint stays in the list without existing only if it was missed.
GhostsWereMissed == [][Ghosts' \ Ghosts \subseteq missed]_vars
=============================================================================
