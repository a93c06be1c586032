----------------------------- MODULE MCDdsManager -----------------------------
(* Instances of DdsManager for TLC.                                           *)
EXTENDS DdsManager, FiniteSets

CONSTANTS p1, camera, driver, viewer, service

Offers(reliability) ==
  [reliability |-> reliability, durability |-> "VOLATILE", history |-> "KEEP_LAST", depth |-> 5]

\* A reliable publisher, a subscriber, and a service's reader; the rest is best-effort.
GraphEndpoints == {driver, viewer, service}
GraphTopicOf   == [e \in GraphEndpoints |-> IF e = service THEN NoTopic ELSE camera]
GraphOwnerOf   == [e \in GraphEndpoints |-> p1]
GraphIsPub     == [e \in GraphEndpoints |-> e = driver]
GraphQosOf     == [e \in GraphEndpoints \cup OwnGuid |->
                     Offers(IF e = driver THEN "RELIABLE" ELSE "BEST_EFFORT")]
GraphTypeOf    == [e \in GraphEndpoints \cup OwnGuid |->
                     IF e = service THEN "Request" ELSE "Image"]

\* The graph and the application go on only while fewer endpoints than these
\* have unread samples; poll() is never held up.
MaxUnread == 2

Unread == {g \in Guid : endpointSamples[g] # {}}

MCNext ==
  \/ PollStep
  \/ Cardinality(Unread) < MaxUnread /\ (GraphStep \/ CallStep)

MCSpec == Init /\ [][MCNext]_vars /\ Fairness
=============================================================================
