-------------------------------- MODULE Watching --------------------------------
(***************************************************************************)
(* What the reference counts of DdsTopicService promise the views.  The    *)
(* native reader of a topic is made when its first view opens and deleted  *)
(* when its last one closes; in between discovery may take it away, and    *)
(* nothing but another first view brings it back.  Nothing is promised of  *)
(* a topic that was moved onto or off the card of another one.             *)
(***************************************************************************)
EXTENDS Naturals

CONSTANT Topic

VARIABLES
  views,    \* topic -> its open views
  listed,   \* the topics of the registry
  readers,  \* the topics with a native reader
  moved     \* the topics nothing is promised of any more

vars == <<views, listed, readers, moved>>

Init ==
  /\ views = [t \in Topic |-> 0]
  /\ listed = {}
  /\ readers = {}
  /\ moved = {}

Keeps(t) ==
  /\ views'[t] = views[t]
  /\ t \in readers' <=> t \in readers

Opens(t) ==
  /\ views'[t] = views[t] + 1
  /\ t \in readers' <=> t \in readers \/ (views[t] = 0 /\ t \in listed)

Closes(t) ==
  /\ views[t] > 0
  /\ views'[t] = views[t] - 1
  /\ t \in readers' <=> t \in readers /\ views'[t] > 0

\* The registry learns what the graph became.
Discover ==
  /\ readers' \subseteq readers \cap listed'
  /\ UNCHANGED <<views, moved>>

Open(t) ==
  /\ \A u \in Topic \ moved : IF u = t THEN Opens(u) ELSE Keeps(u)
  /\ readers' \subseteq listed
  /\ UNCHANGED <<listed, moved>>

\* The views of several topics may close in one frame, which may move others.
Close(T) ==
  /\ moved \subseteq moved'
  /\ \A u \in Topic \ moved' : IF u \in T THEN Closes(u) ELSE Keeps(u)
  /\ readers' \subseteq listed
  /\ UNCHANGED listed

Next ==
  \/ Discover
  \/ \E t \in Topic : Open(t)
  \/ \E T \in SUBSET Topic : Close(T)

Spec == Init /\ [][Next]_vars
=============================================================================
