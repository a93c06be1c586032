----------------------------- MODULE WatchService -----------------------------
(***************************************************************************)
(* Who watches which topic: the cards of the topic list (TopicCard in      *)
(* HomeScreen), the viewers (LivePayloadController), the reference counts  *)
(* of DdsTopicService between them, and the native trackers below.         *)
(*                                                                         *)
(* All of it runs on the UI isolate, in separate events: a timer tick, a   *)
(* frame that rebuilds the list, a tap.  The native registry changes only  *)
(* in a tick, since poll() is called nowhere else; module DdsManager shows *)
(* how it gets there, here a tick takes over the graph.                    *)
(*                                                                         *)
(* Topics are those of a type with a descriptor: no other topic is ever    *)
(* tracked.  The search text and the category filter are the set of topics *)
(* they let through; the scroll position is the range of indices built.    *)
(*                                                                         *)
(* A viewer lives from the first build of its route to the end of its pop  *)
(* transition, in which the list takes taps again: nothing in the app      *)
(* keeps a second viewer, of the same topic or another, from opening then. *)
(***************************************************************************)
EXTENDS Integers, Sequences, FiniteSets, Functions

CONSTANTS
  TopicOrder,   \* every topic, in the order of std::map<std::string, ...>
  NoTopic,      \* the range of no cards
  MaxCount,     \* bound on a reference count
  MaxViewers    \* bound on the viewers of a topic alive at once

Topic == Range(TopicOrder)

ASSUME OrderAssumption ==
  /\ TopicOrder \in Seq(Topic)
  /\ IsInjective(TopicOrder)
  /\ NoTopic \notin Topic
  /\ MaxCount \in Nat
  /\ MaxViewers \in Nat

VARIABLES
  (* native *)
  graph,      \* topics with a remote endpoint
  blinked,    \* topics that left the graph since the last tick
  listed,     \* keys of topics_, which is also DdsTopicService.topics
  tracked,    \* topics with a stats reader
  payloads,   \* topics with a payload reader
  (* Dart *)
  refs,       \* _watchRefCounts (0 for an absent key)
  matching,   \* topics the search and the filter let through
  cards,      \* built index -> topic and expansion of the card's State
  pushed,     \* topics of the viewer routes not built yet
  viewers,    \* topic -> its LivePayloadControllers alive
  (* history *)
  rebound,    \* topics of expanded cards whose topic changed under them
  wentAway    \* watched topics whose native reader is gone

nativeVars  == <<graph, blinked, listed, tracked, payloads>>
viewerVars  == <<pushed, viewers>>
historyVars == <<rebound, wentAway>>
vars == <<nativeVars, refs, matching, cards, viewerVars, historyVars>>

Index   == 1..Len(TopicOrder)
Windows == {lo..hi : lo, hi \in Index} \ {{}}

Card == [topic : Topic, expanded : BOOLEAN]

Init ==
  /\ graph \in SUBSET Topic
  /\ blinked = {}
  /\ listed = {}
  /\ tracked = {}
  /\ payloads = {}
  /\ refs = [t \in Topic |-> 0]
  /\ matching = Topic
  /\ cards = [i \in {} |-> NoTopic]
  /\ pushed = {}
  /\ viewers = [t \in Topic |-> 0]
  /\ rebound = {}
  /\ wentAway = {}

-----------------------------------------------------------------------------
(* DdsTopicService over the native API.  An operator named Op_Suffix is a   *)
(* deliberately wrong variant of Op.                                        *)

\* watchTopic(t): the native call is made by the first watcher only, and does
\* nothing for a topic that is not in the registry.
Watch(t) ==
  /\ refs[t] < MaxCount
  /\ refs' = [refs EXCEPT ![t] = @ + 1]
  /\ tracked' = IF refs[t] = 0 /\ t \in listed THEN tracked \cup {t} ELSE tracked
  /\ wentAway' = IF refs[t] = 0 /\ t \notin listed THEN wentAway \cup {t} ELSE wentAway

CountAfter_NoFloor(U) == [t \in Topic |-> IF t \in U THEN refs[t] - 1 ELSE refs[t]]
CountAfter(U) ==
  [t \in Topic |-> IF t \in U /\ refs[t] > 0 THEN refs[t] - 1 ELSE refs[t]]

LastWatcher_Any(t) == TRUE
LastWatcher(t) == refs[t] <= 1

\* unwatchTopic of each topic of U, all different: the last watcher makes the
\* native call.
Unwatch(U) ==
  LET dropped == {t \in U : LastWatcher(t)} IN
  /\ refs' = CountAfter(U)
  /\ tracked' = tracked \ dropped
  /\ wentAway' = wentAway \ dropped

-----------------------------------------------------------------------------
(* The graph, and the tick that takes it over.                              *)

TopicAppears(t) ==
  /\ t \notin graph
  /\ graph' = graph \cup {t}
  /\ UNCHANGED <<blinked, listed, tracked, payloads, refs, matching, cards,
                 viewerVars, historyVars>>

TopicVanishes(t) ==
  /\ t \in graph
  /\ graph' = graph \ {t}
  /\ blinked' = blinked \cup {t}
  /\ UNCHANGED <<listed, tracked, payloads, refs, matching, cards, viewerVars,
                 historyVars>>

TrackedAfter_Kept(gone) == tracked

\* removeEndpoint untracks the topics whose last endpoint went.
TrackedAfter(gone) == tracked \ gone

\* _tick: poll() and topicsJson().  A topic that left and came back since the
\* last tick lost its entry in between, or not: it depends on which sample the
\* built-in readers return first.
Tick(lost) ==
  /\ lost \subseteq blinked
  /\ blinked \ graph \subseteq lost
  /\ listed' = graph
  /\ blinked' = {}
  /\ tracked' = TrackedAfter(lost)
  /\ payloads' = payloads \ lost
  /\ wentAway' = wentAway \cup (tracked \cap lost)
  /\ UNCHANGED <<graph, refs, matching, cards, viewerVars, rebound>>

-----------------------------------------------------------------------------
(* The topic list.                                                          *)

\* _filtered: the topics the list view is built from, by their places in the
\* order, and the row each of them gets in the list.
Filtered == {p \in Index : TopicOrder[p] \in listed \cap matching}
Row(p)   == Cardinality({q \in Filtered : q <= p})

Rebuilt(w) ==
  [i \in w \cap {Row(p) : p \in Filtered} |->
     [topic    |-> TopicOrder[CHOOSE p \in Filtered : Row(p) = i],
      expanded |-> i \in DOMAIN cards /\ cards[i].expanded]]

Expanded(S) == {i \in S : cards[i].expanded}

DisposedTopics_None(w) == {}

\* The expanded cards whose index is built no more: dispose() unwatches the
\* topic of the last build.
DisposedTopics(w) ==
  {cards[i].topic : i \in Expanded(DOMAIN cards \ DOMAIN Rebuilt(w))}

\* A frame builds the list for window w.  The cards have no key, so the State
\* of an index is kept and gets the topic that has moved to this index.
Frame(w) ==
  LET new   == Rebuilt(w)
      moved == {i \in Expanded(DOMAIN cards \cap DOMAIN new) : cards[i].topic # new[i].topic}
  IN
  /\ cards' = new
  /\ Unwatch(DisposedTopics(w))
  /\ rebound' = rebound \cup {cards[i].topic : i \in moved} \cup {new[i].topic : i \in moved}
  /\ UNCHANGED <<graph, blinked, listed, payloads, matching, viewerVars>>

\* The user edits the search text or picks a category, or a rate makes a topic
\* pass the "active" filter.
Search(S) ==
  /\ S # matching
  /\ matching' = S
  /\ UNCHANGED <<nativeVars, refs, cards, viewerVars, historyVars>>

\* _toggle of a card on screen, and HomeScreen._onTopicExpandChanged.
Expand(i) ==
  /\ ~cards[i].expanded
  /\ cards' = [cards EXCEPT ![i].expanded = TRUE]
  /\ Watch(cards[i].topic)
  /\ UNCHANGED <<graph, blinked, listed, payloads, matching, viewerVars, rebound>>

Collapse(i) ==
  /\ cards[i].expanded
  /\ cards' = [cards EXCEPT ![i].expanded = FALSE]
  /\ Unwatch({cards[i].topic})
  /\ UNCHANGED <<graph, blinked, listed, payloads, matching, viewerVars, rebound>>

-----------------------------------------------------------------------------
(* The viewers.                                                             *)

\* _visualize of a card on screen.
Visualize(i) ==
  /\ pushed' = pushed \cup {cards[i].topic}
  /\ UNCHANGED <<nativeVars, refs, matching, cards, viewers, historyVars>>

\* The first build of the route: the controller's constructor.
OpenViewer(t) ==
  /\ t \in pushed
  /\ viewers[t] < MaxViewers
  /\ pushed' = pushed \ {t}
  /\ viewers' = [viewers EXCEPT ![t] = @ + 1]
  /\ Watch(t)
  /\ payloads' = payloads \cup ({t} \cap listed)
  /\ UNCHANGED <<graph, blinked, listed, matching, cards, rebound>>

PayloadsAfter_Kept(t) == payloads

\* unwatchPayload is not counted.
PayloadsAfter(t) == payloads \ {t}

\* LivePayloadController.dispose, when the route has left.
CloseViewer(t) ==
  /\ viewers[t] > 0
  /\ viewers' = [viewers EXCEPT ![t] = @ - 1]
  /\ payloads' = PayloadsAfter(t)
  /\ Unwatch({t})
  /\ UNCHANGED <<graph, blinked, listed, matching, cards, pushed, rebound>>

-----------------------------------------------------------------------------
Next ==
  \/ \E t \in Topic : TopicAppears(t) \/ TopicVanishes(t)
  \/ \E lost \in SUBSET Topic : Tick(lost)
  \/ \E w \in Windows : Frame(w)
  \/ \E S \in SUBSET Topic : Search(S)
  \/ \E i \in DOMAIN cards : Expand(i) \/ Collapse(i) \/ Visualize(i)
  \/ \E t \in Topic : OpenViewer(t) \/ CloseViewer(t)

Spec == Init /\ [][Next]_vars

-----------------------------------------------------------------------------
TypeOK ==
  /\ graph \in SUBSET Topic
  /\ blinked \in SUBSET Topic
  /\ listed \in SUBSET Topic
  /\ tracked \in SUBSET Topic
  /\ payloads \in SUBSET Topic
  /\ refs \in [Topic -> Nat]
  /\ matching \in SUBSET Topic
  /\ DOMAIN cards \subseteq Index
  /\ cards \in [DOMAIN cards -> Card]
  /\ pushed \in SUBSET Topic
  /\ viewers \in [Topic -> Nat]
  /\ rebound \in SUBSET Topic
  /\ wentAway \in SUBSET Topic

Watchers(t) ==
  Cardinality({i \in DOMAIN cards : cards[i] = [topic |-> t, expanded |-> TRUE]})
    + viewers[t]

\* The reference count of a topic is the number of open views of it, through
\* scrolling, filtering, discovery and viewers, as long as no expanded card was
\* handed another topic by a rebuild of the list.
CountIsWatchers == \A t \in Topic \ rebound : refs[t] = Watchers(t)

\* "Without refcounting, whichever caller unwatches first would kill stats out
\* from under the other": a topic somebody watches has its native reader,
\* unless the topic itself went away or was not there when it was watched.
WatchedIsTracked ==
  \A t \in Topic : refs[t] > 0 => t \in tracked \/ t \in wentAway

\* A native stats reader exists only for a topic of the registry somebody
\* watches, a payload reader only for one a viewer is open on: no reference
\* count of zero and no closed viewer hides a running subscription.
NoUnwantedReader ==
  /\ \A t \in tracked : t \in listed /\ refs[t] > 0
  /\ \A t \in payloads : t \in listed /\ viewers[t] > 0

\* Watching, with the cards and the viewer as the views: scrolling, filtering,
\* discovery and viewers in any order make and delete the reader of a topic when
\* its first view opens and its last one closes, and at no other time.
Promise == INSTANCE Watching WITH
  views <- [t \in Topic |-> Watchers(t)], readers <- tracked, moved <- rebound
ImplementsWatching == Promise!Spec

\* "stop tracking so we don't leak a live DDS subscription to a card nobody can
\* see anymore": every native stats reader has an open view.  (Fails: a card
\* that was handed another topic unwatches that one.)
NoLeakedReader == \A t \in tracked : Watchers(t) > 0

\* "only ever one Viewer screen is open at a time so this doesn't need the
\* refcounting": a viewer of a topic with a stats reader has its payload reader.
\* (Fails: of two viewers of a topic, the first to close takes it from the other.)
ViewerHasPayload == \A t \in tracked : viewers[t] > 0 => t \in payloads
=============================================================================
