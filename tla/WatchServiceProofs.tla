--------------------------- MODULE WatchServiceProofs ---------------------------
(***************************************************************************)
(* Proofs about WatchService, for any number of topics, any window of the  *)
(* list and any bound on the counts.                                       *)
(***************************************************************************)
EXTENDS WatchService, FiniteSetTheorems, TLAPS

\* No two cards show the same topic, in a list that was rebuilt in part too.
OneCardPerTopic ==
  \A i, j \in DOMAIN cards : cards[i].topic = cards[j].topic => i = j

\* What the service lists is in the graph, or its loss is not drained yet.
ListedWasSeen == listed \subseteq graph \cup blinked

\* Without the bags of Cardinality: a topic has at most one expanded card.
Opened(t) == \E i \in DOMAIN cards : cards[i] = [topic |-> t, expanded |-> TRUE]
ViewsOf(t) == (IF Opened(t) THEN 1 ELSE 0) + viewers[t]
CountIsViews == \A t \in Topic \ rebound : refs[t] = ViewsOf(t)

WatchInv ==
  /\ TypeOK
  /\ OneCardPerTopic
  /\ ListedWasSeen
  /\ CountIsViews
  /\ WatchedIsTracked
  /\ NoUnwantedReader

-----------------------------------------------------------------------------
\* An open view, by the fields of its card.
LEMMA OpenedByFields ==
  ASSUME cards \in [DOMAIN cards -> Card], NEW t
  PROVE  Opened(t) <=> \E i \in DOMAIN cards : cards[i].topic = t /\ cards[i].expanded
<1>1. \A i \in DOMAIN cards :
        cards[i] = [topic |-> t, expanded |-> TRUE] <=> cards[i].topic = t /\ cards[i].expanded
  BY DEF Card
<1> QED BY <1>1 DEF Opened

LEMMA WatchInit == Init => WatchInv
<1> SUFFICES ASSUME Init PROVE WatchInv
  OBVIOUS
<1>1. TypeOK
  <2>1. cards \in [DOMAIN cards -> Card] /\ DOMAIN cards \subseteq Index
    BY DEF Init
  <2>2. refs \in [Topic -> Nat]
    BY DEF Init
  <2> QED BY <2>1, <2>2 DEF Init, TypeOK
<1>2. OneCardPerTopic /\ ListedWasSeen /\ WatchedIsTracked /\ NoUnwantedReader
  BY DEF Init, OneCardPerTopic, ListedWasSeen, WatchedIsTracked, NoUnwantedReader
<1>3. CountIsViews
  BY OrderAssumption DEF Init, CountIsViews, ViewsOf, Opened
<1> QED BY <1>1, <1>2, <1>3 DEF WatchInv

-----------------------------------------------------------------------------
(* The helpers of DdsTopicService, and the list a frame builds.             *)

LEMMA WatchKeeps ==
  ASSUME WatchInv, NEW t \in Topic, Watch(t), UNCHANGED listed
  PROVE  /\ refs' \in [Topic -> Nat] /\ tracked' \in SUBSET Topic /\ wentAway' \in SUBSET Topic
         /\ WatchedIsTracked'
         /\ \A u \in tracked' : u \in listed' /\ refs'[u] > 0
         /\ refs'[t] = refs[t] + 1
         /\ \A u \in Topic \ {t} : refs'[u] = refs[u]
<1> USE DEF WatchInv, TypeOK, Watch
<1>1. refs' \in [Topic -> Nat] /\ tracked' \in SUBSET Topic /\ wentAway' \in SUBSET Topic
  OBVIOUS
<1>2. refs'[t] = refs[t] + 1 /\ \A u \in Topic \ {t} : refs'[u] = refs[u]
  OBVIOUS
<1>3. WatchedIsTracked'
  BY <1>2 DEF WatchedIsTracked
<1>4. \A u \in tracked' : u \in listed' /\ refs'[u] > 0
  BY <1>2 DEF NoUnwantedReader
<1> QED BY <1>1, <1>2, <1>3, <1>4

LEMMA UnwatchKeeps ==
  ASSUME WatchInv, NEW U \in SUBSET Topic, Unwatch(U), UNCHANGED listed
  PROVE  /\ refs' \in [Topic -> Nat] /\ tracked' \in SUBSET Topic /\ wentAway' \in SUBSET Topic
         /\ WatchedIsTracked'
         /\ \A u \in tracked' : u \in listed' /\ refs'[u] > 0
         /\ \A u \in Topic : refs'[u] = IF u \in U /\ refs[u] > 0 THEN refs[u] - 1 ELSE refs[u]
<1> USE DEF WatchInv, TypeOK, Unwatch, LastWatcher, CountAfter
<1>1. \A u \in Topic : refs'[u] = IF u \in U /\ refs[u] > 0 THEN refs[u] - 1 ELSE refs[u]
  OBVIOUS
<1>2. refs' \in [Topic -> Nat] /\ tracked' \in SUBSET Topic /\ wentAway' \in SUBSET Topic
  OBVIOUS
<1>3. WatchedIsTracked'
  BY <1>1 DEF WatchedIsTracked
<1>4. \A u \in tracked' : u \in listed' /\ refs'[u] > 0
  BY <1>1 DEF NoUnwantedReader
<1> QED BY <1>1, <1>2, <1>3, <1>4

\* A list that is built anew has a row of its own for each topic.
LEMMA RebuiltKeeps ==
  ASSUME TypeOK, NEW w \in Windows
  PROVE  /\ DOMAIN Rebuilt(w) \subseteq Index
         /\ Rebuilt(w) \in [DOMAIN Rebuilt(w) -> Card]
         /\ \A i, j \in DOMAIN Rebuilt(w) :
              Rebuilt(w)[i].topic = Rebuilt(w)[j].topic => i = j
         /\ \A i \in DOMAIN Rebuilt(w) :
              Rebuilt(w)[i].expanded = (i \in DOMAIN cards /\ cards[i].expanded)
<1> DEFINE Rows == w \cap {Row(p) : p \in Filtered}
           Place(i) == CHOOSE p \in Filtered : Row(p) = i
<1>1. DOMAIN Rebuilt(w) = Rows
  BY DEF Rebuilt
<1>2. w \subseteq Index
  BY OrderAssumption DEF Windows, Index
<1>3. \A p \in Filtered : p \in DOMAIN TopicOrder /\ TopicOrder[p] \in Topic
  BY OrderAssumption DEF Filtered, Index, TypeOK
<1>4. \A i \in Rows : \E p \in Filtered :
        /\ Row(p) = i
        /\ Rebuilt(w)[i] = [topic |-> TopicOrder[p], expanded |-> i \in DOMAIN cards /\ cards[i].expanded]
  <2>1. SUFFICES ASSUME NEW i \in Rows
                 PROVE  \E p \in Filtered :
                          /\ Row(p) = i
                          /\ Rebuilt(w)[i] = [topic |-> TopicOrder[p],
                                              expanded |-> i \in DOMAIN cards /\ cards[i].expanded]
    OBVIOUS
  <2>2. Place(i) \in Filtered /\ Row(Place(i)) = i
    OBVIOUS
  <2>3. Rebuilt(w)[i] = [topic |-> TopicOrder[Place(i)], expanded |-> i \in DOMAIN cards /\ cards[i].expanded]
    BY DEF Rebuilt
  <2> QED BY <2>2, <2>3
<1> HIDE DEF Rows, Place
<1>5. \A i \in Rows : Rebuilt(w)[i] \in Card
  <2>1. SUFFICES ASSUME NEW i \in Rows PROVE Rebuilt(w)[i] \in Card
    OBVIOUS
  <2>2. PICK p \in Filtered :
          Rebuilt(w)[i] = [topic |-> TopicOrder[p], expanded |-> i \in DOMAIN cards /\ cards[i].expanded]
    BY <1>4
  <2> QED BY <1>3, <2>2 DEF Card, TypeOK
<1>6. Rebuilt(w) \in [Rows -> Card]
  BY <1>5, <1>1 DEF Rebuilt
<1>7. ASSUME NEW i \in Rows, NEW j \in Rows, Rebuilt(w)[i].topic = Rebuilt(w)[j].topic
      PROVE  i = j
  <2>1. PICK p \in Filtered :
          Row(p) = i /\ Rebuilt(w)[i] = [topic |-> TopicOrder[p],
                                        expanded |-> i \in DOMAIN cards /\ cards[i].expanded]
    BY <1>4
  <2>2. PICK q \in Filtered :
          Row(q) = j /\ Rebuilt(w)[j] = [topic |-> TopicOrder[q],
                                        expanded |-> j \in DOMAIN cards /\ cards[j].expanded]
    BY <1>4
  <2>3. TopicOrder[p] = TopicOrder[q]
    BY <2>1, <2>2, <1>7
  <2> QED BY <2>1, <2>2, <2>3, <1>3, OrderAssumption DEF IsInjective
<1>8. \A i \in Rows : Rebuilt(w)[i].expanded = (i \in DOMAIN cards /\ cards[i].expanded)
  <2>1. SUFFICES ASSUME NEW i \in Rows
                 PROVE  Rebuilt(w)[i].expanded = (i \in DOMAIN cards /\ cards[i].expanded)
    OBVIOUS
  <2>2. PICK p \in Filtered :
          Rebuilt(w)[i] = [topic |-> TopicOrder[p], expanded |-> i \in DOMAIN cards /\ cards[i].expanded]
    BY <1>4
  <2> QED BY <2>2
<1>9. Rows \subseteq Index
  BY <1>2 DEF Rows
<1> QED BY <1>1, <1>6, <1>7, <1>8, <1>9


-----------------------------------------------------------------------------
(* The steps.                                                               *)

\* A step of the graph or of the search leaves the cards and the counts alone.
LEMMA QuietStep ==
  ASSUME WatchInv,
         \/ \E t \in Topic : TopicAppears(t) \/ TopicVanishes(t)
         \/ \E S \in SUBSET Topic : Search(S)
         \/ \E i \in DOMAIN cards : Visualize(i)
         \/ UNCHANGED vars
  PROVE  WatchInv'
<1>1. /\ UNCHANGED <<listed, tracked, payloads, refs, cards, viewers, historyVars>>
      /\ graph' \in SUBSET Topic /\ blinked' \in SUBSET Topic /\ matching' \in SUBSET Topic
      /\ pushed' \in SUBSET Topic
      /\ graph \cup blinked \subseteq graph' \cup blinked'
  BY DEF WatchInv, TypeOK, TopicAppears, TopicVanishes, Search, Visualize, Card, vars, nativeVars,
         viewerVars
<1> QED
  BY <1>1 DEF WatchInv, TypeOK, OneCardPerTopic, ListedWasSeen, CountIsViews, ViewsOf, Opened,
              WatchedIsTracked, NoUnwantedReader, historyVars

LEMMA TickStep ==
  ASSUME WatchInv, NEW lost \in SUBSET Topic, Tick(lost)
  PROVE  WatchInv'
<1> USE DEF WatchInv, TypeOK, Tick, TrackedAfter, viewerVars
<1>1. TypeOK'
  OBVIOUS
<1>2. OneCardPerTopic' /\ CountIsViews'
  BY DEF OneCardPerTopic, CountIsViews, ViewsOf, Opened, viewerVars
<1>3. ListedWasSeen'
  BY DEF ListedWasSeen
<1>4. WatchedIsTracked'
  BY DEF WatchedIsTracked
<1>5. NoUnwantedReader'
  BY DEF NoUnwantedReader, ListedWasSeen
<1> QED BY <1>1, <1>2, <1>3, <1>4, <1>5

LEMMA FrameStep ==
  ASSUME WatchInv, NEW w \in Windows, Frame(w)
  PROVE  WatchInv'
<1> DEFINE new   == Rebuilt(w)
           moved == {i \in Expanded(DOMAIN cards \cap DOMAIN new) : cards[i].topic # new[i].topic}
           U     == DisposedTopics(w)
<1>1. /\ DOMAIN new \subseteq Index
      /\ new \in [DOMAIN new -> Card]
      /\ \A i, j \in DOMAIN new : new[i].topic = new[j].topic => i = j
      /\ \A i \in DOMAIN new : new[i].expanded = (i \in DOMAIN cards /\ cards[i].expanded)
  BY RebuiltKeeps DEF WatchInv
<1>2. /\ cards' = new
      /\ Unwatch(U)
      /\ rebound' = rebound \cup {cards[i].topic : i \in moved} \cup {new[i].topic : i \in moved}
      /\ UNCHANGED <<graph, blinked, listed, payloads, matching, pushed, viewers>>
  BY DEF Frame, viewerVars
<1>3. \A i \in DOMAIN cards :
        cards[i].topic \in Topic /\ cards[i] = [topic |-> cards[i].topic, expanded |-> cards[i].expanded]
  BY DEF WatchInv, TypeOK, Card
<1>4. \A t : t \in U <=> \E i \in DOMAIN cards :
                           i \notin DOMAIN new /\ cards[i].expanded /\ cards[i].topic = t
  BY DEF DisposedTopics, Expanded
<1>5. U \in SUBSET Topic
  BY <1>3, <1>4
<1>6. /\ refs' \in [Topic -> Nat] /\ tracked' \in SUBSET Topic /\ wentAway' \in SUBSET Topic
      /\ WatchedIsTracked'
      /\ \A u \in tracked' : u \in listed' /\ refs'[u] > 0
      /\ \A u \in Topic : refs'[u] = IF u \in U /\ refs[u] > 0 THEN refs[u] - 1 ELSE refs[u]
  BY <1>2, <1>5, UnwatchKeeps
<1>7. \A i \in DOMAIN cards : i \in DOMAIN new /\ cards[i].expanded /\ cards[i].topic # new[i].topic
        => cards[i].topic \in rebound' /\ new[i].topic \in rebound'
  BY <1>2 DEF Expanded
<1>8. \A i \in DOMAIN new : new[i].topic \in Topic /\ new[i] = [topic |-> new[i].topic, expanded |-> new[i].expanded]
  BY <1>1 DEF Card
<1> HIDE DEF new, moved, U
<1>9. rebound' \in SUBSET Topic
  <2>1. {cards[i].topic : i \in moved} \subseteq Topic /\ {new[i].topic : i \in moved} \subseteq Topic
    BY <1>3, <1>8 DEF moved, Expanded
  <2> QED BY <1>2, <2>1 DEF WatchInv, TypeOK
<1>10. TypeOK'
  BY <1>1, <1>2, <1>6, <1>9 DEF WatchInv, TypeOK
<1>11. OneCardPerTopic' /\ ListedWasSeen' /\ NoUnwantedReader'
  BY <1>1, <1>2, <1>6 DEF WatchInv, OneCardPerTopic, ListedWasSeen, NoUnwantedReader
<1>12. ASSUME NEW t \in Topic \ rebound' PROVE refs'[t] = ViewsOf(t)'
  <2>1. t \notin rebound /\ refs[t] = ViewsOf(t) /\ viewers' = viewers /\ viewers[t] \in Nat
    BY <1>2 DEF WatchInv, CountIsViews, TypeOK
  <2>2. ASSUME Opened(t)' PROVE Opened(t) /\ t \notin U
    <3>1. PICK j \in DOMAIN new : new[j].topic = t /\ new[j].expanded
      BY <1>2, <2>2 DEF Opened
    <3>2. j \in DOMAIN cards /\ cards[j].expanded
      BY <1>1, <3>1
    <3>3. cards[j].topic = t
      BY <1>7, <1>12, <3>1, <3>2
    <3>4. Opened(t)
      BY <1>1, <1>3, <1>8, <3>1, <3>2, <3>3 DEF Opened, WatchInv, TypeOK, Card
    <3>5. t \notin U
      BY <1>4, <3>1, <3>2, <3>3 DEF WatchInv, OneCardPerTopic
    <3> QED BY <3>4, <3>5
  <2>3. ASSUME ~Opened(t)', Opened(t) PROVE t \in U
    <3>1. PICK i \in DOMAIN cards : cards[i].topic = t /\ cards[i].expanded
      BY <2>3 DEF Opened
    <3>2. i \notin DOMAIN new
      <4>1. SUFFICES ASSUME i \in DOMAIN new PROVE FALSE
        OBVIOUS
      <4>2. new[i].topic = t /\ new[i].expanded
        BY <1>1, <1>7, <1>12, <3>1, <4>1
      <4>3. new[i] = [topic |-> t, expanded |-> TRUE]
        BY <1>1, <4>1, <4>2 DEF Card
      <4> QED BY <1>2, <2>3, <4>1, <4>3 DEF Opened
    <3> QED BY <1>4, <3>1, <3>2
  <2>4. t \in U => Opened(t)
    <3>1. SUFFICES ASSUME t \in U PROVE Opened(t)
      OBVIOUS
    <3>2. PICK i \in DOMAIN cards : cards[i].expanded /\ cards[i].topic = t
      BY <1>4, <3>1
    <3>3. cards[i] = [topic |-> t, expanded |-> TRUE]
      BY <3>2 DEF WatchInv, TypeOK, Card
    <3> QED BY <3>3 DEF Opened
  <2> QED BY <1>6, <2>1, <2>2, <2>3, <2>4 DEF ViewsOf
<1>13. CountIsViews'
  BY <1>12 DEF CountIsViews
<1> QED BY <1>6, <1>10, <1>11, <1>13 DEF WatchInv

\* A tap on a card turns its topic's count with the card.
LEMMA ToggleStep ==
  ASSUME WatchInv, NEW i \in DOMAIN cards, Expand(i) \/ Collapse(i)
  PROVE  WatchInv'
<1>0. PICK t \in Topic : t = cards[i].topic
  BY DEF WatchInv, TypeOK, Card
<1>1. /\ t = cards[i].topic
      /\ \A j \in DOMAIN cards : cards[j] = [topic |-> cards[j].topic, expanded |-> cards[j].expanded]
      /\ \A j \in DOMAIN cards : cards[j].topic = t => j = i
  BY <1>0 DEF WatchInv, TypeOK, Card, OneCardPerTopic
<1>2. /\ UNCHANGED <<graph, blinked, listed, payloads, matching, pushed, viewers, rebound>>
      /\ viewers[t] \in Nat
      /\ cards' = [cards EXCEPT ![i].expanded = ~cards[i].expanded]
  BY DEF Expand, Collapse, WatchInv, TypeOK, Card, viewerVars
<1>3. /\ DOMAIN cards' = DOMAIN cards
      /\ cards' \in [DOMAIN cards -> Card]
      /\ \A j \in DOMAIN cards : cards'[j].topic = cards[j].topic
      /\ \A j \in DOMAIN cards \ {i} : cards'[j] = cards[j]
      /\ cards'[i] = [topic |-> t, expanded |-> ~cards[i].expanded]
  BY <1>1, <1>2 DEF WatchInv, TypeOK, Card
<1>4. /\ \A u : Opened(u) <=> \E j \in DOMAIN cards : cards[j].topic = u /\ cards[j].expanded
      /\ \A u : Opened(u)' <=> \E j \in DOMAIN cards' : cards'[j].topic = u /\ cards'[j].expanded
  <2>1. cards \in [DOMAIN cards -> Card] /\ cards' \in [DOMAIN cards' -> Card]
    BY <1>3 DEF WatchInv, TypeOK
  <2>2. \A u : Opened(u) <=> \E j \in DOMAIN cards : cards[j].topic = u /\ cards[j].expanded
    BY <2>1, OpenedByFields
  <2>3. ASSUME NEW u
        PROVE  Opened(u)' <=> \E j \in DOMAIN cards' : cards'[j].topic = u /\ cards'[j].expanded
    <3>1. \A j \in DOMAIN cards' :
            cards'[j] = [topic |-> u, expanded |-> TRUE] <=> cards'[j].topic = u /\ cards'[j].expanded
      BY <2>1 DEF Card
    <3> QED BY <3>1 DEF Opened
  <2> QED BY <2>2, <2>3
<1>5. /\ Opened(t) <=> cards[i].expanded
      /\ Opened(t)' <=> ~cards[i].expanded
      /\ \A u \in Topic \ {t} : Opened(u)' <=> Opened(u)
  <2>1. cards'[i].topic = t /\ cards'[i].expanded = ~cards[i].expanded
    BY <1>3
  <2>2. Opened(t) <=> cards[i].expanded
    BY <1>1, <1>4
  <2>3. Opened(t)' <=> ~cards[i].expanded
    <3>1. Opened(t)' <=> \E j \in DOMAIN cards' : cards'[j].topic = t /\ cards'[j].expanded
      BY <1>4
    <3>2. \A j \in DOMAIN cards' : cards'[j].topic = t => j = i
      BY <1>1, <1>3
    <3>3. i \in DOMAIN cards'
      BY <1>3
    <3> QED BY <2>1, <3>1, <3>2, <3>3
  <2>4. ASSUME NEW u \in Topic \ {t} PROVE Opened(u)' <=> Opened(u)
    <3>1. \A j \in DOMAIN cards :
            cards'[j].topic = u /\ cards'[j].expanded <=> cards[j].topic = u /\ cards[j].expanded
      BY <1>1, <1>3, <2>1
    <3> QED BY <1>3, <1>4, <3>1
  <2> QED BY <2>2, <2>3, <2>4
<1>6. t \notin rebound => refs[t] = ViewsOf(t)
  BY <1>1 DEF WatchInv, CountIsViews
<1>7. /\ refs' \in [Topic -> Nat] /\ tracked' \in SUBSET Topic /\ wentAway' \in SUBSET Topic
      /\ WatchedIsTracked'
      /\ \A u \in tracked' : u \in listed' /\ refs'[u] > 0
      /\ \A u \in Topic \ {t} : refs'[u] = refs[u]
      /\ t \notin rebound => refs'[t] = ViewsOf(t)'
  <2>1. CASE Expand(i)
    <3>1. Watch(t)
      BY <1>1, <2>1 DEF Expand
    <3>2. ~cards[i].expanded
      BY <2>1 DEF Expand
    <3>3. refs'[t] = refs[t] + 1
      BY <1>1, <1>2, <3>1, WatchKeeps
    <3>4. t \notin rebound => refs'[t] = ViewsOf(t)'
      BY <1>1, <1>2, <1>5, <1>6, <3>2, <3>3 DEF ViewsOf
    <3> QED BY <1>1, <1>2, <3>1, <3>4, WatchKeeps
  <2>2. CASE Collapse(i)
    <3>1. Unwatch({t}) /\ cards[i].expanded
      BY <1>1, <2>2 DEF Collapse
    <3>2. \A u \in Topic : refs'[u] = IF u \in {t} /\ refs[u] > 0 THEN refs[u] - 1 ELSE refs[u]
      BY <1>1, <1>2, <3>1, UnwatchKeeps
    <3>3. t \notin rebound => refs'[t] = ViewsOf(t)'
      BY <1>1, <1>2, <1>5, <1>6, <3>1, <3>2 DEF ViewsOf
    <3> QED BY <1>1, <1>2, <3>1, <3>2, <3>3, UnwatchKeeps
  <2> QED BY <2>1, <2>2
<1>8. TypeOK'
  BY <1>2, <1>3, <1>7 DEF WatchInv, TypeOK
<1>9. OneCardPerTopic' /\ ListedWasSeen' /\ NoUnwantedReader'
  BY <1>2, <1>3, <1>7 DEF WatchInv, OneCardPerTopic, ListedWasSeen, NoUnwantedReader
<1>10. CountIsViews'
  <2>1. SUFFICES ASSUME NEW u \in Topic \ rebound PROVE refs'[u] = ViewsOf(u)'
    BY <1>2 DEF CountIsViews
  <2>2. CASE u = t
    BY <1>7, <2>2
  <2>3. CASE u # t
    <3>1. Opened(u)' <=> Opened(u)
      BY <1>5, <2>3
    <3>2. ViewsOf(u)' = ViewsOf(u)
      BY <1>2, <3>1 DEF ViewsOf
    <3> QED BY <1>7, <2>3, <3>2 DEF WatchInv, CountIsViews
  <2> QED BY <2>2, <2>3
<1> QED BY <1>7, <1>8, <1>9, <1>10 DEF WatchInv

LEMMA OpenViewerStep ==
  ASSUME WatchInv, NEW t \in Topic, OpenViewer(t)
  PROVE  WatchInv'
<1>1. /\ Watch(t)
      /\ viewers' = [viewers EXCEPT ![t] = @ + 1]
      /\ pushed' \in SUBSET Topic
      /\ payloads' = payloads \cup ({t} \cap listed)
      /\ UNCHANGED <<graph, blinked, listed, matching, cards, rebound>>
  BY DEF OpenViewer, WatchInv, TypeOK
<1>2. /\ refs' \in [Topic -> Nat] /\ tracked' \in SUBSET Topic /\ wentAway' \in SUBSET Topic
      /\ WatchedIsTracked'
      /\ \A u \in tracked' : u \in listed' /\ refs'[u] > 0
      /\ refs'[t] = refs[t] + 1
      /\ \A u \in Topic \ {t} : refs'[u] = refs[u]
  BY <1>1, WatchKeeps
<1>3. /\ viewers \in [Topic -> Nat] /\ viewers' \in [Topic -> Nat]
      /\ viewers'[t] = viewers[t] + 1
      /\ \A u \in Topic \ {t} : viewers'[u] = viewers[u]
  BY <1>1 DEF WatchInv, TypeOK
<1>4. TypeOK'
  BY <1>1, <1>2, <1>3 DEF WatchInv, TypeOK
<1>5. OneCardPerTopic' /\ ListedWasSeen'
  BY <1>1 DEF WatchInv, OneCardPerTopic, ListedWasSeen
<1>6. NoUnwantedReader'
  <2>1. \A u \in payloads : u \in Topic /\ u \in listed /\ viewers[u] > 0
    BY DEF WatchInv, TypeOK, NoUnwantedReader
  <2>2. \A u \in payloads' : u \in listed' /\ viewers'[u] > 0
    BY <1>1, <1>3, <2>1
  <2> QED BY <1>2, <2>2 DEF NoUnwantedReader
<1>7. CountIsViews'
  <2>1. SUFFICES ASSUME NEW u \in Topic \ rebound PROVE refs'[u] = ViewsOf(u)'
    BY <1>1 DEF CountIsViews
  <2>2. Opened(u)' <=> Opened(u)
    BY <1>1 DEF Opened
  <2>3. refs[u] = ViewsOf(u)
    BY DEF WatchInv, CountIsViews
  <2> QED BY <1>2, <1>3, <2>2, <2>3 DEF ViewsOf
<1> QED BY <1>2, <1>4, <1>5, <1>6, <1>7 DEF WatchInv

LEMMA CloseViewerStep ==
  ASSUME WatchInv, NEW t \in Topic, CloseViewer(t)
  PROVE  WatchInv'
<1>1. /\ viewers[t] > 0 /\ payloads' = payloads \ {t} /\ Unwatch({t})
      /\ viewers' = [viewers EXCEPT ![t] = @ - 1]
      /\ UNCHANGED <<graph, blinked, listed, matching, cards, pushed, rebound>>
  BY DEF CloseViewer, PayloadsAfter
<1>2. /\ refs' \in [Topic -> Nat] /\ tracked' \in SUBSET Topic /\ wentAway' \in SUBSET Topic
      /\ WatchedIsTracked'
      /\ \A u \in tracked' : u \in listed' /\ refs'[u] > 0
      /\ \A u \in Topic :
           refs'[u] = IF u \in {t} /\ refs[u] > 0 THEN refs[u] - 1 ELSE refs[u]
  BY <1>1, UnwatchKeeps
<1>3. /\ viewers \in [Topic -> Nat] /\ viewers' \in [Topic -> Nat]
      /\ viewers'[t] = viewers[t] - 1
      /\ \A u \in Topic \ {t} : viewers'[u] = viewers[u]
  BY <1>1 DEF WatchInv, TypeOK
<1>4. TypeOK'
  BY <1>1, <1>2, <1>3 DEF WatchInv, TypeOK
<1>5. OneCardPerTopic' /\ ListedWasSeen'
  BY <1>1 DEF WatchInv, OneCardPerTopic, ListedWasSeen
<1>6. NoUnwantedReader'
  <2>1. \A u \in payloads : u \in Topic /\ u \in listed /\ viewers[u] > 0
    BY DEF WatchInv, TypeOK, NoUnwantedReader
  <2>2. \A u \in payloads' : u \in listed' /\ viewers'[u] > 0
    BY <1>1, <1>3, <2>1
  <2> QED BY <1>2, <2>2 DEF NoUnwantedReader
<1>7. CountIsViews'
  <2>1. SUFFICES ASSUME NEW u \in Topic \ rebound PROVE refs'[u] = ViewsOf(u)'
    BY <1>1 DEF CountIsViews
  <2>2. Opened(u)' <=> Opened(u)
    BY <1>1 DEF Opened
  <2>3. refs[u] = ViewsOf(u)
    BY DEF WatchInv, CountIsViews
  <2> QED BY <1>1, <1>2, <1>3, <2>2, <2>3 DEF ViewsOf
<1> QED BY <1>2, <1>4, <1>5, <1>6, <1>7 DEF WatchInv

LEMMA WatchStep == WatchInv /\ [Next]_vars => WatchInv'
BY QuietStep, TickStep, FrameStep, ToggleStep, OpenViewerStep, CloseViewerStep DEF Next

-----------------------------------------------------------------------------
\* The inductive invariant, in every reachable state.
THEOREM WatchCorrect == Spec => []WatchInv
BY WatchInit, WatchStep, PTL DEF Spec

\* With at most one card for a topic, what counts the expanded cards counts one
\* or none.
LEMMA ViewsAreWatchers ==
  ASSUME WatchInv, NEW t \in Topic
  PROVE  Watchers(t) = ViewsOf(t)
<1> DEFINE C == {i \in DOMAIN cards : cards[i] = [topic |-> t, expanded |-> TRUE]}
<1>0. viewers[t] \in Nat
  BY DEF WatchInv, TypeOK
<1>1. CASE Opened(t)
  <2>1. PICK i \in DOMAIN cards : cards[i] = [topic |-> t, expanded |-> TRUE]
    BY <1>1 DEF Opened
  <2>2. \A j \in C : cards[j].topic = t
    OBVIOUS
  <2>3. \A j \in C : j = i
    BY <2>1, <2>2 DEF WatchInv, OneCardPerTopic
  <2>4. C = {i}
    BY <2>1, <2>3
  <2>5. Cardinality(C) = 1
    BY <2>4, FS_Singleton
  <2> QED BY <1>0, <1>1, <2>5 DEF Watchers, ViewsOf
<1>2. CASE ~Opened(t)
  <2>1. C = {}
    BY <1>2 DEF Opened
  <2>2. Cardinality(C) = 0
    BY <2>1, FS_EmptySet
  <2> QED BY <1>0, <1>2, <2>2 DEF Watchers, ViewsOf
<1> QED BY <1>1, <1>2

\* Every variable has its type; the cards built are within the list.
THEOREM WatchTypes == Spec => []TypeOK
<1>1. WatchInv => TypeOK
  BY DEF WatchInv
<1> QED BY <1>1, WatchCorrect, PTL

\* Through any scrolling, filtering, discovery and viewers, the count of a topic
\* is the number of its open views, if no expanded card of it was handed another.
THEOREM CountCorrect == Spec => []CountIsWatchers
<1>1. WatchInv => CountIsWatchers
  BY ViewsAreWatchers DEF WatchInv, CountIsViews, CountIsWatchers
<1> QED BY <1>1, WatchCorrect, PTL

\* A watched topic has its reader unless the topic went away under it.
THEOREM WatchedCorrect == Spec => []WatchedIsTracked
<1>1. WatchInv => WatchedIsTracked
  BY DEF WatchInv
<1> QED BY <1>1, WatchCorrect, PTL

\* No native reader outlives the last watcher of its topic, or its viewer.
THEOREM ReadersCorrect == Spec => []NoUnwantedReader
<1>1. WatchInv => NoUnwantedReader
  BY DEF WatchInv
<1> QED BY <1>1, WatchCorrect, PTL

-----------------------------------------------------------------------------
(* When nothing leaks.                                                      *)

\* A native stats reader whose topic was never moved onto or off an expanded
\* card has an open view.
LeakIsRebound == \A t \in tracked \ rebound : Watchers(t) > 0

\* The only way to a reader without a view, which NoLeakedReader is refuted by,
\* is a rebuild that hands an expanded card another topic: no other order of
\* scrolling, filtering, discovery and viewers leaves one.
THEOREM LeakCorrect == Spec => []LeakIsRebound
<1>1. NoUnwantedReader /\ CountIsWatchers /\ TypeOK => LeakIsRebound
  BY DEF NoUnwantedReader, CountIsWatchers, TypeOK, LeakIsRebound
<1> QED BY <1>1, ReadersCorrect, CountCorrect, WatchTypes, PTL

-----------------------------------------------------------------------------
(* The refinement of Watching.                                              *)

LEMMA CountsAreViews == WatchInv => CountIsWatchers
BY ViewsAreWatchers DEF WatchInv, CountIsViews, CountIsWatchers

LEMMA CountsAreViewsNext == WatchInv' => CountIsWatchers'
BY CountsAreViews, PTL

\* Where nothing was moved a step of the views is one of the counts.
LEMMA KeptView ==
  ASSUME WatchInv, WatchInv', NEW t \in Topic, t \notin rebound, t \notin rebound',
         refs'[t] = refs[t], t \in tracked' <=> t \in tracked
  PROVE  Promise!Keeps(t)
<1>1. Watchers(t) = refs[t] /\ Watchers(t)' = refs'[t]
  BY CountsAreViews, CountsAreViewsNext DEF CountIsWatchers
<1> QED BY <1>1 DEF Promise!Keeps

LEMMA OpenedView ==
  ASSUME WatchInv, WatchInv', NEW t \in Topic, UNCHANGED <<listed, rebound>>, Watch(t)
  PROVE  Promise!Open(t)
<1>1. /\ refs'[t] = refs[t] + 1
      /\ tracked' = IF refs[t] = 0 /\ t \in listed THEN tracked \cup {t} ELSE tracked
      /\ \A u \in Topic \ {t} : refs'[u] = refs[u] /\ (u \in tracked' <=> u \in tracked)
  BY DEF Watch, WatchInv, TypeOK
<1>2. ASSUME t \notin rebound PROVE Promise!Opens(t)
  <2>1. Watchers(t) = refs[t] /\ Watchers(t)' = refs'[t]
    BY <1>2, CountsAreViews, CountsAreViewsNext DEF CountIsWatchers
  <2> QED BY <1>1, <2>1 DEF Promise!Opens
<1>3. ASSUME NEW u \in Topic \ rebound PROVE IF u = t THEN Promise!Opens(u) ELSE Promise!Keeps(u)
  BY <1>1, <1>2, <1>3, KeptView
<1>4. tracked' \subseteq listed
  BY <1>1 DEF WatchInv, NoUnwantedReader
<1> QED BY <1>3, <1>4 DEF Promise!Open

LEMMA ClosedViews ==
  ASSUME WatchInv, WatchInv', NEW U \in SUBSET Topic, UNCHANGED listed,
         rebound \subseteq rebound', Unwatch(U)
  PROVE  \E T \in SUBSET Topic : Promise!Close(T)
<1> DEFINE T == {t \in U : refs[t] > 0}
<1>1. /\ \A t \in Topic : refs'[t] = IF t \in T THEN refs[t] - 1 ELSE refs[t]
      /\ tracked' = tracked \ {t \in U : refs[t] <= 1}
      /\ \A t \in Topic : refs[t] \in Nat
  BY DEF Unwatch, CountAfter, LastWatcher, WatchInv, TypeOK
<1>2. ASSUME NEW t \in Topic \ rebound', t \in T PROVE Promise!Closes(t)
  <2>1. Watchers(t) = refs[t] /\ Watchers(t)' = refs'[t]
    BY <1>2, CountsAreViews, CountsAreViewsNext DEF CountIsWatchers
  <2>2. t \in tracked' <=> t \in tracked /\ refs'[t] > 0
    BY <1>1, <1>2
  <2> QED BY <1>1, <1>2, <2>1, <2>2 DEF Promise!Closes
<1>3. ASSUME NEW t \in Topic \ rebound', t \notin T PROVE Promise!Keeps(t)
  <2>1. refs'[t] = refs[t]
    BY <1>1, <1>3
  <2>2. t \in tracked' <=> t \in tracked
    <3>1. t \in tracked => refs[t] > 0
      BY DEF WatchInv, NoUnwantedReader
    <3> QED BY <1>1, <1>3, <3>1
  <2> QED BY <1>3, <2>1, <2>2, KeptView
<1>4. tracked' \subseteq listed
  BY <1>1 DEF WatchInv, NoUnwantedReader
<1> HIDE DEF T
<1>5. Promise!Close(T)
  BY <1>2, <1>3, <1>4 DEF Promise!Close
<1>6. T \in SUBSET Topic
  BY DEF T
<1> QED BY <1>5, <1>6

LEMMA WatchingStep ==
  ASSUME WatchInv, WatchInv', [Next]_vars
  PROVE  [Promise!Next]_(Promise!vars)
<1>1. CASE \/ \E t \in Topic : TopicAppears(t) \/ TopicVanishes(t)
           \/ \E S \in SUBSET Topic : Search(S)
           \/ \E i \in DOMAIN cards : Visualize(i)
           \/ UNCHANGED vars
  <2>1. UNCHANGED <<listed, tracked, cards, viewers, rebound>>
    BY <1>1 DEF TopicAppears, TopicVanishes, Search, Visualize, vars, nativeVars, viewerVars,
                historyVars
  <2>2. [t \in Topic |-> Watchers(t)]' = [t \in Topic |-> Watchers(t)]
    BY <2>1 DEF Watchers
  <2> QED BY <2>1, <2>2 DEF Promise!vars
<1>2. ASSUME NEW lost \in SUBSET Topic, Tick(lost) PROVE Promise!Next
  <2>1. tracked' = tracked \ lost /\ UNCHANGED <<cards, viewers, rebound>>
    BY <1>2 DEF Tick, TrackedAfter, viewerVars
  <2>2. [t \in Topic |-> Watchers(t)]' = [t \in Topic |-> Watchers(t)]
    BY <2>1 DEF Watchers
  <2>3. tracked' \subseteq listed'
    BY DEF WatchInv, NoUnwantedReader
  <2>4. Promise!Discover
    BY <2>1, <2>2, <2>3 DEF Promise!Discover
  <2> QED BY <2>4 DEF Promise!Next
<1>3. ASSUME NEW w \in Windows, Frame(w) PROVE Promise!Next
  <2>1. Unwatch(DisposedTopics(w)) /\ UNCHANGED listed /\ rebound \subseteq rebound'
    BY <1>3 DEF Frame
  <2>2. DisposedTopics(w) \in SUBSET Topic
    <3>1. \A i \in DOMAIN cards : cards[i].topic \in Topic
      BY DEF WatchInv, TypeOK, Card
    <3> QED BY <3>1 DEF DisposedTopics, Expanded
  <2> QED BY <2>1, <2>2, ClosedViews DEF Promise!Next
<1>4. ASSUME NEW i \in DOMAIN cards, Expand(i) \/ Collapse(i) PROVE Promise!Next
  <2>1. PICK t \in Topic : t = cards[i].topic
    BY DEF WatchInv, TypeOK, Card
  <2>2. UNCHANGED <<listed, rebound>> /\ (Watch(t) \/ Unwatch({t}))
    BY <1>4, <2>1 DEF Expand, Collapse
  <2> QED BY <2>1, <2>2, OpenedView, ClosedViews DEF Promise!Next
<1>5. ASSUME NEW t \in Topic, OpenViewer(t) \/ CloseViewer(t) PROVE Promise!Next
  <2>1. UNCHANGED <<listed, rebound>> /\ (Watch(t) \/ Unwatch({t}))
    BY <1>5 DEF OpenViewer, CloseViewer
  <2> QED BY <2>1, OpenedView, ClosedViews DEF Promise!Next
<1> QED BY <1>1, <1>2, <1>3, <1>4, <1>5 DEF Next

\* The reference counts implement Watching: for every topic no rebuild has moved,
\* the native reader is made with the first view and deleted with the last.
THEOREM WatchingRefinement == Spec => ImplementsWatching
<1>1. Init => Promise!Init
  <2>1. SUFFICES ASSUME Init PROVE Promise!Init
    OBVIOUS
  <2>2. \A t \in Topic : Watchers(t) = 0
    <3>1. WatchInv /\ rebound = {} /\ refs = [t \in Topic |-> 0]
      BY <2>1, WatchInit DEF Init
    <3> QED BY <3>1, CountsAreViews DEF CountIsWatchers
  <2> QED BY <2>1, <2>2 DEF Init, Promise!Init
<1>2. WatchInv /\ WatchInv' /\ [Next]_vars => [Promise!Next]_(Promise!vars)
  BY WatchingStep
<1> QED BY <1>1, <1>2, WatchCorrect, PTL DEF Spec, ImplementsWatching, Promise!Spec
=============================================================================
