---------------------------- MODULE NewsStoreProofs ----------------------------
(***************************************************************************)
(* Proofs about NewsStore.  Two things are behind every property: the list *)
(* holds one item for a value, and the acknowledged item of a value stays  *)
(* until the chain has grown past the height it was acknowledged at.       *)
(***************************************************************************)
EXTENDS NewsStore, BitcoinNodeProofs

\* No acknowledgement carries a height the chain has not reached; a stored one
\* is the last of its value, one no longer stored is of an earlier block.
AcksKept ==
    /\ \A n \in News : lastAck[n] <= height
    /\ \A i \in Stored(items) : i.acked # 0 => i.acked = lastAck[i.news]
    /\ \A n \in News :
         \/ lastAck[n] < height
         \/ lastAck[n] # 0 /\ [news |-> n, acked |-> lastAck[n]] \in Stored(items)

NewsInv == NewsTypeOK /\ IndexAgrees /\ AcksKept

\* The heights of a state satisfying the invariant.
LEMMA NewsHeights ==
    ASSUME NewsTypeOK
    PROVE  /\ height \in Nat /\ vheight \in Nat /\ vheight # 0 /\ height # 0
           /\ height \in 0..MaxHeight /\ vheight \in 0..MaxHeight
           /\ MaxHeight \in Nat
           /\ \A n \in News : lastAck[n] \in 0..MaxHeight
  BY NodeAssumption DEF NewsTypeOK, NodeTypeOK, Heights

\* The news store moves the node and the index as BitcoinNodeProofs knows them.
LEMMA NewsNodeSteps ==
    ASSUME NewsTypeOK, IndexAgrees, [Next]_vars
    PROVE  NodeTypeOK' /\ IndexAgrees' /\ height' >= height
<1>1. NodeStep
  BY DEF Next, TickNotReady, Tick, Refuse, Ack, Turn, vars, NodeStep
<1>2. QED
  BY <1>1, NodeType, NodeAgrees, TipNeverFalls DEF NewsTypeOK

-----------------------------------------------------------------------------
(* What the operations on the list do. *)

\* A list with at most one item for each value.
OnePerValue(list) ==
    /\ list \in [Item -> 0..1]
    /\ \A i, j \in Stored(list) : i.news = j.news => i = j

\* add_news keeps what is stored, adds unread items of the asked values only,
\* and leaves none of these values out.
LEMMA AddNewsAdds ==
    ASSUME NEW list, OnePerValue(list), NEW S \in SUBSET News
    PROVE  /\ OnePerValue(AddNews(list, S))
           /\ Stored(AddNews(list, S)) = Stored(list) \cup {Fresh(n) : n \in S \ Values(list)}
<1> DEFINE new == AddNews(list, S)
<1>0. 0 \in 0..MaxHeight
  BY NodeAssumption
<1>1. \A n \in News : Fresh(n) \in Item
  BY <1>0 DEF Fresh, Item
<1>2. \A i \in Item : i.acked = 0 => i = Fresh(i.news)
  BY DEF Item, Fresh
<1>3. \A i \in Item : i.news \notin Values(list) => list[i] = 0
  BY DEF Values, Stored, OnePerValue
<1>4. ASSUME NEW i \in Item
      PROVE  new[i] = IF i.acked = 0 /\ i.news \in S \ Values(list) THEN list[i] + 1 ELSE list[i]
  BY DEF AddNews
<1>5. new \in [Item -> 0..1]
  BY <1>3 DEF AddNews, OnePerValue
<1>6. Stored(new) = Stored(list) \cup {Fresh(n) : n \in S \ Values(list)}
  <2>1. ASSUME NEW i \in Stored(new) PROVE i \in Stored(list) \cup {Fresh(n) : n \in S \ Values(list)}
    BY <1>2, <1>4, <2>1 DEF Stored
  <2>2. ASSUME NEW i \in Stored(list) PROVE i \in Stored(new)
    BY <1>4, <2>2 DEF Stored, OnePerValue
  <2>3. ASSUME NEW n \in S \ Values(list) PROVE Fresh(n) \in Stored(new)
    BY <1>1, <1>3, <1>4 DEF Stored, Fresh
  <2>4. QED
    BY <2>1, <2>2, <2>3
<1>7. ASSUME NEW i \in Stored(new), NEW j \in Stored(new), i.news = j.news PROVE i = j
  <2>1. \A k \in Stored(list) : k.news \in Values(list)
    BY DEF Values
  <2>2. \A n \in News : Fresh(n).news = n
    BY DEF Fresh
  <2>3. QED
    BY <1>6, <1>7, <2>1, <2>2 DEF OnePerValue
<1>8. QED
  BY <1>5, <1>6, <1>7 DEF OnePerValue

\* cleanup_news removes exactly what was acknowledged in earlier blocks.
LEMMA CleanupRemoves ==
    ASSUME NEW list, OnePerValue(list), NEW h
    PROVE  /\ OnePerValue(CleanupNews(list, h))
           /\ Stored(CleanupNews(list, h)) = {i \in Stored(list) : i.acked = 0 \/ i.acked >= h}
<1>1. CleanupNews(list, h) \in [Item -> 0..1]
  BY DEF CleanupNews, OnePerValue
<1>2. Stored(CleanupNews(list, h)) = {i \in Stored(list) : i.acked = 0 \/ i.acked >= h}
  BY DEF CleanupNews, Stored, OnePerValue
<1>3. QED
  BY <1>1, <1>2 DEF OnePerValue

\* ack_news turns the unread item of n into one acknowledged at h.
LEMMA AckMoves ==
    ASSUME NEW list, OnePerValue(list), NEW n \in News, NEW h \in 0..MaxHeight, h # 0,
           Fresh(n) \in Stored(list)
    PROVE  /\ OnePerValue(AckNews(list, n, h))
           /\ Stored(AckNews(list, n, h)) =
                (Stored(list) \ {Fresh(n)}) \cup {[news |-> n, acked |-> h]}
           /\ AckNews(list, n, h) # list
<1> DEFINE new == AckNews(list, n, h)
           done == [news |-> n, acked |-> h]
<1>1. Fresh(n) \in Item /\ done \in Item /\ done # Fresh(n) /\ Fresh(n).news = done.news
  BY DEF Fresh, Item, Stored
<1>2. list[Fresh(n)] = 1 /\ list[done] = 0
  BY <1>1 DEF OnePerValue, Stored
<1>3. /\ new \in [Item -> 0..1]
      /\ \A i \in Item : new[i] = IF i = Fresh(n) THEN 0 ELSE IF i = done THEN 1 ELSE list[i]
  BY <1>1, <1>2 DEF AckNews, OnePerValue
<1>4. Stored(new) = (Stored(list) \ {Fresh(n)}) \cup {done}
  BY <1>1, <1>3 DEF Stored
<1>5. ASSUME NEW i \in Stored(new), NEW j \in Stored(new), i.news = j.news PROVE i = j
  BY <1>1, <1>4, <1>5 DEF OnePerValue
<1>6. new # list
  BY <1>1, <1>2, <1>3
<1>7. QED
  BY <1>3, <1>4, <1>5, <1>6 DEF OnePerValue

-----------------------------------------------------------------------------
(* The invariant. *)

\* A tick first drops what earlier blocks acknowledged, then adds the news of the
\* conditions it meets.
LEMMA TickStores ==
    ASSUME NewsInv, NEW met \in SUBSET Conditions, Tick(met)
    PROVE  LET kept == {i \in Stored(items) : i.acked = 0 \/ i.acked >= height}
               held == {i.news : i \in kept}
           IN  /\ OnePerValue(items')
               /\ Stored(items') = kept \cup {Fresh(n) : n \in met \ held}
<1> DEFINE clean == CleanupNews(items, height)
<1>1. OnePerValue(items)
  BY DEF NewsInv, NewsTypeOK, OnePerValue
<1>2. /\ OnePerValue(clean)
      /\ Stored(clean) = {i \in Stored(items) : i.acked = 0 \/ i.acked >= height}
  BY <1>1, CleanupRemoves
<1>3. items' = AddNews(clean, met) /\ met \in SUBSET News
  BY DEF Tick, News
<1>4. Values(clean) = {i.news : i \in Stored(clean)}
  BY DEF Values
<1> HIDE DEF clean
<1>5. QED
  BY <1>2, <1>3, <1>4, AddNewsAdds

\* A tick keeps the invariant.
LEMMA TickKeepsNews ==
    ASSUME NewsInv, IndexAgrees', NodeTypeOK', NEW met \in SUBSET Conditions, Tick(met)
    PROVE  NewsInv'
<1> DEFINE kept == {i \in Stored(items) : i.acked = 0 \/ i.acked >= height}
           held == {i.news : i \in kept}
<1>1. OnePerValue(items') /\ Stored(items') = kept \cup {Fresh(n) : n \in met \ held}
  BY TickStores
<1>2. UNCHANGED <<height, holding, lastAck>>
  BY DEF Tick, MonitorTick, nodeVars
<1>3. NewsTypeOK'
  BY <1>1, <1>2 DEF NewsInv, NewsTypeOK, OnePerValue
<1>4. \A n : Fresh(n).acked = 0
  BY DEF Fresh
<1>5. \A i \in Stored(items') : i.acked # 0 => i \in kept
  BY <1>1, <1>4
<1>6. AcksKept'
  <2>1. \A n \in News : lastAck'[n] <= height'
    BY <1>2 DEF NewsInv, AcksKept
  <2>2. \A i \in Stored(items') : i.acked # 0 => i.acked = lastAck'[i.news]
    BY <1>2, <1>5 DEF NewsInv, AcksKept
  <2>3. ASSUME NEW n \in News, ~(lastAck'[n] < height')
        PROVE  lastAck'[n] # 0 /\ [news |-> n, acked |-> lastAck'[n]] \in Stored(items')
    <3>1. lastAck[n] \in Nat /\ height \in Nat /\ ~(lastAck[n] < height)
      BY <1>2, <2>3, NewsHeights DEF NewsInv
    <3>2. lastAck[n] # 0 /\ [news |-> n, acked |-> lastAck[n]] \in Stored(items)
      BY <3>1 DEF NewsInv, AcksKept
    <3>3. [news |-> n, acked |-> lastAck[n]] \in kept
      BY <3>1, <3>2
    <3>4. QED
      BY <1>1, <1>2, <3>2, <3>3
  <2>4. QED
    BY <2>1, <2>2, <2>3 DEF AcksKept
<1>7. QED
  BY <1>3, <1>6 DEF NewsInv

\* A refused call keeps the invariant: it adds at most an unread item.
LEMMA RefuseKeepsNews ==
    ASSUME NewsInv, NEW n \in Refusals, Refuse(n)
    PROVE  /\ NewsInv'
           /\ Stored(items') = Stored(items) \cup {Fresh(m) : m \in {n} \ Values(items)}
<1>1. OnePerValue(items) /\ {n} \in SUBSET News
  BY DEF NewsInv, NewsTypeOK, OnePerValue, News
<1>2. /\ OnePerValue(items')
      /\ Stored(items') = Stored(items) \cup {Fresh(m) : m \in {n} \ Values(items)}
  BY <1>1, AddNewsAdds DEF Refuse
<1>3. UNCHANGED <<nodeVars, viewVars, holding, lastAck>>
  BY DEF Refuse
<1>4. NewsTypeOK' /\ IndexAgrees'
  BY <1>2, <1>3 DEF NewsInv, NewsTypeOK, NodeTypeOK, IndexAgrees, OnePerValue, nodeVars, viewVars
<1>5. \A m : Fresh(m).acked = 0
  BY DEF Fresh
<1>6. \A i \in Stored(items') : i.acked # 0 => i \in Stored(items)
  BY <1>2, <1>5
<1>7. AcksKept'
  BY <1>2, <1>3, <1>6 DEF NewsInv, AcksKept, nodeVars
<1>8. QED
  BY <1>2, <1>4, <1>7 DEF NewsInv

\* An acknowledgement keeps the invariant, and hides the item or does nothing.
LEMMA AckKeepsNews ==
    ASSUME NewsInv, NEW n \in News, Ack(n)
    PROVE  /\ NewsInv'
           /\ \/ Fresh(n) \notin Stored(items) /\ UNCHANGED <<items, lastAck>>
              \/ /\ Fresh(n) \in Stored(items)
                 /\ Stored(items') = (Stored(items) \ {Fresh(n)}) \cup {[news |-> n, acked |-> vheight]}
                 /\ lastAck' = [lastAck EXCEPT ![n] = vheight]
<1>1. OnePerValue(items) /\ Fresh(n) \in Item
  BY NodeAssumption DEF NewsInv, NewsTypeOK, OnePerValue, Fresh, Item
<1>2. UNCHANGED <<nodeVars, viewVars, holding>>
  BY DEF Ack
<1>3. vheight \in 0..MaxHeight /\ vheight # 0 /\ height \in Nat /\ vheight <= height
  BY NewsHeights DEF NewsInv, IndexAgrees
<1>4. CASE Fresh(n) \notin Stored(items)
  <2>1. items[Fresh(n)] = 0
    BY <1>1, <1>4 DEF Stored, OnePerValue
  <2>2. UNCHANGED <<items, lastAck>>
    BY <2>1 DEF Ack, AckNews
  <2>3. NewsInv'
    BY <1>2, <2>2 DEF NewsInv, NewsTypeOK, NodeTypeOK, IndexAgrees, AcksKept, nodeVars, viewVars
  <2>4. QED
    BY <1>4, <2>2, <2>3
<1>5. CASE Fresh(n) \in Stored(items)
  <2>1. /\ OnePerValue(items')
        /\ Stored(items') = (Stored(items) \ {Fresh(n)}) \cup {[news |-> n, acked |-> vheight]}
        /\ items' # items
    BY <1>1, <1>3, <1>5, AckMoves DEF Ack
  <2>2. lastAck' = [lastAck EXCEPT ![n] = vheight]
    BY <2>1 DEF Ack
  <2>3. NewsTypeOK' /\ IndexAgrees'
    BY <1>2, <1>3, <2>1, <2>2
       DEF NewsInv, NewsTypeOK, NodeTypeOK, IndexAgrees, OnePerValue, nodeVars, viewVars
  <2>4. \A m \in News : lastAck'[m] = IF m = n THEN vheight ELSE lastAck[m]
    BY <2>2 DEF NewsInv, NewsTypeOK
  <2>5. \A m \in News : lastAck'[m] <= height'
    BY <1>2, <1>3, <2>4 DEF NewsInv, AcksKept, nodeVars
  <2>6. ASSUME NEW i \in Stored(items'), i.acked # 0 PROVE i.acked = lastAck'[i.news]
    <3>1. CASE i = [news |-> n, acked |-> vheight]
      BY <2>4, <3>1
    <3>2. CASE i # [news |-> n, acked |-> vheight]
      <4>1. i \in Stored(items) /\ i.news # n /\ i.news \in News
        BY <1>1, <1>5, <2>1, <3>2 DEF OnePerValue, Fresh, Stored, Item
      <4>2. QED
        BY <2>4, <2>6, <4>1 DEF NewsInv, AcksKept
    <3>3. QED
      BY <3>1, <3>2
  <2>7. ASSUME NEW m \in News
        PROVE  \/ lastAck'[m] < height'
               \/ lastAck'[m] # 0 /\ [news |-> m, acked |-> lastAck'[m]] \in Stored(items')
    <3>1. CASE m = n
      BY <1>3, <2>1, <2>4, <3>1
    <3>2. CASE m # n
      <4>1. [news |-> m, acked |-> lastAck[m]] # Fresh(n)
        BY <3>2 DEF Fresh
      <4>2. QED
        BY <1>2, <2>1, <2>4, <3>2, <4>1 DEF NewsInv, AcksKept, nodeVars
    <3>3. QED
      BY <3>1, <3>2
  <2>8. AcksKept'
    BY <2>5, <2>6, <2>7 DEF AcksKept
  <2>9. QED
    BY <1>5, <2>1, <2>2, <2>3, <2>8 DEF NewsInv
<1>6. QED
  BY <1>4, <1>5

\* Every step keeps the invariant.
LEMMA NewsInvStep == NewsInv /\ [Next]_vars => NewsInv'
<1> SUFFICES ASSUME NewsInv, [Next]_vars PROVE NewsInv'
  OBVIOUS
<1>1. NodeTypeOK' /\ IndexAgrees' /\ height' >= height
  BY NewsNodeSteps DEF NewsInv
<1>2. CASE \E met \in SUBSET Conditions : Tick(met)
  BY <1>1, <1>2, TickKeepsNews
<1>3. CASE \E n \in Refusals : Refuse(n)
  BY <1>3, RefuseKeepsNews
<1>4. CASE \E n \in News : Ack(n)
  BY <1>4, AckKeepsNews
<1>5. ASSUME UNCHANGED <<items, lastAck>>, holding' \subseteq Conditions
      PROVE  NewsInv'
  <2>1. NewsTypeOK'
    BY <1>1, <1>5 DEF NewsInv, NewsTypeOK
  <2>2. \A n \in News : lastAck'[n] <= height' /\ (lastAck[n] < height => lastAck'[n] < height')
    BY <1>1, <1>5, <2>1, NewsHeights DEF NewsInv, AcksKept, NewsTypeOK, NodeTypeOK, Heights
  <2>3. AcksKept'
    BY <1>5, <2>2 DEF NewsInv, AcksKept
  <2>4. QED
    BY <1>1, <2>1, <2>3 DEF NewsInv
<1>6. (\E c \in Conditions : Turn(c)) => UNCHANGED <<items, lastAck>> /\ holding' \subseteq Conditions
  BY DEF Turn, SymDiff, NewsInv, NewsTypeOK
<1>7. TickNotReady \/ (NetworkStep /\ UNCHANGED newsVars) \/ UNCHANGED vars
        => UNCHANGED <<items, lastAck>> /\ holding' \subseteq Conditions
  BY DEF TickNotReady, newsVars, vars, NewsInv, NewsTypeOK
<1>8. QED
  BY <1>2, <1>3, <1>4, <1>5, <1>6, <1>7 DEF Next

\* The invariant holds in every reachable state.
LEMMA NewsInvariance == Spec => []NewsInv
<1>1. Init => NewsInv
  <2> SUFFICES ASSUME Init PROVE NewsInv
    OBVIOUS
  <2>1. NodeTypeOK /\ IndexAgrees /\ height = 1
    BY NodeStart DEF Init, NodeInit
  <2>2. items \in [Item -> 0..1] /\ Stored(items) = {}
    BY DEF Init, Stored
  <2>3. lastAck \in [News -> 0..MaxHeight] /\ \A n \in News : lastAck[n] = 0
    BY NodeAssumption DEF Init
  <2>4. QED
    BY <2>1, <2>2, <2>3 DEF Init, NewsInv, NewsTypeOK, AcksKept
<1>2. NewsInv /\ [Next]_vars => NewsInv'
  BY NewsInvStep
<1>3. QED
  BY <1>1, <1>2, PTL DEF Spec

\* The stored list is well-formed and holds no value twice.
THEOREM OneItemPerValue == Spec => []NewsTypeOK
<1>1. NewsInv => NewsTypeOK
  BY DEF NewsInv
<1>2. QED
  BY <1>1, NewsInvariance, PTL

-----------------------------------------------------------------------------
(* What the client sees. *)

\* get_news in terms of the stored items.
LEMMA UnreadIsFresh ==
    \A n \in News : /\ n \in Unread <=> Fresh(n) \in Stored(items)
                    /\ n \in Unread' <=> Fresh(n) \in Stored(items')
<1>1. \A n \in News : Fresh(n) \in Item
  BY NodeAssumption DEF Fresh, Item
<1>2. QED
  BY <1>1 DEF Unread, Stored

\* A tick keeps every unread item and adds some of the conditions it met.
LEMMA TickPublishes ==
    ASSUME NewsInv, NewsInv', NEW met \in SUBSET Conditions, Tick(met)
    PROVE  /\ Unread \subseteq Unread'
           /\ \A n \in Unread' \ Unread :
                 \A i \in Stored(items) : i.news = n => i.acked # 0 /\ i.acked < height
           /\ \A n \in met : n \in Unread' \/ \E i \in Stored(items) :
                                i.news = n /\ i.acked # 0 /\ i.acked >= height
<1> DEFINE kept == {i \in Stored(items) : i.acked = 0 \/ i.acked >= height}
           held == {i.news : i \in kept}
<1>1. Stored(items') = kept \cup {Fresh(n) : n \in met \ held}
  BY TickStores
<1>2. \A n \in News : /\ n \in Unread <=> Fresh(n) \in Stored(items)
                      /\ n \in Unread' <=> Fresh(n) \in Stored(items')
  BY UnreadIsFresh
<1>3. \A n \in News : Fresh(n).acked = 0 /\ Fresh(n).news = n
  BY DEF Fresh
<1>4. Unread \subseteq News /\ Unread' \subseteq News /\ met \subseteq News
  BY DEF Unread, News
<1>5. Unread \subseteq Unread'
  BY <1>1, <1>2, <1>3, <1>4
<1>6. ASSUME NEW n \in Unread' \ Unread, NEW i \in Stored(items), i.news = n
      PROVE  i.acked # 0 /\ i.acked < height
  <2>1. Fresh(n) \notin kept /\ Fresh(n) \in Stored(items')
    BY <1>2, <1>3, <1>4, <1>6
  <2>2. PICK m \in met \ held : Fresh(n) = Fresh(m)
    BY <1>1, <2>1
  <2>3. n = m
    BY <1>3, <1>4, <1>6, <2>2
  <2>4. i \notin kept
    BY <1>6, <2>2, <2>3
  <2>5. i.acked \in Nat /\ height \in Nat
    BY NewsHeights DEF NewsInv, Stored, Item
  <2>6. QED
    BY <2>4, <2>5
<1>7. ASSUME NEW n \in met, n \notin Unread'
      PROVE  \E i \in Stored(items) : i.news = n /\ i.acked # 0 /\ i.acked >= height
  <2>1. Fresh(n) \notin Stored(items')
    BY <1>2, <1>4, <1>7
  <2>2. PICK i \in kept : i.news = n
    BY <1>1, <1>7, <2>1
  <2>3. i # Fresh(n)
    BY <1>1, <2>1, <2>2
  <2>4. i \in Item
    BY DEF Stored
  <2>5. i.acked # 0
    BY <2>2, <2>3, <2>4 DEF Item, Fresh
  <2>6. QED
    BY <2>2, <2>5
<1>8. QED
  BY <1>5, <1>6, <1>7

\* The news store implements the mailbox: nothing the client has not
\* acknowledged disappears, and an acknowledgement takes one value away.
THEOREM NewsImplementsMailbox == Spec => ImplementsMailbox
<1>1. Init => Box!Init
  <2> SUFFICES ASSUME Init PROVE Unread = {}
    BY DEF Box!Init
  <2>1. \A n \in News : Fresh(n) \in Item
    BY NodeAssumption DEF Fresh, Item
  <2>2. QED
    BY <2>1 DEF Init, Unread
<1>2. NewsInv /\ NewsInv' /\ [Next]_vars => [Box!Next]_Unread
  <2> SUFFICES ASSUME NewsInv, NewsInv', [Next]_vars PROVE Box!Next \/ Unread' = Unread
    OBVIOUS
  <2>1. Unread' \in SUBSET News /\ Unread \in SUBSET News
    BY DEF Unread
  <2>2. Unread \subseteq Unread' => Box!Next
    <3>1. Unread \subseteq Unread' => Unread' = Unread \cup Unread'
      OBVIOUS
    <3>2. QED
      BY <2>1, <3>1 DEF Box!Next, Box!Publish
  <2>3. CASE \E met \in SUBSET Conditions : Tick(met)
    BY <2>2, <2>3, TickPublishes
  <2>4. /\ \A n \in News : n \in Unread <=> Fresh(n) \in Stored(items)
        /\ \A n \in News : n \in Unread' <=> Fresh(n) \in Stored(items')
    BY UnreadIsFresh
  <2>5. CASE \E n \in Refusals : Refuse(n)
    BY <2>1, <2>2, <2>4, <2>5, RefuseKeepsNews
  <2>6. ASSUME NEW n \in News, Ack(n) PROVE Box!Next \/ Unread' = Unread
    <3>1. CASE UNCHANGED items
      BY <3>1 DEF Unread
    <3>2. CASE /\ Fresh(n) \in Stored(items)
               /\ Stored(items') = (Stored(items) \ {Fresh(n)}) \cup {[news |-> n, acked |-> vheight]}
      <4>1. \A m \in News : Fresh(m) # [news |-> n, acked |-> vheight]
        BY NewsHeights DEF NewsInv, Fresh
      <4>2. \A m \in News : Fresh(m) = Fresh(n) <=> m = n
        BY DEF Fresh
      <4>3. n \in Unread /\ Unread' = Unread \ {n}
        BY <2>1, <2>4, <3>2, <4>1, <4>2
      <4>4. QED
        BY <4>3 DEF Box!Next, Box!Acknowledge
    <3>3. QED
      BY <2>6, <3>1, <3>2, AckKeepsNews
  <2>7. TickNotReady \/ (\E c \in Conditions : Turn(c)) \/ (NetworkStep /\ UNCHANGED newsVars)
          \/ UNCHANGED vars => UNCHANGED items
    BY DEF TickNotReady, Turn, newsVars, vars
  <2>8. UNCHANGED items => Unread' = Unread
    BY DEF Unread
  <2>9. QED
    BY <2>3, <2>5, <2>6, <2>7, <2>8 DEF Next
<1>3. QED
  BY <1>1, <1>2, NewsInvariance, PTL DEF Spec, ImplementsMailbox, Box!Spec

\* A tick that met a lasting condition leaves its news readable, unless it was
\* acknowledged at this very height.
THEOREM ConditionsRepeat == Spec => RepeatsEachBlock
<1>1. ASSUME NewsInv, NewsInv', NEW met \in SUBSET Conditions, Tick(met), NEW c \in met
      PROVE  c \in Unread' \/ lastAck[c] = height
  <2>1. SUFFICES ASSUME NEW i \in Stored(items), i.news = c, i.acked # 0, i.acked >= height
                 PROVE  lastAck[c] = height
    BY <1>1, TickPublishes
  <2>2. i.acked = lastAck[c] /\ lastAck[c] <= height /\ lastAck[c] \in Nat /\ height \in Nat
    BY <1>1, <2>1, NewsHeights DEF NewsInv, AcksKept, News
  <2>3. QED
    BY <2>1, <2>2
<1>2. NewsInv /\ NewsInv' =>
        (\A met \in SUBSET Conditions : Tick(met) =>
           \A c \in met : c \in Unread' \/ lastAck[c] = height)
  BY <1>1
<1>3. QED
  BY <1>2, NewsInvariance, PTL DEF RepeatsEachBlock

\* A value acknowledged at some height is shown again only above that height.
THEOREM QuietUntilNextBlock == Spec => QuietAfterAck
<1>1. ASSUME NewsInv, NewsInv', [Next]_vars, NEW n \in News, n \in Unread', n \notin Unread,
             lastAck[n] # 0
      PROVE  lastAck[n] < height
  <2>1. SUFFICES ASSUME ~(lastAck[n] < height) PROVE FALSE
    OBVIOUS
  <2>2. [news |-> n, acked |-> lastAck[n]] \in Stored(items)
    BY <1>1, <2>1 DEF NewsInv, AcksKept
  <2>3. Fresh(n) \in Stored(items') /\ Fresh(n) \notin Stored(items)
    BY <1>1, UnreadIsFresh
  <2>4. CASE \E met \in SUBSET Conditions : Tick(met)
    BY <1>1, <2>1, <2>2, <2>4, TickPublishes
  <2>5. CASE \E m \in Refusals : Refuse(m)
    <3>1. PICK m \in Refusals : Refuse(m)
      BY <2>5
    <3>2. n \in Values(items)
      BY <2>2 DEF Values
    <3>3. \A k : Fresh(k).news = k
      BY DEF Fresh
    <3>4. QED
      BY <1>1, <2>3, <3>1, <3>2, <3>3, RefuseKeepsNews
  <2>6. CASE \E m \in News : Ack(m)
    <3>1. \A m : Fresh(n) # [news |-> m, acked |-> vheight]
      BY <1>1, NewsHeights DEF NewsInv, Fresh
    <3>2. QED
      BY <1>1, <2>3, <2>6, <3>1, AckKeepsNews
  <2>7. items' # items
    BY <2>3
  <2>8. QED
    BY <1>1, <2>4, <2>5, <2>6, <2>7 DEF Next, TickNotReady, Turn, newsVars, vars
<1>2. NewsInv /\ NewsInv' /\ [Next]_vars =>
        (\A n \in News : n \in Unread' \ Unread /\ lastAck[n] # 0 => lastAck[n] < height)
  BY <1>1
<1>3. QED
  BY <1>2, NewsInvariance, PTL DEF Spec, QuietAfterAck
=============================================================================
