------------------------------- MODULE NewsStore -------------------------------
(***************************************************************************)
(* The coordinator's news (core/storage.rs): one stored list, written by   *)
(* ticks and by calls of the client, read and acknowledged by the client.  *)
(* An acknowledged item is hidden at once but stays in the list until a    *)
(* tick at a later block drops it; meanwhile its value is not added again. *)
(* The list is searched by value only, so the model keeps how often it     *)
(* holds each item and leaves their order out.                             *)
(* The chain and the monitor's index are those of BitcoinNode.             *)
(***************************************************************************)
EXTENDS BitcoinNode, FiniteSetsExt

CONSTANTS
    Conditions,  \* news a tick adds as long as its cause lasts (stuck, no funding)
    Refusals     \* news a client call adds when it is refused (bad funding, cancel)

News == Conditions \cup Refusals

VARIABLES
    items,    \* items[i]: copies of item i in the stored list
    holding,  \* the conditions whose cause lasts
    lastAck   \* lastAck[n]: height of the last acknowledgement of n, 0 when none

newsVars == <<items, holding, lastAck>>
vars == <<nodeVars, viewVars, newsVars>>

\* acked is 0 while the item is unread.
Item == [news : News, acked : 0..MaxHeight]

Fresh(n) == [news |-> n, acked |-> 0]

Stored(list) == {i \in Item : list[i] > 0}

Values(list) == {i.news : i \in Stored(list)}

\* get_news.
Unread == {n \in News : items[Fresh(n)] > 0}

\* The list holds at most one item for each value, acknowledged or not: cleanup
\* always comes before the same news is written a second time.
NewsTypeOK ==
    /\ NodeTypeOK
    /\ items \in [Item -> 0..1]
    /\ \A i, j \in Stored(items) : i.news = j.news => i = j
    /\ holding \subseteq Conditions
    /\ lastAck \in [News -> 0..MaxHeight]

Init ==
    /\ NodeInit
    /\ items = [i \in Item |-> 0]
    /\ holding = {}
    /\ lastAck = [n \in News |-> 0]

-----------------------------------------------------------------------------
\* Mutant: only an unread copy stops a second one.
AddNews_IgnoringAcked(list, S) ==
    [i \in Item |-> IF i.acked = 0 /\ i.news \in S /\ list[i] = 0 THEN 1 ELSE list[i]]

\* add_news for every member of S; different values do not interfere.
AddNews(list, S) ==
    [i \in Item |-> IF i.acked = 0 /\ i.news \in S \ Values(list) THEN list[i] + 1 ELSE list[i]]

\* Mutants: an item acknowledged one block ago is kept too; an unread one goes.
CleanupNews_OneBlockLate(list, h) ==
    [i \in Item |-> IF i.acked = 0 \/ i.acked + 1 >= h THEN list[i] ELSE 0]
CleanupNews_Unread(list, h) == [i \in Item |-> IF i.acked >= h THEN list[i] ELSE 0]

CleanupNews(list, h) == [i \in Item |-> IF i.acked = 0 \/ i.acked >= h THEN list[i] ELSE 0]

\* The first unread copy of n, if there is one, becomes acknowledged at h.
AckNews(list, n, h) ==
    IF list[Fresh(n)] = 0 THEN list
    ELSE [list EXCEPT ![Fresh(n)] = @ - 1, ![[news |-> n, acked |-> h]] = @ + 1]

-----------------------------------------------------------------------------
\* monitor.tick alone: the index has not reached the node's tip.
TickNotReady ==
    /\ MonitorTick
    /\ vheight' # height
    /\ UNCHANGED newsVars

\* A tick drops what was acknowledged in earlier blocks, then adds the news of
\* the conditions it meets; an RPC error may end it before it has met them all.
Tick(met) ==
    /\ MonitorTick
    /\ vheight' = height
    /\ met \subseteq holding
    /\ items' = AddNews(CleanupNews(items, height), met)
    /\ UNCHANGED <<holding, lastAck>>

\* add_funding of too small an output, cancel of what cannot be cancelled.
Refuse(n) ==
    /\ items' = AddNews(items, {n})
    /\ UNCHANGED <<nodeVars, viewVars, holding, lastAck>>

\* ack_news: the height is the monitor's, which may be rolling back.
Ack(n) ==
    /\ items' = AckNews(items, n, vheight)
    /\ lastAck' = IF items' = items THEN lastAck ELSE [lastAck EXCEPT ![n] = vheight]
    /\ UNCHANGED <<nodeVars, viewVars, holding>>

\* The cause of a condition comes or goes.
Turn(c) ==
    /\ holding' = SymDiff(holding, {c})
    /\ UNCHANGED <<nodeVars, viewVars, items, lastAck>>

Next ==
    \/ TickNotReady
    \/ \E met \in SUBSET Conditions : Tick(met)
    \/ \E n \in Refusals : Refuse(n)
    \/ \E n \in News : Ack(n)
    \/ \E c \in Conditions : Turn(c)
    \/ NetworkStep /\ UNCHANGED newsVars

Spec == Init /\ [][Next]_vars

-----------------------------------------------------------------------------
(* Properties. *)

Box == INSTANCE Mailbox WITH unread <- Unread

\* The list with its acknowledged copies and its cleanup by height implements a
\* mailbox: no item the client has not acknowledged ever disappears.
ImplementsMailbox == Box!Spec

\* "This news will repeat once per block until the transaction is mined"
\* (engines/transaction_engine.rs): when a tick has met a lasting condition, its
\* news is readable unless the client acknowledged it at this very height,
\* whatever heights a reorganisation made the acknowledgements carry.
RepeatsEachBlock ==
    [][\A met \in SUBSET Conditions : Tick(met) =>
         \A c \in met : c \in Unread' \/ lastAck[c] = height]_vars

\* At most once per block: a value acknowledged at some height is not shown
\* again before the chain has grown past that height.
QuietAfterAck ==
    [][\A n \in News : n \in Unread' \ Unread /\ lastAck[n] # 0 => lastAck[n] < height]_vars
=============================================================================
