------------------------------ MODULE SpeedupNode ------------------------------
(***************************************************************************)
(* The node and the monitor's index as the speedup engine meets them       *)
(* (libraries outside this repository).  Unlike BitcoinNode, what a        *)
(* transaction spends is state: speedups are built while the system runs,  *)
(* and a replacement may push its rival out of the mempool.  The operator  *)
(* spends no registered output himself and his outputs are final           *)
(* (docs/design.md); a stranger may double-spend what a parent spends.     *)
(***************************************************************************)
EXTENDS SpeedupStore

CONSTANTS
    Doomed,        \* parents a stranger may double-spend
    MaxConfs,      \* max_monitoring_confirmations
    MaxReorg,      \* the deepest reorganisation, in blocks
    MaxHeight,     \* bound: the highest block
    MaxEvictions   \* bound: how often the node drops a mempool transaction

ASSUME SpeedupNodeAssumption ==
    /\ Doomed \subseteq Parents
    /\ {MaxConfs, MaxHeight} \subseteq Nat \ {0}
    /\ {MaxReorg, MaxEvictions} \subseteq Nat

VARIABLES
    height,     \* tip of the node's best chain
    minedAt,    \* minedAt[x]: height of the block holding x, 0 when none does
    mempool,    \* the node's mempool
    relayed,    \* what ever reached the network
    lost,       \* parents that are double-spent
    evictions,  \* how often a transaction was dropped
    vheight,    \* tip of the monitor's index
    vmined      \* vmined[x]: height of x in the index, 0 when it is not there

chainVars == <<height, minedAt, mempool, relayed, lost, evictions>>
indexVars == <<vheight, vmined>>

NodeTypeOK ==
    /\ {height, vheight} \subseteq 1..MaxHeight
    /\ {minedAt, vmined} \subseteq [Ids -> 0..MaxHeight]
    /\ mempool \subseteq Ids /\ relayed \subseteq Ids
    /\ lost \subseteq Doomed
    /\ evictions \in 0..MaxEvictions

NodeInit ==
    /\ height = 1
    /\ minedAt = [x \in Ids |-> 0]
    /\ mempool = {}
    /\ relayed = {}
    /\ lost = {}
    /\ evictions = 0
    /\ vheight = 1
    /\ vmined = [x \in Ids |-> 0]

-----------------------------------------------------------------------------
Inputs(x) == IF x \in Speedups THEN ToSet(tx[x].funding) \cup ToSet(tx[x].anchors) ELSE {}

Sources(x) == Inputs(x) \cap Ids

Conflict(x, y) == x # y /\ Inputs(x) \cap Inputs(y) # {}

OnChain == {x \in Ids : minedAt[x] # 0}

Present == mempool \cup OnChain

\* The members of S that may stay in a mempool above the chain content C.
Viable(S, C) ==
    UNION {V \in SUBSET S :
             \A x \in V : /\ Sources(x) \subseteq V \cup C
                          /\ \A y \in C : ~Conflict(x, y)}

Rivals(x) == {y \in mempool : Conflict(x, y)}

\* What a replacement x pushes out: its rivals and their descendants.
PushedOut(x) == mempool \ Viable(mempool \ Rivals(x), OnChain)

\* The node may take x; a replacement has to pay more than all it pushes out.
Acceptable(x) ==
    /\ x \notin Present \cup lost
    /\ Sources(x) \subseteq Present \ PushedOut(x)
    /\ \A y \in OnChain : ~Conflict(x, y)
    /\ Rivals(x) # {} =>
         tx[x].fee > MapThenSumSet(LAMBDA y : tx[y].fee, PushedOut(x) \cap Speedups)

\* gettxout with the mempool included (is_utxo_unspent_rpc).
UtxoUnspent(o) ==
    /\ o \in Ids => o \in Present
    /\ \A y \in Present : o \notin Inputs(y)

\* get_tx_status with the mempool searched; orphans: what the index still
\* remembers of a block it rolled back.
TxStatus(x, orphans) ==
    CASE vmined[x] # 0 /\ vheight - vmined[x] + 1 >= MaxConfs -> "finalized"
      [] vmined[x] # 0 /\ vheight - vmined[x] + 1 < MaxConfs -> "confirmed"
      [] vmined[x] = 0 /\ x \in mempool -> "in_mempool"
      [] vmined[x] = 0 /\ x \notin mempool /\ x \in orphans -> "orphan"
      [] OTHER -> "not_found"

-----------------------------------------------------------------------------
(* Steps of the network. *)

Minable(B, C) ==
    /\ B \subseteq relayed \ (C \cup lost)
    /\ \A x \in B : /\ Sources(x) \subseteq B \cup C
                    /\ \A y \in B \cup C : ~Conflict(x, y)

Mine(B) ==
    /\ height < MaxHeight
    /\ Minable(B, OnChain)
    /\ height' = height + 1
    /\ minedAt' = [x \in Ids |-> IF x \in B THEN height + 1 ELSE minedAt[x]]
    /\ mempool' = Viable(mempool \ B, OnChain \cup B)
    /\ UNCHANGED <<relayed, lost, evictions, indexVars>>

\* The last k blocks give way to k+1 others; B is mined again in the first.
Reorg(k, B) ==
    LET kept == {x \in OnChain : minedAt[x] <= height - k}
    IN  /\ k < height /\ height < MaxHeight
        /\ Minable(B, kept)
        /\ height' = height + 1
        /\ minedAt' = [x \in Ids |-> IF x \in B THEN height - k + 1
                                     ELSE IF x \in kept THEN minedAt[x] ELSE 0]
        /\ mempool' = Viable((mempool \cup OnChain) \ (kept \cup B), kept \cup B)
        /\ UNCHANGED <<relayed, lost, evictions, indexVars>>

Evict(x) ==
    /\ evictions < MaxEvictions
    /\ x \in mempool
    /\ mempool' = Viable(mempool \ {x}, OnChain)
    /\ evictions' = evictions + 1
    /\ UNCHANGED <<height, minedAt, relayed, lost, indexVars>>

DoubleSpend(p) ==
    /\ p \in Doomed \ (OnChain \cup lost)
    /\ lost' = lost \cup {p}
    /\ mempool' = Viable(mempool \ {p}, OnChain)
    /\ UNCHANGED <<height, minedAt, relayed, evictions, indexVars>>

NetworkStep ==
    \/ \E B \in SUBSET relayed : Mine(B)
    \/ \E k \in 1..MaxReorg, B \in SUBSET relayed : Reorg(k, B)
    \/ \E x \in Ids : Evict(x)
    \/ \E p \in Parents : DoubleSpend(p)

\* The node takes the members of S.  They spend no output of one another.
Accept(S) ==
    /\ mempool' = (mempool \ UNION {PushedOut(x) : x \in S}) \cup S
    /\ relayed' = relayed \cup S
    /\ UNCHANGED <<height, minedAt, lost, evictions>>

\* monitor.tick until is_ready: the index has reached the node's tip.
Sync == vheight' = height /\ vmined' = minedAt
=============================================================================
