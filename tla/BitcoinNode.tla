------------------------------ MODULE BitcoinNode ------------------------------
(***************************************************************************)
(* The bitcoin node and the transaction monitor, modelled from the calls   *)
(* the coordinator makes to them (both are libraries outside this          *)
(* repository).  The node holds one best chain and one mempool; the        *)
(* monitor holds an index of the chain that lags behind the node, and      *)
(* still shows a branch the node has abandoned until it rolls it back.     *)
(*                                                                         *)
(* A transaction is an id; what it spends is a set of outpoints            *)
(* <<source, index>>.  A source outside Transactions is an output buried   *)
(* deep in the chain: it exists, and nothing but a spender removes it.     *)
(***************************************************************************)
EXTENDS Integers, FiniteSets

CONSTANTS
    Txs,           \* the transactions the client may hand to the coordinator
    Rivals,        \* transactions of other parties
    Inputs,        \* Inputs[a]: the outpoints transaction a spends
    Shared,        \* the members of Txs another party may broadcast as well
    MaxHeight,     \* bound: the highest block of the run
    MaxReorg,      \* the deepest reorganisation, in blocks
    MaxConfs,      \* max_monitoring_confirmations
    MaxEvictions   \* bound: how often the node drops a mempool transaction

Transactions == Txs \cup Rivals

ASSUME NodeAssumption ==
    /\ Txs \cap Rivals = {}
    /\ Shared \subseteq Txs
    /\ MaxHeight \in Nat \ {0}
    /\ MaxReorg \in Nat
    /\ MaxConfs \in Nat
    /\ MaxEvictions \in Nat

VARIABLES
    height,     \* tip of the node's best chain
    minedAt,    \* minedAt[a]: height of the block holding a, 0 when none does
    mempool,    \* the node's mempool
    relayed,    \* client transactions that ever reached the network
    stale,      \* transactions of abandoned blocks, still in the node's txindex
    evictions,  \* how often a transaction was dropped so far
    vheight,    \* tip of the monitor's index
    vmined,     \* vmined[a]: height of a in the index, 0 when it is not there
    common,     \* height of the last indexed block that is on the best chain
    orphaned    \* transactions the index remembers of blocks it rolled back

nodeVars == <<height, minedAt, mempool, relayed, stale, evictions>>
viewVars == <<vheight, vmined, common, orphaned>>

Heights == 1..MaxHeight

NodeTypeOK ==
    /\ height \in Heights
    /\ minedAt \in [Transactions -> 0..MaxHeight]
    /\ mempool \subseteq Transactions
    /\ relayed \subseteq Txs
    /\ stale \subseteq Transactions
    /\ evictions \in 0..MaxEvictions
    /\ vheight \in Heights
    /\ vmined \in [Transactions -> 0..MaxHeight]
    /\ common \in Heights
    /\ orphaned \subseteq Transactions

NodeInit ==
    /\ height = 1
    /\ minedAt = [a \in Transactions |-> 0]
    /\ mempool = {}
    /\ relayed = {}
    /\ stale = {}
    /\ evictions = 0
    /\ vheight = 1
    /\ vmined = [a \in Transactions |-> 0]
    /\ common = 1
    /\ orphaned = {}

-----------------------------------------------------------------------------
(* What spends what. *)

Parents(a) == {o[1] : o \in Inputs[a]} \cap Transactions

Conflict(a, b) == a # b /\ Inputs[a] \cap Inputs[b] # {}

OnChain == {a \in Transactions : minedAt[a] # 0}

Present == mempool \cup OnChain

\* The members of S that may stay in a mempool above the chain content C:
\* no conflict with C, and every parent in C or itself staying.
Viable(S, C) ==
    UNION {V \in SUBSET S :
             \A a \in V : /\ \A b \in C : ~Conflict(a, b)
                          /\ Parents(a) \subseteq V \cup C}

\* The node would take a into its mempool, fee policy aside.
Acceptable(a) ==
    /\ a \notin OnChain
    /\ Parents(a) \subseteq Present
    /\ \A b \in Present : ~Conflict(a, b)

\* getrawtransaction (get_tx_confirmations) answers 0 confirmations for a
\* mempool transaction, and also for one the txindex finds in an abandoned block.
MayAnswerZero(a) == a \in mempool \/ (a \in stale /\ a \notin OnChain)

\* gettxout with the mempool included (is_utxo_unspent_rpc).
UtxoUnspent(o) ==
    /\ o[1] \in Transactions => o[1] \in Present
    /\ \A b \in Present : o \notin Inputs[b]

-----------------------------------------------------------------------------
(* The monitor's answers. *)

Confirmations(a) == IF vmined[a] = 0 THEN 0 ELSE vheight - vmined[a] + 1

\* get_tx_status with the mempool searched: the index first, then the node's
\* mempool, then what the index remembers of a rolled-back block.
TxStatus(a) ==
    CASE vmined[a] # 0 /\ Confirmations(a) >= MaxConfs -> "finalized"
      [] vmined[a] # 0 /\ Confirmations(a) < MaxConfs -> "confirmed"
      [] vmined[a] = 0 /\ a \in mempool -> "in_mempool"
      [] vmined[a] = 0 /\ a \notin mempool /\ a \in orphaned -> "orphan"
      [] OTHER -> "not_found"

-----------------------------------------------------------------------------
(* Steps of the network, taken by other parties at any moment. *)

Minable(B, C) ==
    /\ B \subseteq (relayed \cup Rivals) \ C
    /\ \A a \in B : /\ \A b \in B \cup C : ~Conflict(a, b)
                    /\ Parents(a) \subseteq B \cup C

Mine(B) ==
    /\ height < MaxHeight
    /\ Minable(B, OnChain)
    /\ height' = height + 1
    /\ minedAt' = [a \in Transactions |-> IF a \in B THEN height + 1 ELSE minedAt[a]]
    /\ mempool' = Viable(mempool \ B, OnChain \cup B)
    /\ UNCHANGED <<relayed, stale, evictions, viewVars>>

\* The last k blocks give way to k+1 others; B is mined in block n of the new
\* branch, what the old branch held otherwise returns to the mempool.
Reorg(k, B, n) ==
    LET kept == {a \in OnChain : minedAt[a] <= height - k}
    IN  /\ height < MaxHeight
        /\ k < height
        /\ Minable(B, kept)
        /\ height' = height + 1
        /\ minedAt' = [a \in Transactions |->
                         IF a \in B THEN n ELSE IF a \in kept THEN minedAt[a] ELSE 0]
        /\ mempool' = Viable((mempool \cup OnChain) \ (kept \cup B), kept \cup B)
        /\ stale' = stale \cup (OnChain \ kept)
        /\ common' = IF height - k < common THEN height - k ELSE common
        /\ UNCHANGED <<relayed, evictions, vheight, vmined, orphaned>>

\* The node drops a transaction and its descendants (full mempool, expiry).
Evict(a) ==
    /\ evictions < MaxEvictions
    /\ a \in mempool
    /\ mempool' = Viable(mempool \ {a}, OnChain)
    /\ evictions' = evictions + 1
    /\ UNCHANGED <<height, minedAt, relayed, stale, viewVars>>

\* Another party broadcasts a, replacing what conflicts with it.
ForeignBroadcast(a) ==
    /\ a \notin Present
    /\ Parents(a) \subseteq Present
    /\ \A b \in OnChain : ~Conflict(a, b)
    /\ LET rest == Viable({b \in mempool : ~Conflict(a, b)}, OnChain)
       IN  /\ Parents(a) \subseteq rest \cup OnChain
           /\ mempool' = rest \cup {a}
    /\ relayed' = relayed \cup ({a} \cap Txs)
    /\ UNCHANGED <<height, minedAt, stale, evictions, viewVars>>

NetworkStep ==
    \/ \E B \in SUBSET (relayed \cup Rivals) : Mine(B)
    \/ \E k \in 1..MaxReorg, B \in SUBSET (relayed \cup Rivals) :
         \E n \in (height - k + 1)..(height + 1) : Reorg(k, B, n)
    \/ \E a \in Transactions : Evict(a)
    \/ \E a \in Rivals \cup Shared : ForeignBroadcast(a)

-----------------------------------------------------------------------------
(* Steps the coordinator causes. *)

\* The node takes a, or already holds it in its mempool.
Accept(a) ==
    /\ Acceptable(a)
    /\ mempool' = mempool \cup {a}
    /\ relayed' = relayed \cup {a}
    /\ UNCHANGED <<height, minedAt, stale, evictions, viewVars>>

\* monitor.tick: roll one abandoned block back (the index may or may not go on
\* reporting its transactions as orphans), or index the next block.
RollBack ==
    /\ vheight > common
    /\ vheight' = vheight - 1
    /\ vmined' = [a \in Transactions |-> IF vmined[a] = vheight THEN 0 ELSE vmined[a]]
    /\ \E S \in SUBSET {a \in Transactions : vmined[a] = vheight} :
         orphaned' = orphaned \cup S
    /\ UNCHANGED common

IndexBlock ==
    /\ vheight = common
    /\ vheight < height
    /\ vheight' = vheight + 1
    /\ vmined' = [a \in Transactions |->
                    IF minedAt[a] = vheight + 1 THEN vheight + 1 ELSE vmined[a]]
    /\ common' = vheight + 1
    /\ orphaned' = orphaned \ {a \in Transactions : minedAt[a] = vheight + 1}

MonitorTick ==
    /\ \/ RollBack
       \/ IndexBlock
       \/ vheight = common /\ vheight = height /\ UNCHANGED viewVars
    /\ UNCHANGED nodeVars
=============================================================================
