--------------------------- MODULE BitcoinNodeProofs ---------------------------
(***************************************************************************)
(* Facts about the node and the monitor's index that hold whatever the     *)
(* coordinator does: what the index shows at or below the last common      *)
(* block is on the best chain, the index is at most MaxReorg blocks into   *)
(* an abandoned branch, and what the node knows of the client's            *)
(* transactions reached the network.                                       *)
(***************************************************************************)
EXTENDS BitcoinNode, TLAPS

NodeStep ==
    \/ NetworkStep
    \/ \E t \in Txs : Accept(t)
    \/ MonitorTick
    \/ UNCHANGED <<nodeVars, viewVars>>

IndexAgrees ==
    /\ common <= vheight
    /\ vheight <= height
    /\ vheight <= common + MaxReorg
    /\ \A a \in Transactions :
          /\ minedAt[a] <= height
          /\ vmined[a] <= vheight
          /\ vmined[a] # 0 /\ vmined[a] <= common => minedAt[a] = vmined[a]

ReachedNetwork ==
    \A t \in Txs : t \in mempool \/ t \in stale \/ minedAt[t] # 0 => t \in relayed

\* What may stay in the mempool is part of what was there.
LEMMA ViableSubset ==
    ASSUME NEW S, NEW C
    PROVE  Viable(S, C) \subseteq S
  BY DEF Viable

\* The initial chain and index have the right shape, agree and are empty.
LEMMA NodeStart ==
    ASSUME NodeInit
    PROVE  NodeTypeOK /\ IndexAgrees /\ ReachedNetwork
<1>1. NodeTypeOK
  BY NodeAssumption DEF NodeInit, NodeTypeOK, Heights, Transactions
<1>2. IndexAgrees
  BY NodeAssumption DEF NodeInit, IndexAgrees
<1>3. ReachedNetwork
  BY DEF NodeInit, ReachedNetwork, Transactions
<1>4. QED
  BY <1>1, <1>2, <1>3

\* Mining a block keeps the shape of the node's state.
LEMMA MineType ==
    ASSUME NodeTypeOK, NEW B \in SUBSET (relayed \cup Rivals), Mine(B)
    PROVE  NodeTypeOK'
<1>1. mempool' \subseteq mempool
  BY ViableSubset DEF Mine
<1>2. height' \in Heights /\ height + 1 \in 0..MaxHeight
  BY NodeAssumption DEF Mine, NodeTypeOK, Heights
<1>3. minedAt' \in [Transactions -> 0..MaxHeight]
  BY <1>2 DEF Mine, NodeTypeOK
<1>4. QED
  BY <1>1, <1>2, <1>3 DEF Mine, NodeTypeOK, viewVars

\* A reorganisation keeps the shape of the node's state.
LEMMA ReorgType ==
    ASSUME NodeTypeOK, NEW k \in 1..MaxReorg, NEW B \in SUBSET (relayed \cup Rivals),
           NEW n \in (height - k + 1)..(height + 1), Reorg(k, B, n)
    PROVE  NodeTypeOK'
<1> DEFINE kept == {a \in OnChain : minedAt[a] <= height - k}
<1>1. mempool' \subseteq Transactions
  <2>1. mempool' \subseteq (mempool \cup OnChain) \ (kept \cup B)
    BY ViableSubset DEF Reorg
  <2>2. QED
    BY <2>1 DEF OnChain, NodeTypeOK
<1>2. height' \in Heights /\ n \in 0..MaxHeight
  BY NodeAssumption DEF Reorg, NodeTypeOK, Heights
<1>3. minedAt' \in [Transactions -> 0..MaxHeight]
  <2>1. minedAt' = [a \in Transactions |->
                      IF a \in B THEN n ELSE IF a \in kept THEN minedAt[a] ELSE 0]
    BY DEF Reorg
  <2>2. 0 \in 0..MaxHeight /\ \A a \in Transactions : minedAt[a] \in 0..MaxHeight
    BY NodeAssumption DEF NodeTypeOK
  <2> HIDE DEF kept
  <2>3. QED
    BY <1>2, <2>1, <2>2
<1>4. common' \in Heights
  BY NodeAssumption DEF Reorg, NodeTypeOK, Heights
<1>5. stale' \subseteq Transactions
  BY DEF Reorg, NodeTypeOK, OnChain
<1>6. QED
  BY <1>1, <1>2, <1>3, <1>4, <1>5 DEF Reorg, NodeTypeOK

\* The index keeps its shape when the monitor ticks.
LEMMA MonitorType ==
    ASSUME NodeTypeOK, IndexAgrees, MonitorTick
    PROVE  NodeTypeOK'
<1>1. CASE RollBack
  <2>1. vheight' \in Heights
    BY <1>1, NodeAssumption DEF RollBack, NodeTypeOK, Heights
  <2>2. vmined' \in [Transactions -> 0..MaxHeight]
    BY <1>1, NodeAssumption DEF RollBack, NodeTypeOK
  <2>3. orphaned' \subseteq Transactions
    BY <1>1 DEF RollBack, NodeTypeOK
  <2>4. QED
    BY <1>1, <2>1, <2>2, <2>3 DEF RollBack, MonitorTick, NodeTypeOK, nodeVars
<1>2. CASE IndexBlock
  <2>1. vheight' \in Heights /\ vheight + 1 \in 0..MaxHeight
    BY <1>2, NodeAssumption DEF IndexBlock, NodeTypeOK, Heights
  <2>2. vmined' \in [Transactions -> 0..MaxHeight]
    BY <1>2, <2>1 DEF IndexBlock, NodeTypeOK
  <2>3. QED
    BY <1>2, <2>1, <2>2 DEF IndexBlock, MonitorTick, NodeTypeOK, nodeVars
<1>3. CASE UNCHANGED viewVars
  BY <1>3 DEF MonitorTick, NodeTypeOK, nodeVars, viewVars
<1>4. QED
  BY <1>1, <1>2, <1>3 DEF MonitorTick

\* Every step of the node or the monitor keeps their state well-formed.
LEMMA NodeType ==
    ASSUME NodeTypeOK, IndexAgrees, NodeStep
    PROVE  NodeTypeOK'
<1>1. CASE \E B \in SUBSET (relayed \cup Rivals) : Mine(B)
  BY <1>1, MineType
<1>2. CASE \E k \in 1..MaxReorg, B \in SUBSET (relayed \cup Rivals) :
             \E n \in (height - k + 1)..(height + 1) : Reorg(k, B, n)
  BY <1>2, ReorgType
<1>3. CASE \E a \in Transactions : Evict(a)
  <2>1. PICK a \in Transactions : Evict(a)
    BY <1>3
  <2>2. mempool' \subseteq mempool
    BY <2>1, ViableSubset DEF Evict
  <2>3. evictions' \in 0..MaxEvictions
    BY <2>1, NodeAssumption DEF Evict, NodeTypeOK
  <2>4. QED
    BY <2>1, <2>2, <2>3 DEF Evict, NodeTypeOK, viewVars
<1>4. CASE \E a \in Rivals \cup Shared : ForeignBroadcast(a)
  <2>1. PICK a \in Rivals \cup Shared : ForeignBroadcast(a)
    BY <1>4
  <2>2. mempool' \subseteq mempool \cup {a}
    BY <2>1, ViableSubset DEF ForeignBroadcast
  <2>3. a \in Transactions
    BY NodeAssumption DEF Transactions
  <2>4. QED
    BY <2>1, <2>2, <2>3 DEF ForeignBroadcast, NodeTypeOK, viewVars
<1>5. CASE \E t \in Txs : Accept(t)
  BY <1>5 DEF Accept, NodeTypeOK, Transactions, viewVars
<1>6. CASE MonitorTick
  BY <1>6, MonitorType
<1>7. CASE UNCHANGED <<nodeVars, viewVars>>
  BY <1>7 DEF NodeTypeOK, nodeVars, viewVars
<1>8. QED
  BY <1>1, <1>2, <1>3, <1>4, <1>5, <1>6, <1>7 DEF NodeStep, NetworkStep

\* The index and the best chain agree up to the last common block, also after a
\* block is mined.
LEMMA MineAgrees ==
    ASSUME NodeTypeOK, IndexAgrees, NEW B \in SUBSET (relayed \cup Rivals), Mine(B)
    PROVE  IndexAgrees'
<1>1. ASSUME NEW a \in Transactions
      PROVE  /\ minedAt'[a] <= height'
             /\ vmined'[a] <= vheight'
             /\ vmined'[a] # 0 /\ vmined'[a] <= common' => minedAt'[a] = vmined'[a]
  <2>1. minedAt'[a] = IF a \in B THEN height + 1 ELSE minedAt[a]
    BY DEF Mine
  <2>2. a \in B => minedAt[a] = 0
    BY DEF Mine, Minable, OnChain
  <2>3. QED
    BY <2>1, <2>2 DEF Mine, NodeTypeOK, IndexAgrees, viewVars, Heights
<1>2. QED
  BY <1>1 DEF Mine, NodeTypeOK, IndexAgrees, viewVars, Heights

\* The same after a reorganisation of depth MaxReorg or less: what it undoes
\* lies above the new last common block.
LEMMA ReorgAgrees ==
    ASSUME NodeTypeOK, IndexAgrees,
           NEW k \in 1..MaxReorg, NEW B \in SUBSET (relayed \cup Rivals),
           NEW n \in (height - k + 1)..(height + 1), Reorg(k, B, n)
    PROVE  IndexAgrees'
<1> DEFINE kept == {a \in OnChain : minedAt[a] <= height - k}
<1>1. /\ common' <= common
      /\ common' <= height - k
      /\ common' = common \/ common' = height - k
  BY NodeAssumption DEF Reorg, NodeTypeOK, Heights
<1>2. ASSUME NEW a \in Transactions
      PROVE  /\ minedAt'[a] <= height'
             /\ vmined'[a] <= vheight'
             /\ vmined'[a] # 0 /\ vmined'[a] <= common' => minedAt'[a] = vmined'[a]
  <2>1. minedAt'[a] = IF a \in B THEN n ELSE IF a \in kept THEN minedAt[a] ELSE 0
    BY DEF Reorg
  <2>2. a \in kept => a \notin B
    BY DEF Reorg, Minable
  <2>3. minedAt[a] # 0 /\ minedAt[a] <= height - k => a \in kept
    BY DEF OnChain
  <2>4. vmined[a] # 0 /\ vmined[a] <= common' => minedAt[a] = vmined[a] /\ a \in kept
    BY <1>1, <2>3, NodeAssumption DEF NodeTypeOK, IndexAgrees, Heights
  <2>5. vmined'[a] = vmined[a] /\ vheight' = vheight /\ height' = height + 1
    BY DEF Reorg
  <2>6. minedAt'[a] <= height'
    <3> HIDE DEF kept
    <3> QED
      BY <2>1, <2>5, NodeAssumption DEF NodeTypeOK, IndexAgrees, Heights
  <2>7. QED
    BY <2>1, <2>2, <2>4, <2>5, <2>6 DEF IndexAgrees
<1>3. common' <= vheight' /\ vheight' <= height' /\ vheight' <= common' + MaxReorg
  BY <1>1, NodeAssumption DEF Reorg, NodeTypeOK, IndexAgrees, Heights
<1>4. QED
  BY <1>2, <1>3 DEF IndexAgrees

\* The same when the monitor rolls a block back or indexes one.
LEMMA MonitorAgrees ==
    ASSUME NodeTypeOK, IndexAgrees, MonitorTick
    PROVE  IndexAgrees'
<1>0. UNCHANGED <<height, minedAt>>
  BY DEF MonitorTick, nodeVars
<1>1. CASE RollBack
  <2>1. ASSUME NEW a \in Transactions
        PROVE  /\ minedAt'[a] <= height'
               /\ vmined'[a] <= vheight'
               /\ vmined'[a] # 0 /\ vmined'[a] <= common' => minedAt'[a] = vmined'[a]
    <3>1. vmined'[a] = IF vmined[a] = vheight THEN 0 ELSE vmined[a]
      BY <1>1 DEF RollBack
    <3>2. QED
      BY <1>0, <1>1, <3>1 DEF RollBack, NodeTypeOK, IndexAgrees, Heights
  <2>2. QED
    BY <1>0, <1>1, <2>1, NodeAssumption DEF RollBack, NodeTypeOK, IndexAgrees, Heights
<1>2. CASE IndexBlock
  <2>1. ASSUME NEW a \in Transactions
        PROVE  /\ minedAt'[a] <= height'
               /\ vmined'[a] <= vheight'
               /\ vmined'[a] # 0 /\ vmined'[a] <= common' => minedAt'[a] = vmined'[a]
    <3>1. vmined'[a] = IF minedAt[a] = vheight + 1 THEN vheight + 1 ELSE vmined[a]
      BY <1>2 DEF IndexBlock
    <3>2. QED
      BY <1>0, <1>2, <3>1 DEF IndexBlock, NodeTypeOK, IndexAgrees, Heights
  <2>2. QED
    BY <1>0, <1>2, <2>1, NodeAssumption DEF IndexBlock, NodeTypeOK, IndexAgrees, Heights
<1>3. CASE UNCHANGED viewVars
  BY <1>0, <1>3 DEF IndexAgrees, viewVars
<1>4. QED
  BY <1>1, <1>2, <1>3 DEF MonitorTick

\* Whatever the network, the monitor or a broadcast does, the index and the best
\* chain agree up to the last common block.
LEMMA NodeAgrees ==
    ASSUME NodeTypeOK, IndexAgrees, NodeStep
    PROVE  IndexAgrees'
<1>1. CASE \E B \in SUBSET (relayed \cup Rivals) : Mine(B)
  BY <1>1, MineAgrees
<1>2. CASE \E k \in 1..MaxReorg, B \in SUBSET (relayed \cup Rivals) :
             \E n \in (height - k + 1)..(height + 1) : Reorg(k, B, n)
  BY <1>2, ReorgAgrees
<1>3. CASE UNCHANGED <<height, minedAt, viewVars>>
  BY <1>3 DEF IndexAgrees, viewVars
<1>4. CASE MonitorTick
  BY <1>4, MonitorAgrees
<1>5. QED
  BY <1>1, <1>2, <1>3, <1>4
     DEF NodeStep, NetworkStep, Evict, ForeignBroadcast, Accept, nodeVars

\* A block is never taken without another above it: the tip's height never falls.
LEMMA TipNeverFalls ==
    ASSUME NodeTypeOK, NodeStep
    PROVE  height' >= height
<1>1. height' = height \/ height' = height + 1
  BY DEF NodeStep, NetworkStep, Mine, Reorg, Evict, ForeignBroadcast, Accept, MonitorTick,
         nodeVars
<1>2. QED
  BY <1>1, NodeAssumption DEF NodeTypeOK, Heights

\* A client transaction the node holds, mined or remembers reached the network.
LEMMA NodeReached ==
    ASSUME NodeTypeOK, ReachedNetwork, NodeStep
    PROVE  ReachedNetwork'
<1> SUFFICES ASSUME NEW t \in Txs, t \in mempool' \/ t \in stale' \/ minedAt'[t] # 0
             PROVE  t \in relayed'
  BY DEF ReachedNetwork
<1>0. t \in Transactions /\ t \notin Rivals
  BY NodeAssumption DEF Transactions
<1>1. CASE \E B \in SUBSET (relayed \cup Rivals) : Mine(B)
  <2>1. PICK B \in SUBSET (relayed \cup Rivals) : Mine(B)
    BY <1>1
  <2>2. mempool' \subseteq mempool
    BY <2>1, ViableSubset DEF Mine
  <2>3. minedAt'[t] # 0 => t \in B \/ minedAt[t] # 0
    BY <1>0, <2>1 DEF Mine
  <2>4. QED
    BY <1>0, <2>1, <2>2, <2>3 DEF Mine, ReachedNetwork
<1>2. CASE \E k \in 1..MaxReorg, B \in SUBSET (relayed \cup Rivals) :
             \E n \in (height - k + 1)..(height + 1) : Reorg(k, B, n)
  <2>1. PICK k \in 1..MaxReorg, B \in SUBSET (relayed \cup Rivals) :
               \E n \in (height - k + 1)..(height + 1) : Reorg(k, B, n)
    BY <1>2
  <2>2. PICK n \in (height - k + 1)..(height + 1) : Reorg(k, B, n)
    BY <2>1
  <2>3. mempool' \subseteq mempool \cup OnChain
    BY <2>2, ViableSubset DEF Reorg
  <2>4. minedAt'[t] # 0 => t \in B \/ minedAt[t] # 0
    BY <1>0, <2>2 DEF Reorg
  <2>5. stale' \subseteq stale \cup OnChain
    BY <2>2 DEF Reorg
  <2>6. relayed' = relayed
    BY <2>2 DEF Reorg
  <2>7. QED
    BY <1>0, <2>3, <2>4, <2>5, <2>6 DEF ReachedNetwork, OnChain
<1>3. CASE \E a \in Transactions : Evict(a)
  <2>1. PICK a \in Transactions : Evict(a)
    BY <1>3
  <2>2. mempool' \subseteq mempool
    BY <2>1, ViableSubset DEF Evict
  <2>3. QED
    BY <2>1, <2>2 DEF Evict, ReachedNetwork
<1>4. CASE \E a \in Rivals \cup Shared : ForeignBroadcast(a)
  <2>1. PICK a \in Rivals \cup Shared : ForeignBroadcast(a)
    BY <1>4
  <2>2. mempool' \subseteq mempool \cup {a}
    BY <2>1, ViableSubset DEF ForeignBroadcast
  <2>3. QED
    BY <2>1, <2>2 DEF ForeignBroadcast, ReachedNetwork
<1>5. CASE \E u \in Txs : Accept(u)
  BY <1>5 DEF Accept, ReachedNetwork
<1>6. CASE UNCHANGED nodeVars
  BY <1>6 DEF ReachedNetwork, nodeVars
<1>7. QED
  BY <1>1, <1>2, <1>3, <1>4, <1>5, <1>6 DEF NodeStep, NetworkStep, MonitorTick

\* A transaction at least MaxReorg blocks below the tip stays on the best chain,
\* at the same height and at least as deep.
LEMMA DeepStaysMined ==
    ASSUME NodeTypeOK, IndexAgrees, NodeStep, NEW a \in Transactions,
           minedAt[a] # 0, minedAt[a] <= height - MaxReorg
    PROVE  minedAt'[a] = minedAt[a] /\ minedAt'[a] <= height' - MaxReorg
<1>1. CASE \E B \in SUBSET (relayed \cup Rivals) : Mine(B)
  <2>1. PICK B \in SUBSET (relayed \cup Rivals) : Mine(B)
    BY <1>1
  <2>2. a \notin B
    BY <2>1 DEF Mine, Minable, OnChain
  <2>3. minedAt'[a] = minedAt[a] /\ height' = height + 1
    BY <2>1, <2>2 DEF Mine
  <2>4. QED
    BY <2>3, NodeAssumption DEF NodeTypeOK, Heights
<1>2. CASE \E k \in 1..MaxReorg, B \in SUBSET (relayed \cup Rivals) :
             \E n \in (height - k + 1)..(height + 1) : Reorg(k, B, n)
  <2>1. PICK k \in 1..MaxReorg, B \in SUBSET (relayed \cup Rivals) :
               \E n \in (height - k + 1)..(height + 1) : Reorg(k, B, n)
    BY <1>2
  <2>2. PICK n \in (height - k + 1)..(height + 1) : Reorg(k, B, n)
    BY <2>1
  <2>3. a \in {b \in OnChain : minedAt[b] <= height - k}
    BY NodeAssumption DEF OnChain, NodeTypeOK, Heights
  <2>4. minedAt'[a] = minedAt[a] /\ height' = height + 1
    BY <2>2, <2>3 DEF Reorg, Minable
  <2>5. QED
    BY <2>4, NodeAssumption DEF NodeTypeOK, Heights
<1>3. CASE UNCHANGED <<height, minedAt>>
  BY <1>3
<1>4. QED
  BY <1>1, <1>2, <1>3
     DEF NodeStep, NetworkStep, Evict, ForeignBroadcast, Accept, MonitorTick, nodeVars

\* What the index reports with MaxConfs confirmations or more is on the best
\* chain, too deep for any reorganisation, however far the index lags or however
\* many blocks of an abandoned branch it still shows.
LEMMA FinalizedIsDeep ==
    ASSUME NodeTypeOK, IndexAgrees, MaxReorg < MaxConfs,
           NEW a \in Transactions, TxStatus(a) = "finalized"
    PROVE  minedAt[a] # 0 /\ minedAt[a] <= height - MaxReorg
<1>1. vmined[a] # 0 /\ Confirmations(a) >= MaxConfs
  BY DEF TxStatus
<1>2. vheight - vmined[a] + 1 >= MaxConfs
  BY <1>1 DEF Confirmations
<1>3. vmined[a] <= vheight - MaxReorg
  BY <1>2, NodeAssumption DEF NodeTypeOK, Heights
<1>4. QED
  BY <1>1, <1>3, NodeAssumption DEF NodeTypeOK, IndexAgrees, Heights
=============================================================================
