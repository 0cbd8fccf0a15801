--------------------------- MODULE TransactionEngine ---------------------------
(***************************************************************************)
(* The coordinator's handling of client transactions: registration and     *)
(* cancellation (coordinator.rs), the review and dispatch passes of a tick *)
(* (engines/transaction_engine.rs, engines/common.rs, core/dispatcher.rs)  *)
(* and the transaction store they write (core/storage.rs).                 *)
(*                                                                         *)
(* A tick runs alone in its thread, but it asks the node several times and *)
(* the node moves between two answers; every call to the node and every    *)
(* write to the store that can be separated by such a move, by an RPC      *)
(* error or by a crash is a step of its own.  The store writes each record *)
(* in its own transaction, so a crash keeps every write made before it.    *)
(* Height 0 stands for None.  The store scans records in txid order, which *)
(* is unrelated to the client's: the model takes them in any order.        *)
(***************************************************************************)
EXTENDS BitcoinNode, CoordinatorTypes

CONSTANTS
    Invalid,        \* members of Txs without inputs or above max_tx_weight
    Cancelled,      \* members of Txs the client may try to cancel
    Delays,         \* target_block_height - current height, as clients ask
    StuckBlocks,    \* stuck_in_mempool_blocks
    RetryAttempts,  \* retry_attempts_sending_tx
    MaxTracking,    \* max_tracking_confirmations
    MaxErrors,      \* bound: ticks cut short by an RPC error
    MaxCrashes      \* bound: crashes

ASSUME EngineAssumption ==
    /\ Invalid \subseteq Txs
    /\ Cancelled \subseteq Txs
    /\ Delays \subseteq Nat
    /\ StuckBlocks \in Nat
    /\ RetryAttempts \in Nat \ {0}
    /\ MaxTracking \in Nat
    /\ MaxErrors \in Nat
    /\ MaxCrashes \in Nat

VARIABLES
    state,       \* state[t]: lifecycle state of the record
    target,      \* target[t]: target_block_height
    broadcast,   \* broadcast[t]: broadcast_block_height
    guard,       \* guard[t]: fail_guard_until
    retries,     \* retries[t]: retry_count, saturated at RetryAttempts
    settled,     \* settled[t]: settled_block_height
    news,        \* the news published so far, <<kind, t>>
    pc,          \* where the tick stands
    todo,        \* the snapshot the current pass still has to walk
    outcome,     \* outcome[t]: what the dispatch of t came to
    retryReady,  \* the shared retry window is open (last_retry_at)
    errors,      \* RPC errors so far
    crashes      \* crashes so far

recordVars == <<state, target, broadcast, guard, retries, settled>>
tickVars == <<pc, todo, outcome, retryReady>>
faultVars == <<errors, crashes>>
vars == <<nodeVars, viewVars, recordVars, news, tickVars, faultVars>>

Outcomes == {"none", "Success", "Fatal", "ParentFailed", "DispatchError",
             "absent", "publish"}

NewsKinds == {"TxNotFound", "InvalidStateTransition", "DispatchError",
              "TransactionStuckInMempool", "TransactionEvicted", "InvalidCancel"}

\* Every variable keeps its shape; a height that is not None is a block height
\* or a deadline at most max_monitoring_confirmations past one.
TypeOK ==
    /\ NodeTypeOK
    /\ state \in [Txs -> RecordState]
    /\ target \in [Txs -> Nat]
    /\ broadcast \in [Txs -> 0..MaxHeight]
    /\ guard \in [Txs -> 0..(MaxHeight + MaxConfs)]
    /\ retries \in [Txs -> 0..RetryAttempts]
    /\ settled \in [Txs -> 0..MaxHeight]
    /\ news \subseteq NewsKinds \X Txs
    /\ pc \in {"idle", "review", "dispatch", "handle"}
    /\ todo \subseteq Txs
    /\ outcome \in [Txs -> Outcomes]
    /\ retryReady \in BOOLEAN
    /\ errors \in 0..MaxErrors
    /\ crashes \in 0..MaxCrashes

NoOutcome == [t \in Txs |-> "none"]

Init ==
    /\ NodeInit
    /\ state = [t \in Txs |-> "Unregistered"]
    /\ target = [t \in Txs |-> 0]
    /\ broadcast = [t \in Txs |-> 0]
    /\ guard = [t \in Txs |-> 0]
    /\ retries = [t \in Txs |-> 0]
    /\ settled = [t \in Txs |-> 0]
    /\ news = {}
    /\ pc = "idle"
    /\ todo = {}
    /\ outcome = NoOutcome
    /\ retryReady = TRUE
    /\ errors = 0
    /\ crashes = 0

-----------------------------------------------------------------------------
(* The transaction store. *)

Known(t) == state[t] # "Unregistered"

AddNews(kind, t) == news' = news \cup {<<kind, t>>}

\* remove_tx for every member of S.
RemoveTxs(S) ==
    /\ state' = [t \in Txs |-> IF t \in S THEN "Unregistered" ELSE state[t]]
    /\ target' = [t \in Txs |-> IF t \in S THEN 0 ELSE target[t]]
    /\ broadcast' = [t \in Txs |-> IF t \in S THEN 0 ELSE broadcast[t]]
    /\ guard' = [t \in Txs |-> IF t \in S THEN 0 ELSE guard[t]]
    /\ retries' = [t \in Txs |-> IF t \in S THEN 0 ELSE retries[t]]
    /\ settled' = [t \in Txs |-> IF t \in S THEN 0 ELSE settled[t]]

\* What a checked transition does instead of moving the record.
RefuseTransition(t, to) ==
    /\ ~Known(t) \/ ~CanTransitionTo(state[t], to)
    /\ AddNews(IF Known(t) THEN "InvalidStateTransition" ELSE "TxNotFound", t)
    /\ UNCHANGED recordVars

UpdateTxState(t, to) ==
    \/ /\ Known(t) /\ CanTransitionTo(state[t], to)
       /\ state' = [state EXCEPT ![t] = to]
       /\ UNCHANGED <<target, broadcast, guard, retries, settled, news>>
    \/ RefuseTransition(t, to)

SettleTx(t, to) ==
    \/ /\ Known(t) /\ CanTransitionTo(state[t], to)
       /\ state' = [state EXCEPT ![t] = to]
       /\ settled' = [settled EXCEPT ![t] = vheight]
       /\ UNCHANGED <<target, broadcast, guard, retries, news>>
    \/ RefuseTransition(t, to)

\* Mutant: the window is counted twice.
RequeueNotFound_DoubleWindow(t) ==
    /\ Known(t) /\ CanTransitionTo(state[t], "ToDispatch")
    /\ state' = [state EXCEPT ![t] = "ToDispatch"]
    /\ guard' = [guard EXCEPT ![t] = IF @ = 0 THEN vheight + 2 * MaxConfs ELSE @]
    /\ UNCHANGED <<target, broadcast, retries, settled, news>>

\* The guard is anchored at the first not_found and not extended.
RequeueNotFound(t) ==
    \/ /\ Known(t) /\ CanTransitionTo(state[t], "ToDispatch")
       /\ state' = [state EXCEPT ![t] = "ToDispatch"]
       /\ guard' = [guard EXCEPT ![t] = IF @ = 0 THEN vheight + MaxConfs ELSE @]
       /\ UNCHANGED <<target, broadcast, retries, settled, news>>
    \/ RefuseTransition(t, "ToDispatch")

\* A longer count than RetryAttempts behaves as RetryAttempts does.
MarkAsRetry(t) ==
    \/ /\ Known(t) /\ CanTransitionTo(state[t], "ToDispatch")
       /\ state' = [state EXCEPT ![t] = "ToDispatch"]
       /\ retries' = [retries EXCEPT ![t] = IF @ < RetryAttempts THEN @ + 1 ELSE @]
       /\ UNCHANGED <<target, broadcast, guard, settled, news>>
    \/ RefuseTransition(t, "ToDispatch")

\* Mutant: the age of a record is its settled height's distance from genesis.
StaleTxs_AbsoluteHeight(now) == {t \in Txs : state[t] \in Terminal /\ now >= MaxTracking}

\* Terminal records kept for max_tracking_confirmations blocks.  A height noted
\* by a tick never exceeds that of a later tick, so saturating_sub is minus.
StaleTxs(now) == {t \in Txs : state[t] \in Terminal /\ now - settled[t] >= MaxTracking}

-----------------------------------------------------------------------------
(* Writes that take the caller's copy of the record, unchecked. *)

MarkReorg(t) ==
    /\ state' = [state EXCEPT ![t] = "InMempool"]
    /\ broadcast' = [broadcast EXCEPT ![t] = vheight]
    /\ UNCHANGED <<target, guard, retries, settled, news>>

MarkAccepted(t) ==
    /\ state' = [state EXCEPT ![t] = "InMempool"]
    /\ broadcast' = [broadcast EXCEPT ![t] = vheight]
    /\ guard' = [guard EXCEPT ![t] = 0]
    /\ UNCHANGED <<target, retries, settled, news>>

\* Mutant: the fail guard is left armed.
MarkAlreadyConfirmed_KeepsGuard(t) ==
    /\ state' = [state EXCEPT ![t] = "Confirmed"]
    /\ broadcast' = [broadcast EXCEPT ![t] = IF @ = 0 THEN vheight ELSE @]
    /\ UNCHANGED <<target, guard, retries, settled, news>>

MarkAlreadyConfirmed(t) ==
    /\ state' = [state EXCEPT ![t] = "Confirmed"]
    /\ broadcast' = [broadcast EXCEPT ![t] = IF @ = 0 THEN vheight ELSE @]
    /\ guard' = [guard EXCEPT ![t] = 0]
    /\ UNCHANGED <<target, retries, settled, news>>

-----------------------------------------------------------------------------
(* Calls of the client, between ticks. *)

Register(t, delay) ==
    /\ pc = "idle"
    /\ ~Known(t)
    /\ state' = [state EXCEPT ![t] = "ToDispatch"]
    /\ target' = [target EXCEPT ![t] = vheight + delay]
    /\ UNCHANGED <<broadcast, guard, retries, settled>>
    /\ UNCHANGED <<nodeVars, viewVars, news, tickVars, faultVars>>

\* Mutant: any registered record may be cancelled.
Cancellable_Any(t) == Known(t)

Cancellable(t) == state[t] = "ToDispatch"

Cancel(t) ==
    /\ pc = "idle"
    /\ \/ /\ Cancellable(t)
          /\ RemoveTxs({t})
          /\ UNCHANGED news
       \/ /\ ~Cancellable(t)
          /\ AddNews("InvalidCancel", t)
          /\ UNCHANGED recordVars
    /\ UNCHANGED <<nodeVars, viewVars, tickVars, faultVars>>

-----------------------------------------------------------------------------
(* The tick: the monitor first, then the review pass once is_ready says that *)
(* the index has reached the node's tip.                                     *)

TickNotReady ==
    /\ pc = "idle"
    /\ MonitorTick
    /\ vheight' # height
    /\ UNCHANGED <<recordVars, news, tickVars, faultVars>>

\* evict_stale_txs, then the snapshot of the records to review.
TickStart ==
    /\ pc = "idle"
    /\ MonitorTick
    /\ vheight' = height
    /\ LET expired == StaleTxs(height)
       IN  /\ RemoveTxs(expired)
           /\ news' = news \cup ({"TransactionEvicted"} \X expired)
    /\ pc' = "review"
    /\ todo' = {t \in Txs : state[t] \in {"InMempool", "Confirmed"}}
    /\ UNCHANGED <<outcome, retryReady, faultVars>>

\* The mempool is searched for every record under review: a live record has a
\* broadcast height (NoPhantom).
IsStuck(t) == broadcast[t] # 0 /\ vheight - broadcast[t] >= StuckBlocks

ReviewInMempool(t) ==
    /\ TxStatus(t) = "in_mempool"
    /\ \/ state[t] = "Confirmed" /\ MarkReorg(t)
       \/ /\ state[t] # "Confirmed" /\ IsStuck(t)
          /\ AddNews("TransactionStuckInMempool", t)
          /\ UNCHANGED recordVars
       \/ /\ state[t] # "Confirmed" /\ ~IsStuck(t)
          /\ UNCHANGED <<recordVars, news>>

ReviewNotFound(t) == TxStatus(t) = "not_found" /\ RequeueNotFound(t)

\* Mutant: one confirmation is taken for finality.
ReviewFinalized_AtFirstConfirmation(t) ==
    TxStatus(t) \in {"confirmed", "finalized"} /\ SettleTx(t, "Finalized")

ReviewFinalized(t) == TxStatus(t) = "finalized" /\ SettleTx(t, "Finalized")

ReviewConfirmed(t) == TxStatus(t) = "confirmed" /\ UpdateTxState(t, "Confirmed")

\* Mutant: an orphaned record keeps its state.
ReviewOrphan_Ignored(t) == TxStatus(t) = "orphan" /\ UNCHANGED <<recordVars, news>>

ReviewOrphan(t) == TxStatus(t) = "orphan" /\ UpdateTxState(t, "InMempool")

Review(t) ==
    /\ pc = "review"
    /\ t \in todo
    /\ todo' = todo \ {t}
    /\ \/ ReviewInMempool(t)
       \/ ReviewNotFound(t)
       \/ ReviewFinalized(t)
       \/ ReviewConfirmed(t)
       \/ ReviewOrphan(t)
    /\ UNCHANGED <<nodeVars, viewVars, pc, outcome, retryReady, faultVars>>

-----------------------------------------------------------------------------
(* The dispatch pass: choose the batch, send it, then handle the outcomes. *)

\* Mutants: every active record is due; a failed one is tried again.
Due_Active == {t \in Txs : state[t] \in Active /\ vheight >= target[t]}
Due_Failed == {t \in Txs : state[t] \in {"ToDispatch", "Failed"} /\ vheight >= target[t]}

Due == {t \in Txs : state[t] = "ToDispatch" /\ vheight >= target[t]}

Retrying(due) == {t \in due : retries[t] > 0}

\* Mutant: retries wait for the next batch, always.
RateLimited_Never(due) == due \ Retrying(due)

RateLimited(due) == IF retryReady THEN due ELSE due \ Retrying(due)

\* apply_retry_rate_limit, then validate.
BeginDispatch ==
    LET batch == RateLimited(Due)
    IN  /\ pc = "review"
        /\ todo = {}
        /\ retryReady' = (retryReady /\ Retrying(Due) = {})
        /\ outcome' = [t \in Txs |-> IF t \in batch \cap Invalid THEN "Fatal" ELSE "none"]
        /\ todo' = batch \ Invalid
        /\ pc' = "dispatch"
        /\ UNCHANGED <<nodeVars, viewVars, recordVars, news, faultVars>>

TrackedParents(t) == {p \in Parents(t) \cap Txs : Known(p)}

\* Mutant: a failed parent is waited for.
FailedParent_Ignored(t) == FALSE

FailedParent(t) == \E p \in TrackedParents(t) : state[p] = "Failed"

Ready(p) == TxStatus(p) \in {"in_mempool", "confirmed", "finalized"}

ParentsReady(t) == \A p \in TrackedParents(t) : Ready(p)

Dispatched(t, o) ==
    /\ pc = "dispatch"
    /\ t \in todo
    /\ todo' = todo \ {t}
    /\ outcome' = [outcome EXCEPT ![t] = o]
    /\ UNCHANGED <<recordVars, news, pc, retryReady, faultVars>>

DispatchParentFailed(t) ==
    /\ FailedParent(t)
    /\ Dispatched(t, "ParentFailed")
    /\ UNCHANGED <<nodeVars, viewVars>>

DispatchDeferred(t) ==
    /\ ~FailedParent(t) /\ ~ParentsReady(t)
    /\ Dispatched(t, "none")
    /\ UNCHANGED <<nodeVars, viewVars>>

DispatchSend(t) ==
    /\ ~FailedParent(t) /\ ParentsReady(t)
    /\ \/ Dispatched(t, "Success") /\ Accept(t)
       \/ Dispatched(t, "DispatchError") /\ Accept(t)    \* the reply was lost
       \/ Dispatched(t, "DispatchError") /\ UNCHANGED <<nodeVars, viewVars>>

BeginHandle ==
    /\ pc = "dispatch"
    /\ todo = {}
    /\ pc' = "handle"
    /\ UNCHANGED <<nodeVars, viewVars, recordVars, news, todo, outcome, retryReady, faultVars>>

Handling(t, from, to) ==
    /\ pc = "handle"
    /\ outcome[t] = from
    /\ outcome' = [outcome EXCEPT ![t] = to]
    /\ UNCHANGED <<nodeVars, viewVars, pc, todo, retryReady, faultVars>>

HandleSuccess(t) == Handling(t, "Success", "none") /\ MarkAccepted(t)

\* settle_failed_dispatch: the record first, its news in a second write.
Fail(t, from) == Handling(t, from, "publish") /\ SettleTx(t, "Failed")

HandleFatal(t) == Fail(t, "Fatal") \/ Fail(t, "ParentFailed")

\* Mutant: the client is told only of transactions that were never broadcast.
PublishFailure_FirstDispatchOnly(t) ==
    /\ Handling(t, "publish", "none")
    /\ news' = IF broadcast[t] = 0 THEN news \cup {<<"DispatchError", t>>} ELSE news
    /\ UNCHANGED recordVars

PublishFailure(t) ==
    /\ Handling(t, "publish", "none")
    /\ AddNews("DispatchError", t)
    /\ UNCHANGED recordVars

\* Mutant: every rejection is taken for "already known to the node".
ProbeConfirmations_AlwaysKnown(t) ==
    Handling(t, "DispatchError", "none") /\ MarkAccepted(t)

\* classify_dispatch_error, first question: does the node hold the tx?
ProbeConfirmations(t) ==
    \/ /\ MayAnswerZero(t)
       /\ Handling(t, "DispatchError", "none")
       /\ MarkAccepted(t)
    \/ /\ t \in OnChain
       /\ Handling(t, "DispatchError", "none")
       /\ MarkAlreadyConfirmed(t)
    \/ /\ t \notin Present
       /\ Handling(t, "DispatchError", "absent")
       /\ UNCHANGED <<recordVars, news>>

InputMissing(t) == \E o \in Inputs[t] : ~UtxoUnspent(o)

\* Mutant: the window closes a block early.
WithinGuard_OneShort(t) == guard[t] # 0 /\ vheight + 1 < guard[t]

WithinGuard(t) == guard[t] # 0 /\ vheight < guard[t]

BudgetSpent(t) == retries[t] + 1 >= RetryAttempts

\* Second question: is an input gone?  Third: is the retry budget spent?
ProbeInputs(t) ==
    \/ /\ IF InputMissing(t) THEN WithinGuard(t) ELSE ~BudgetSpent(t)
       /\ Handling(t, "absent", "none")
       /\ MarkAsRetry(t)
    \/ /\ IF InputMissing(t) THEN ~WithinGuard(t) ELSE BudgetSpent(t)
       /\ Fail(t, "absent")

EndTick ==
    /\ pc = "handle"
    /\ outcome = NoOutcome
    /\ pc' = "idle"
    /\ UNCHANGED <<nodeVars, viewVars, recordVars, news, todo, outcome, retryReady, faultVars>>

-----------------------------------------------------------------------------
(* What cuts a tick short, and the clock of the retry window. *)

AbandonTick == pc' = "idle" /\ todo' = {} /\ outcome' = NoOutcome

\* A call to the node fails and `?` leaves the tick; the writes between the
\* failure verdict and its news make no such call.
TickError ==
    /\ pc # "idle"
    /\ errors < MaxErrors
    /\ \A t \in Txs : outcome[t] # "publish"
    /\ AbandonTick
    /\ errors' = errors + 1
    /\ UNCHANGED <<nodeVars, viewVars, recordVars, news, retryReady, crashes>>

\* The process dies and is started again: last_retry_at is not persisted.
Crash ==
    /\ crashes < MaxCrashes
    /\ AbandonTick
    /\ retryReady' = TRUE
    /\ crashes' = crashes + 1
    /\ UNCHANGED <<nodeVars, viewVars, recordVars, news, errors>>

RetryIntervalElapses ==
    /\ ~retryReady
    /\ retryReady' = TRUE
    /\ UNCHANGED <<nodeVars, viewVars, recordVars, news, pc, todo, outcome, faultVars>>

-----------------------------------------------------------------------------
ClientStep ==
    \/ \E t \in Txs, delay \in Delays : Register(t, delay)
    \/ \E t \in Cancelled : Cancel(t)

DispatchStep(t) ==
    \/ DispatchParentFailed(t)
    \/ DispatchDeferred(t)
    \/ DispatchSend(t)

HandleStep(t) ==
    \/ HandleSuccess(t)
    \/ HandleFatal(t)
    \/ PublishFailure(t)
    \/ ProbeConfirmations(t)
    \/ ProbeInputs(t)

TickStep ==
    \/ TickNotReady
    \/ TickStart
    \/ BeginDispatch
    \/ BeginHandle
    \/ EndTick
    \/ \E t \in Txs : Review(t) \/ DispatchStep(t) \/ HandleStep(t)

FaultStep == TickError \/ Crash

Network == NetworkStep /\ UNCHANGED <<recordVars, news, tickVars, faultVars>>

Next == ClientStep \/ TickStep \/ FaultStep \/ RetryIntervalElapses \/ Network

Spec == Init /\ [][Next]_vars

\* The client calls tick forever, and wall-clock time passes.
Fairness == WF_vars(TickStep) /\ WF_vars(RetryIntervalElapses)

FairSpec == Spec /\ Fairness

-----------------------------------------------------------------------------
(* Properties. *)

\* A record that review settled Finalized (confirmations read from the lagging
\* index) is on the node's best chain, and stays there whatever reorganisation
\* of depth MaxReorg follows: the engine never looks at the record again.
FinalizedOnChain == \A t \in Txs : state[t] = "Finalized" => t \in OnChain

\* Between the snapshot a pass takes and the unchecked write it ends in
\* (mark_reorg, mark_accepted, mark_already_confirmed), the stored record is
\* the one in the snapshot, so no such write overwrites another decision.
SnapshotFresh ==
    \A t \in Txs :
        /\ pc = "review" /\ t \in todo => state[t] \in {"InMempool", "Confirmed"}
        /\ pc = "dispatch" /\ t \in todo => state[t] = "ToDispatch"
        /\ outcome[t] \in {"publish"} => state[t] = "Failed"
        /\ outcome[t] \notin {"none", "publish"} => state[t] = "ToDispatch"

\* The reorg-flap guard is armed only while the transaction is queued again or
\* has failed: a record that is live has no deadline left over from an earlier
\* disappearance, so each disappearance gets a full window.
GuardOnlyWhileQueued ==
    \A t \in Txs : guard[t] # 0 => state[t] \in {"ToDispatch", "Failed"}

\* A record the engine reports as InMempool, Confirmed or Finalized is of a
\* transaction that did reach the network, and its broadcast height is known
\* (review searches the mempool only then).
NoPhantom ==
    \A t \in Txs : state[t] \in {"InMempool", "Confirmed", "Finalized"} =>
                     t \in relayed /\ broadcast[t] # 0

\* When the review pass is over, every record it left live says what the
\* monitor's index says: on the index's chain exactly when Confirmed or
\* Finalized at that depth, whichever reorganisation the index went through.
ReviewedAgreesWithIndex ==
    pc = "dispatch" =>
        \A t \in Txs :
            /\ state[t] = "Confirmed" => vmined[t] # 0 /\ Confirmations(t) < MaxConfs
            /\ state[t] = "InMempool" => vmined[t] = 0

\* No failure goes unreported: a Failed record has its DispatchError news, or
\* is about to get it in the tick under way.  (Without crashes.)
NoSilentFailure ==
    \A t \in Txs : state[t] = "Failed" =>
                     <<"DispatchError", t>> \in news \/ outcome[t] = "publish"

\* The checked transitions of the store are never refused: the engine asks
\* only for moves can_transition_to allows, of records that exist.
NoRefusedTransition ==
    \A t \in Txs :
        /\ <<"InvalidStateTransition", t>> \notin news
        /\ <<"TxNotFound", t>> \notin news

\* No queued transaction is forgotten: a due ToDispatch record does not stay so
\* for ever, unless the chain stands still inside its guard window or a tracked
\* parent that has not failed is missing from the network.  Retries, deferrals
\* and the shared retry window never add up to a silent stop.
QueueMoves ==
    \A t \in Txs : []<>(\/ state[t] # "ToDispatch"
                        \/ vheight < target[t]
                        \/ WithinGuard(t)
                        \/ \E p \in TrackedParents(t) : state[p] # "Failed" /\ ~Ready(p))

\* The engine implements the lifecycle promised to clients: the raw writes of
\* mark_reorg, mark_accepted and mark_already_confirmed skip the check of
\* can_transition_to and still follow it, and a terminal record is neither
\* reopened nor dropped before its time.
Lifecycle == INSTANCE TxLifecycle WITH now <- vheight

ImplementsLifecycle == Lifecycle!Spec

\* "The system never has a transaction on-chain without a local record of it"
\* (docs/design.md, I1), unless the record expired.
NothingWithoutRecord ==
    \A t \in Txs \ Shared : t \in Present =>
        Known(t) \/ <<"TransactionEvicted", t>> \in news

\* The verdict drawn from the inputs of an absent transaction is "definitive"
\* (engines/common.rs): the node does not hold what is being settled Failed.
AbsentWhenFailed ==
    [][\A t \in Txs : outcome[t] = "absent" /\ outcome'[t] = "publish" => t \notin Present]_vars

\* "Topological ordering for parent/child pairs sent in the same tick"
\* (README.md): a child is not put off while its parent waits in the same batch.
ParentsFirst ==
    [][\A t \in Txs : pc = "dispatch" /\ t \in todo \ todo' /\ outcome'[t] = "none"
                        /\ pc' = "dispatch"
                        => Parents(t) \cap todo = {}]_vars
=============================================================================
