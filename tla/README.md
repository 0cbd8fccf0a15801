# TLA+ models of the BitVMX Bitcoin coordinator

The coordinator takes signed transactions from a client, broadcasts them when
they are due, follows them through the mempool, confirmation, reorganisations
and finality, pays for slow ones with CPFP and RBF speedups, and reports what
happens as news. It is single-threaded: all progress is made inside `tick()`.
What makes it hard is everything it does not control. The node and the chain
move between any two of its calls, the monitor's index lags behind the node,
other parties spend the same outputs, replies get lost, an RPC error leaves a
pass half done, and the process can die between any two writes to its store.

This directory models that system, checks it with TLC on small instances and
proves the core results with TLAPS for every instance.

## Inventory

| Component | Source | State | Operations | What makes it hard | What makes it correct |
|---|---|---|---|---|---|
| Coordinator API and tick | `coordinator.rs` | none of its own | `dispatch*`, `cancel`, `add_funding`, `get_news`, `ack_news`, `monitor`, `tick` (monitor, then six steps) | calls come between any two ticks; a step that errors drops the rest of the tick | a known record is not registered twice; only queued records are removed |
| Transaction engine | `engines/transaction_engine.rs` | records in the store | `review_active`, `dispatch_pending` | status is read from a lagging index, then from the mempool | a record says what the index says; Finalized is permanent |
| Dispatch classification | `engines/common.rs` | `last_retry_at` (volatile), `fail_guard_until`, `retry_count` | `handle_dispatch_result`, `classify_dispatch_error`, `fail_and_cascade`, `rebuild_survivors`, `apply_retry_rate_limit` | two probes of a moving node; deadline, budget and rate limit interact over many ticks | no verdict before the guard window; a lost reply is recognised; nothing queued is forgotten |
| Dispatcher | `core/dispatcher.rs` | none | `dispatch` (validate, parent gate, send), `batch_by_weight` | parent and child in one batch | a doomed child fails, a child of a missing parent waits |
| Transaction store | `core/storage.rs`, `helper.rs`, `types.rs` | `Tx` records, `SpeedupList`, `PendingSpeedupParents`, funding queue, news | checked transitions, raw `update_tx`, `evict_stale_txs`, list operations | each record is written on its own: no atomicity across records | transitions follow `can_transition_to`; terminal records stay until they expire |
| Speedup engine | `engines/speedup_engine.rs` | speedup records, `replaced_by`, `context.spent` | `review_speedups`, `dispatch_pending_speedups`, `boost_if_stale`, `create_cpfp_batch` | RBF races its predecessor; lists and records are separate writes | every parent is covered or pending; at most one pre-built speedup; bounded chain |
| Funding manager | `core/funding.rs`, `core/storage.rs` | funding queue with `spent` marks | `set_funding`, `get_funding`, `get_combine_funding`, `release_marks`, `replace_on_finalize` | a mark is set before the build that may fail | no output reserved twice, none locked for ever |
| Fee manager | `core/fee.rs` | none | fee formulas | rounding, cap, RBF floor | the package pays the asked rate, never above the cap |
| News store | `core/storage.rs` | list of news with ack height | `add_news`, `ack_news`, `cleanup_news` | value-based dedup against acknowledged items | nothing unacknowledged disappears |
| Node and monitor | external | best chain, mempool, index | RPC answers, `Monitor::tick` | | |
| Settings | `config/` | none | `validate` | | ranges assumed by the other parts |

The components call each other synchronously and share one store. The only
concurrency is with the network; the only volatile state is `last_retry_at`.

## Modules

| Module | Content |
|---|---|
| `BitcoinNode` | The node and the monitor, from the calls the coordinator makes (external code). Best chain (`height`, `minedAt`), mempool, the transactions a txindex still finds in abandoned blocks (`stale`), and the monitor's index (`vheight`, `vmined`, `common`, `orphaned`), which advances or rolls back one block per `monitor.tick`. |
| `CoordinatorTypes` | The lifecycle states and the transitions `can_transition_to` allows. |
| `TransactionEngine` | The coordinator's handling of client transactions, and the safety and liveness properties. |
| `TxLifecycle` | The abstract specification: what a client is promised about one record. |
| `EngineHistory` | `TransactionEngine` with history variables that observe and do not restrict, for properties that compare a verdict with its past. |
| `MCTransactionEngine`, `MCEngineHistory` | Values for the constants of the above. |
| `SpeedupStore` | The store as the speedup side uses it: records, `SpeedupList`, `PendingSpeedupParents`, the funding queue, write by write. |
| `SpeedupNode` | The node and the index for transactions that are built while the system runs: replacement, double spends of a parent, descendants that leave with what they spend (external code). |
| `SpeedupEngine` | Steps 1 to 6 of a tick for parents and speedups, the calls that feed them, and the properties. Extends the two above. |
| `FeeManager` | The fee formulas and `batch_by_weight`, as operators. |
| `SpeedupPricing` | The prices of a chain of speedups under a moving network rate, over `FeeManager`. |
| `NewsStore` | The list of news with acknowledgement and cleanup, over the chain and index of `BitcoinNode`. |
| `Mailbox` | The abstract specification of the news: what appears stays readable until it is acknowledged. |
| `MCSpeedupEngine`, `MCSpeedupPricing` | Amounts and multipliers. |
| `BitcoinNodeProofs`, `TransactionEngineProofs`, `NewsStoreProofs`, `FeeManagerProofs`, `SpeedupPricingProofs`, `SpeedupEngineProofs` | Lemmas and theorems about the module of that name; `TransactionEngineProofs` also about `EngineHistory`. |
| `SpeedupLinksProofs` | The second layer of the proofs about `SpeedupEngine`: what the stored speedups have to do with each other, with what was built and with the chain. |
| `FoldTheorems` | Induction over the naturals in a form the provers can use, and what a fold over an interval or a loop over a sequence computes. |

### How `TransactionEngine` corresponds to the code

One function per field of a record: `state`, `target` (`target_block_height`),
`broadcast`, `guard` (`fail_guard_until`), `retries`, `settled`. 0 stands for
`None`; block heights start at 1. `"Unregistered"` means that the store has no
record. `retries` saturates at `retry_attempts_sending_tx`, above which every
count behaves alike. `news` is the set of all news ever published;
acknowledging and cleaning up is the news store's business.

A tick is a sequence of steps (`pc`), cut wherever the network, an RPC error or
a crash can come between two effects:

| Step | Code |
|---|---|
| `TickNotReady`, `TickStart` | `monitor.tick`, `is_ready`, `evict_stale_txs` and the snapshot of `review_active` |
| `Review(t)` | one iteration of `review_transactions`: one status query and the write it leads to |
| `BeginDispatch` | `dispatch_pending`, `apply_retry_rate_limit`, `validate` |
| `DispatchParentFailed`, `DispatchDeferred`, `DispatchSend` | one iteration of `Dispatcher::dispatch`. A send may succeed, fail, or be accepted with the reply lost |
| `HandleSuccess`, `HandleFatal`, `ProbeConfirmations`, `ProbeInputs`, `PublishFailure` | `handle_dispatch_result` for one outcome. The two probes are separate RPC calls; the `Failed` record and its news are separate writes |
| `TickError`, `Crash` | `?` leaves the tick; the process restarts with an open retry window |
| `Register`, `Cancel` | client calls, between ticks |
| `RetryIntervalElapses` | the wall clock of `retry_interval_seconds` |

Abstractions: a transaction is an id with a set of outpoints; weights and the
absence of inputs are the set `Invalid`; the fee update of a dispatch and the
subscription with the monitor change nothing the properties see. Every
rejection is possible at every send, whatever its cause. The parent gate and
the send it guards are one step: whatever the network does between them it can
also do just before or just after. Eviction with its news is one step of the
store. Batches are walked in any order, since the store returns records in txid
order. `mark_orphan`, `mark_confirmed` and `mark_finalized` go through the
checked transitions; `mark_reorg`, `mark_accepted` and `mark_already_confirmed`
write the caller's copy, as in the code.

`MayAnswerZero` covers a node that answers a confirmation query with 0 for a
transaction of an abandoned block, as `tests/coordinator.rs` (1378-1380)
describes. Whether the index remembers a rolled-back transaction as an orphan is
left open.

### How `SpeedupEngine` corresponds to the code

`db` is the store, `tx[s]` what the bitcoin transaction of speedup `s` spends
and pays. The two are apart because the network may know a transaction whose
record is gone. Speedups are numbered in the order they were first built; the
same inputs and fee give the same number again, as they give the same txid. An
output carries the name of the transaction that pays it.

The store commits every `set` and `remove` on its own, so each operation of
`SpeedupStore` extends a *trace*, the sequence of stores its writes leave behind.
A step normally commits the last store of its trace (`Commit`); with `MaxFaults`
above 0 it may instead keep any earlier one and leave the tick (`CutShort`),
which is a crash or an error between two writes. The `for` loops of the code are
folds over traces, so that the order of writes is the code's.

| Step | Code |
|---|---|
| `Register`, `Cancel`, `AddFunding` | `dispatch_with_speedup` and `register_tx`, `cancel`, `add_funding` |
| `TickStart` | `monitor.tick` until `is_ready`, then `evict_stale_txs` |
| `Review` | steps 1 and 2: parents, then speedups, each pass over its own snapshot; `mark_reorg`, requeue with its guard, finality with `remove_replaced_rbf` and `replace_on_finalize` |
| `DispatchParents` | step 3 in one step, then (`ReadSpeedups`) the choice of the speedups to send: the two share the retry window, parents first |
| `SendSpeedup` | one iteration of `Dispatcher::dispatch`: parent gate, send; a reply may be lost |
| `HandleSpeedup` | `handle_dispatch_result` for one outcome, with the copies (`snap`) that were read before the sends; `fail_and_cascade`, `rebuild_survivors`, `settle_failed_dispatch` |
| `SkipBoost`, `Boost` | `boost_if_stale`: CPFP while a slot is free, else RBF; `build_speedup` with its second attempt on combined inputs |
| `NoBatch`, `CreateCpfpBatch` | `create_cpfp_batch` |
| `TickError`, `RetryIntervalElapses` | an RPC error between two steps; the wall clock |

Network steps come between any two of these. Abstractions: a fee is the package
rate itself and any rate `FeeManager` may come to (at least the rate asked for,
above the tip's, at most the cap; the formulas are `SpeedupPricing`'s business);
`MaxBatch` stands for the weights. Classification is one step here and call by
call in `TransactionEngine`, which also has the txindex that answers for
abandoned blocks. The index has caught up whenever a tick goes on. Parents are
independent of one another and never stuck. The operator registers an output
once and spends none of them, as `docs/design.md` asks. The news in `db` is that
of the present tick. `fail_and_cascade` recurses in the code; the model walks the
speedups in the order in which they can spend one another, and `CascadeOnce` is
what makes the two the same.

### The other new modules

`FeeManager` computes with integers and with fractions where the code has `f64`;
on the magnitudes at hand `f64` is exact but for the multipliers, whose rounding
by `ceil` is the model's `Scale`. `SpeedupPricing` builds on it: `CreateCpfp` and
`Boost` are the pricing lines of `create_cpfp_batch` and `boost_if_stale`, `Slack`
is the excess of the estimated over the signed size, `last` remembers what the
last build was asked for. `NewsStore` has one action per writer and reader of the
list, which it keeps as a bag, since the code searches it by value only and the
order of the items is presentation; `Turn` lets the cause of a repeated news (stuck transaction, no funding)
come and go, `lastAck` is a history variable.

## Properties

`TransactionEngine`, `EngineHistory`:

| Property | What it says |
|---|---|
| `FinalizedOnChain` | A Finalized record is of a transaction on the node's best chain, for ever. |
| `SnapshotFresh` | The record a pass writes back is still the one it read. |
| `GuardOnlyWhileQueued` | A live record has no leftover fail-guard deadline. |
| `NoPhantom` | A live or final record is of a transaction that reached the network, with its broadcast height. |
| `ReviewedAgreesWithIndex` | After review every live record says what the index says. |
| `NoSilentFailure` | Every Failed record has its news, or gets it in the tick under way. |
| `NoRefusedTransition` | The engine never asks for a transition the store refuses. |
| `QueueMoves` | A due record is not queued for ever, unless the chain stands still inside its guard window or a tracked parent that has not failed is missing. |
| `ImplementsLifecycle` | The engine refines `TxLifecycle`. |
| `GuardWindowRespected` | No failure on a consumed input before the window has passed since the transaction was first missed. |

`SpeedupEngine`:

| Property | What it says | Where it is not claimed |
|---|---|---|
| `Covered` | Every live parent is in `PendingSpeedupParents` or anchors a speedup that is alive. | parents whose CPFP spent its retry budget (`abandoned`): the code requeues them nowhere; crashes (`speedup_crash`) |
| `ReservedOnce` | No output pays for two speedups, unless one replaces the other. | a crash together with a mempool eviction: not checked |
| `ReplacedStaysOut` | A predecessor is not queued while its replacement is alive. | |
| `RebuildsOnlyDead` | A speedup that is built again under the txid it had before was given up, and nothing alive replaces it. | |
| `ReplacedSettled` | Behind a Finalized replacement no predecessor is live. | reorganisations (`replaced_confirmed`) |
| `InputsMarked`, `MarksHeld` | Spent marks and the speedups that hold them agree, in both directions. | crashes and errors inside a build leave a mark without a holder: finding at `speedup_engine.rs:563`; reorganisations: finding at `common.rs:178`; two evictions in a row, below |
| `OnePrebuilt` | At most one speedup that was never broadcast is queued (I2 of `docs/design.md`). | crashes: a record that was stored and not yet listed is invisible to the check |
| `BoostPullsTip` | A boost descends from the tip it was built for. | as `MarksHeld` |
| `CascadeOnce` | No queued speedup depends on a dead transaction in two ways. | checked without crashes and reorganisations |
| `SlotsRespected` | The live chain is at most `max_unconfirmed_speedups` long. | reorganisations: with four blocks TLC finds a longer chain |
| `FundingKept` | The change of a mined speedup is known to the store. | speedups that were once settled Failed (`disowned`): finding at `common.rs:262`; crashes |
| `NoRefusal` | The store refuses none of the transitions a tick asks for. | reorganisations (`replaced_confirmed`) |
| `QueueDrains` | A queued speedup is sent or given up. | guard windows; a parent that retries in every retry window |

`NewsStore`: `ImplementsMailbox` (nothing unread disappears), `RepeatsEachBlock`
and `QuietAfterAck` (a lasting condition is told once per block, and not again at
an acknowledged height, also across reorganisations). `SpeedupPricing`:
`WithinCap`, `ReachesRate`, `BoostOutpays` (a replacement satisfies BIP-125), and
`BatchesAreGreedy`, the definition `batch_by_weight` is checked against. Each
module has one type invariant; those of `SpeedupEngine` and `NewsStore` include
that no list holds an entry twice, and that of `SpeedupPricing` the length of
the chain.

## Runs

Passing:

| Run | Instance | Shows |
|---|---|---|
| `flap` | one transaction, one rival for its input, 4 blocks, reorganisations of depth 1 under finality at 2, one mempool eviction, history variables, fairness | the invariants above, `GuardWindowRespected`, `QueueMoves` |
| `family` | parent and child, one crash, one RPC error, a reorganisation, expiry of old records | `NoPhantom`, `SnapshotFresh`, refinement, liveness |
| `intake` | a parent, an invalid and cancellable child, immediate and delayed targets, a stuck transaction, one mempool eviction | refinement and liveness under client calls |
| `speedup` | one parent, one slot, three speedups, 4 blocks, one mempool eviction, lost replies and rejections | the first CPFP and its replacement racing each other: `Covered`, `ReplacedStaysOut`, `RebuildsOnlyDead`, `ReplacedSettled`, `SlotsRespected`, `FundingKept`, `NoRefusal` |
| `chain` | three slots, two outputs of which the first is too small for the chain, 3 blocks, finality at one confirmation, one mempool eviction | boosts by CPFP, combined inputs, cascades: `InputsMarked`, `MarksHeld`, `OnePrebuilt`, `BoostPullsTip`, `CascadeOnce` |
| `batch` | two parents in one CPFP, one double-spent, both cancellable, two retry attempts, fairness | `Covered` through rebuilds, `QueueDrains` |
| `crash` | two slots, two outputs, 3 blocks, a crash or error after any write of any step, reorganisations of depth 1 | `ReservedOnce`, `ReplacedStaysOut` |
| `news` | two conditions, one refusal, 5 blocks, reorganisations of depth 2 | the mailbox refinement and the rhythm of news |
| `pricing` | parents of two weights, a limit of three light ones, rates below, at and above the cap, a base multiplier of 5/4 | the fee bounds and the batches |

Four blocks are enough for a transaction to be mined, un-mined by a
reorganisation, missed, guarded for a full window of two blocks and judged. Two
confirmations to finality with reorganisations of depth one is the smallest
instance with a state between first confirmation and finality and a
reorganisation that is deep enough to matter and shallow enough to be legal. Two
retry attempts distinguish the first failure from the last. One error, eviction
or crash can strike at every step of every tick of the run. No state constraint
is used: every bound is in the guard of an action. The configurations switch the
deadlock check off because those bounds stop the system: at the last block, with
all speedups built, nothing may be left to do.

`speedup` and `chain` differ in the slots, so that all boosts are by RBF in one and
by CPFP in the other; `crash` has both. In `speedup` four blocks let a CPFP become
stale, be replaced, and either of the two reach finality and expire; the third
speedup is the one built for a parent that lost its CPFP. In `chain` three rates
give two boosts, hence a chain of three, the smallest whose loss takes two victims
along; three blocks suffice to build it, and with finality at one confirmation
for its oldest member to become final under it. `SpeedupLarge.cfg`
(`MCSpeedupEngine`, 6.1 million states, three minutes on four cores) is `speedup`
with one more block and rate, which adds the replacement of a replacement up to
finality; TLC finds no violation.

Three runs document a difference between the code and what the repository says of
it; TLC finds the counterexample.

| Run | Property | Difference |
|---|---|---|
| `retry_budget` | `BudgetCountsTransients` | deferrals inside the guard window use up the retry budget |
| `replaced_confirmed` | `ReplacedSettled` | a predecessor that was mined and un-mined before its replacement finalized is neither settled nor ever dropped: the store has no transition from Confirmed to Failed |
| `speedup_crash` | `Covered` | a crash between the two writes of a registration, or between those of a new CPFP, leaves a parent that nothing will ever speed up |

Further differences have a configuration that is not in the run list; TLC
reports a violation of the property for each of them.

| Configuration | Module | Property | Difference |
|---|---|---|---|
| `CancelBroadcast.cfg` | `MCTransactionEngine` | `NothingWithoutRecord` | a broadcast transaction that was queued again can be cancelled and then be mined |
| `VerdictFinality.cfg` | `MCEngineHistory` | `VerdictIsFinal` | a verdict past the window can still be reversed: the rival may be shallow or unconfirmed |
| `WindowExtended.cfg` | `MCEngineHistory` | `WindowNotExtended` | a 0-confirmation answer for an abandoned block disarms and re-arms the guard |
| `ProbeRace.cfg` | `MCTransactionEngine` | `AbsentWhenFailed` | between the two probes the transaction itself can appear |
| `CrashNews.cfg` | `MCTransactionEngine` | `NoSilentFailure` | a crash between the record and its news loses the news |
| `ReorgBoundary.cfg` | `MCTransactionEngine` | `FinalizedOnChain` | a reorganisation of exactly the finality depth is not ruled out by the documents and un-mines a Finalized transaction |
| `BatchOrder.cfg` | `MCTransactionEngine` | `ParentsFirst` | a batch is not in topological order |
| `ChainRate.cfg` | `MCSpeedupPricing` | `ChainReachesRate` | `chain_fee_diff` takes the tip's rate for the whole chain; members with a lower one stay below the rate asked for |
| `LowMultiplier.cfg` | `MCSpeedupPricing` | `BoostOutpays` | `validate` allows a `base_fee_multiplier` below one, which takes back the bump: a boost with the rate of its tip |

Some more differences rest on `SpeedupEngine` with other constants or properties:
`Crash.cfg` violates `OnePrebuilt` (see Proofs); with
`MaxFaults = 1` in `Chain.cfg` TLC violates `MarksHeld` and `BoostPullsTip` (a mark
whose build did not finish), and without the exception for `disowned`
`FundingKept` fails in `Speedup.cfg` (no guard on a first dispatch). With finality
at 2, four blocks, two rates and reorganisations of depth 1, `Chain.cfg` violates
`InputsMarked`: the outcome of a send is written over a record that a cascade of
the same batch has just failed. Without reorganisations two evictions do the same
(`MaxEvictions = 2` in `Chain.cfg`): the first queues a chain of two again, both
are sent, the reply for the older one is lost, and the second eviction takes both
before their outcomes are handled. The older one fails with its budget spent, the
cascade frees the inputs of the younger one, and its `Success` is then written
back from the copy. `Crash.cfg` with `MaxFaults = 0`, four blocks and two rates
violates `SlotsRespected`: a reorganisation returns a Confirmed speedup to the
mempool after its slot was given away.

### Fairness

`WF(TickStep)`: the client calls `tick` again and again, and each call runs to
its end, since it is sequential code. `WF(RetryIntervalElapses)`: time passes.
Nothing is assumed of the network: blocks need not come, the node may reject
everything, and errors and crashes may strike (boundedly often). In
`SpeedupEngine` the same assumption reads `[]<>(pc = "review")` and
`[]<>(pc = "idle")`: ticks begin and end again and again. It is stated of the
program counter and not as weak fairness because the bound `MaxSpeedups` can stop
a tick that would build one more speedup; those behaviours are left out.

## Proofs

`BitcoinNodeProofs` proves what the engine relies on, for every set of
transactions, spending relation and bound:

- `NodeType`, `NodeReached`: typing; the chain, the mempool and the node's
  txindex hold only client transactions that reached the network.
- `NodeAgrees`: what the index shows at or below `common` is in the best chain
  at the same height, and the index is at most `MaxReorg` blocks into an
  abandoned branch.
- `FinalizedIsDeep`, `DeepStaysMined`: a transaction the index counts
  `max_monitoring_confirmations` deep is deeper in the best chain than any
  reorganisation reaches, and stays there.

`TransactionEngineProofs` proves, for every instance:

| Theorem | Statement |
|---|---|
| `Invariance` | `Spec => []IndInv` |
| `TypeCorrect` | `Spec => []TypeOK` |
| `SnapshotsStayFresh` | `Spec => []SnapshotFresh` |
| `GuardDisarmed` | `Spec => []GuardOnlyWhileQueued` |
| `NoPhantoms` | `Spec => []NoPhantom` |
| `FinalizedIsPermanent` | if `MaxReorg < MaxConfs` then `Spec => []FinalizedOnChain` |
| `EngineImplementsLifecycle` | `Spec => ImplementsLifecycle` |
| `ReviewLeavesAgreement` | `Spec => []ReviewedAgreesWithIndex` |
| `TransitionsAllowed` | `Spec => []NoRefusedTransition` |
| `FailuresReported` | `Spec => [](crashes = 0 => NoSilentFailure)` |

The argument has two layers. None of the properties is inductive, because a
pass acts on a snapshot taken several steps earlier. `PassInv` says that what a
pass still has to do is about records that are still as the snapshot saw them.
From it, the lemma `RecordSteps` lists all that one step can do to one record
(eight cases, `RecordStep`), although there are some twenty actions and three
kinds of unchecked write. The invariants, finality and the refinement are then
case splits over that list. `IndInv` adds that only terminal records have a
settled height (needed for the refinement) and that a `Success` outcome is of a
transaction the node took (needed for `NoPhantom`). For the three last theorems
it is strengthened once more:

- `ReviewProgress`: during review a live record has either been reviewed and
  `Agrees` with the index, or is still to come, with the copy the pass holds. The
  index cannot move during a tick, so agreement, once reached, lasts.
- `TransitionsAllowed` follows from `IndInv` alone: the news a refusal would
  leave (`RefusalKinds`) is added by no step.
- `FailuresReported` holds until the first crash, and `CrashNews.cfg` shows that
  nothing more is true: what a restart forgets is that the news was still owed.

The last section of the module proves `FlapGuardHolds`: `HSpec => GuardWindowRespected`.
`HistoryObserves` (`HSpec => Spec`) carries the engine's invariants over;
`HistoryInv` relates the recorded height of the first miss to the deadline in the
record, through every requeue, restart and reorganisation (`TipNeverFalls` of
`BitcoinNodeProofs`).

`NewsStoreProofs` proves all four properties of the store: `OneItemPerValue`
(`Spec => []NewsTypeOK`), `NewsImplementsMailbox` (`Spec => ImplementsMailbox`),
`ConditionsRepeat` and `QuietUntilNextBlock`. The inductive invariant `NewsInv`
adds `AcksKept`: no acknowledgement carries a height above the chain's, a stored
one is the last the client gave of its value, and one that is no longer stored is
of an earlier block. With `IndexAgrees` of `BitcoinNodeProofs` this is inductive:
acknowledgements take the index's height, cleanup the node's, and a
reorganisation lies between the two.

`FeeManagerProofs` and `SpeedupPricingProofs` prove the five properties of
pricing for all weights, sizes, rates, multipliers and chain lengths:

| Theorem | Statement |
|---|---|
| `PricesWellTyped` | `Spec => []PricingTypeOK` |
| `PackageWithinCap` | `Spec => []WithinCap` |
| `PackageReachesRate` | `Spec => []ReachesRate` |
| `BoostsPayMore` | if `base_fee_multiplier >= 1` then `Spec => []BoostOutpays` |
| `GreedyBatches` | `Spec => []BatchesAreGreedy` |

The lemma `FeeFacts` says what `compute_speedup_fee` returns for every input: the
rounding up, the credit for the parents' own fee, the floor of a replacement and
the cap. `PricingInv` adds to the five properties that every member of the chain
was priced with it (`ChainPriced`), since a boost is measured against a tip that
was built in an earlier step. `BatchesGreedy` is about a loop: `BatchInv` is its
invariant, `TakeKeeps` one iteration, and `FoldTheorems` the induction. The
library's induction rules take an operator the provers cannot instantiate;
`SetInduction` and `IndexInduction` state the same for a set, which they can, and
`FoldEquation` unfolds a fold whose step is given as a function. `SumRuns` and
`FlattenRuns` apply them to sums and to concatenations.

`SpeedupEngineProofs` proves of the speedup engine, for any set of parents and
outputs, any transactions and any bounds:

| Theorem | Statement |
|---|---|
| `StoreKeepsShape` | `Spec => []ShapeOK`, crashes included |
| `OnePrebuiltHolds` | `Spec => [](faults = 0 => OnePrebuilt)` |

A step of this module leaves a trace, and a crash keeps any store of it; so the
lemmas speak of traces, not of steps. `Good(c)` is a set of stores, `Traces(c)` the
sequences over stores with their shape (`Store`) that end in a good one. For each
operation of `SpeedupStore` and of the engine there is a lemma that it takes
`Traces(c)` to `Traces(c)`, with the conditions the code meets where it calls it; a
loop (`review_speedups`, `fail_and_cascade`, the pruning of parents) stays in `Traces(c)` because
each iteration does (`LoopStays` of `FoldTheorems`). `SpeedupInv` then has two parts:

- whatever happened: the store has its shape. The lists hold nothing twice because
  `prepend_pending_speedup_parents` filters what is listed already, and because
  the parents of one record are themselves without repetition, which the invariant
  has to carry (`Rec`).
- until the first fault (`Calm`): an active speedup is in the `SpeedupList`, a live
  one has a broadcast height, what is being sent is still listed, and the speedups
  queued without a broadcast height lie in a set of at most one (`prebuilt`).
  `any_to_dispatch` walks the list only, so without the first clause a build could
  miss a queued speedup; without the second, `requeue_not_found` could queue one
  that counts as pre-built.

The first fault ends the second part for good: `insert_speedup` writes the record
and then the list, and a crash in between leaves a queued speedup that no list
shows. With `OnePrebuilt` as its invariant `Crash.cfg` gives the counterexample, so the
condition `faults = 0` of the theorem is needed.

`SpeedupLinksProofs` proves, again for every instance:

| Theorem | Statement |
|---|---|
| `ReplacedStaysOutHolds` | `Spec /\ RebuildsOnlyDead => []ReplacedStaysOut`, crashes, errors and reorganisations included |
| `CoveredHolds` | `Spec /\ RebuildsOnlyDead => [](faults = 0 /\ MaxReorg < MaxConfs => Covered)` |

Neither property is inductive. The dispatch pass writes back copies of records it
read before its sends; a replacement settles what it replaces; a parent is covered
by a CPFP only as long as record and transaction agree on its anchors; and that a
parent may be let go depends on how deep it lies in the chain. `LinkInv` adds to
`SpeedupInv`:

- `Linked`: every stored speedup was built, a CPFP's record names the parents whose
  anchors its transaction spends, a replacement spends the anchors of what it
  replaces, and what a speedup that has not failed replaces is not queued.
- `CopiesOK`: the copies of the pass agree with the store on these links, and
  writing one back neither queues a replaced speedup nor revives its replacement.
- `ChainOK`: what is mined was built and lies above what it spends, and the index
  is right about everything deeper than a reorganisation reaches.
- `CoverOK`: until the first fault every live parent is pending or covered by a CPFP
  that is active itself (the root of its line of replacements), unless it was
  abandoned or lies deep. This is stronger than `Covered`: a parent with a
  Finalized CPFP is deep, and a replacement is never what covers a parent.

The argument is about traces once more. A *frame* says what a step may do: what is
built, what each speedup spends and replaces, which records stay, which speedups may
be queued or alive, which parents may be left out. `Runs(A, c)` are the traces over
the stores of `A` that end in a store the frame `c` allows and, until the first
fault, in one that covers every parent. For every operation there is a lemma that it
leads from one such set to another, and for every action one that picks the frame
and composes them (`NextLinked`). A cascade, for instance, first spares the parents
of the speedup it fails (`Sparing`) and owes them until they are prepended to
`PendingSpeedupParents`.

The hypothesis `RebuildsOnlyDead` concerns the one write that is not a transition:
`insert_speedup` overwrites what is stored under the txid of the speedup it saves,
and a build with the same outputs, anchors and fee has the txid of an earlier one.
Were that one alive, its links would be lost. That it never is rests on the spent
marks: its inputs are free only when it was given up. `InputsMarked` says so, but
not where two evictions or a reorganisation break it, so the hypothesis is stated
as a property of its own and left to TLC: run `speedup` checks it, and its mutant (a
replacement at the rate of its tip) breaks it. It does not hold for want of
rebuilds: the same run also builds a failed speedup again. TLC found it true in the
instances of `chain` and `crash` as well. `faults = 0` is needed for `Covered` as
`speedup_crash` shows, and `MaxReorg < MaxConfs` as in `FinalizedIsPermanent`.

Assumptions, beyond those the theorems name: `NodeAssumption`, `EngineAssumption`,
`FeeAssumption`, `PricingAssumption`, `StoreAssumption`, `SpeedupNodeAssumption` and
`SpeedupAssumption` (natural numbers, finitely many parents, disjoint names, the
ranges `validate` enforces). For finality, reorganisations are strictly shallower
than `max_monitoring_confirmations`; `ReorgBoundary.cfg` shows that this cannot be
weakened to "not deeper". `LowMultiplier.cfg` shows the same of the condition of
`BoostsPayMore`.

Only model-checked:

- `QueueMoves` and `QueueDrains`: liveness is outside the prover's reach.
- Of `SpeedupTypeOK`, that the funding queue holds nothing twice and that what an
  RBF adds to its funding is the operator's. The first depends on the chain: a
  speedup that was finalized and expired is not built and finalized again, because
  its inputs are gone.
- `RebuildsOnlyDead`, for the reason above; with it `InputsMarked`, `MarksHeld` and
  `BoostPullsTip`, which relate the marks of the funding queue to what every speedup
  spends and hold only within the bounds named under Properties, so that no
  invariant for every value of the constants implies them.
- `SlotsRespected` and `CascadeOnce`: claimed without reorganisations (and crashes),
  and about the order of the chain of live speedups, of which `LinkInv` says nothing
  beyond its pairs.
- `ReservedOnce`: `get_funding` and `get_combine_funding` choose among outputs by
  folding over the queue; the invariant needs the marks of every store a crash
  leaves, between which `InputsMarked` is false.
- `NoRefusal`, `ReplacedSettled` and `FundingKept`: they need that no record is
  settled twice in one pass and that what is Finalized stays mined, through the
  fold over the speedups of a review. No such invariant was found within the proofs.

## Plan

All components are modelled as far as they are meant to be, and the plan of proofs
is carried out up to the list above. The step that would open most of that list is
an invariant of the funding queue: which stores of a trace agree with its marks. It
would turn `RebuildsOnlyDead` from a hypothesis into a consequence where at most one
eviction and no reorganisation happens, and give `ReservedOnce` there.

## Not modelled

- `clear_funding` and `has_funding`: called by tests only. Registering an output
  a second time while a speedup spends it (`append_funding` resets its mark):
  left to the operator by `docs/design.md`.
- `compute_fee` of a plain transaction and the other figures that are only
  reported; the rounding of `f64`.
- The stale txindex answer and the race of the two probes for speedups: in
  `TransactionEngine` for plain transactions only, where the code is the same.
- Stuck detection for parents and parents that spend one another: as for plain
  transactions in `TransactionEngine`.
- Loading of settings (their validation is the assumptions on the constants),
  error types, logging, key handling and the construction and signing of
  transactions (library code), test utilities.
