----------------------------- MODULE SpeedupEngine -----------------------------
(***************************************************************************)
(* The speedup side of a tick: review of parents and speedups, dispatch of *)
(* both, boosting of a stale tip and the CPFP for the next batch of        *)
(* parents (engines/speedup_engine.rs, engines/common.rs), with the client *)
(* and operator calls that feed it (coordinator.rs).                       *)
(*                                                                         *)
(* TransactionEngine follows the classification of a rejected broadcast    *)
(* call by call; here it is one step, and so is the dispatch of parents.   *)
(* FeeManager computes fees; here a speedup built at package rate r costs  *)
(* r, where r is any rate FeeManager may come to: at least the rate asked  *)
(* for, above the tip's, at most the cap.  MaxBatch parents fit a batch.   *)
(***************************************************************************)
EXTENDS SpeedupNode

CONSTANTS
    Amount,          \* Amount[f]: value of the operator's output f
    MinFunding,      \* min_funding_amount_sats
    Dust,            \* MAX_DUST_LIMIT
    MaxRate,         \* max_feerate_sat_vb
    StaleBlocks,     \* min_blocks_before_resend_speedup
    MaxUnconfirmed,  \* max_unconfirmed_speedups
    MaxBatch,        \* parents max_tx_weight leaves room for
    Cancelled,       \* parents the client may cancel
    MaxFaults        \* bound: ticks or calls cut short by a crash or an error

ASSUME SpeedupAssumption ==
    /\ Amount \in [Fundings -> Nat]
    /\ {MinFunding, Dust, MaxFaults} \subseteq Nat
    /\ {MaxRate, MaxBatch, StaleBlocks, MaxUnconfirmed} \subseteq Nat \ {0}
    /\ Cancelled \subseteq Parents

VARIABLES
    pc,          \* where the tick stands
    todo,        \* speedups still to be sent
    results,     \* outcomes still to be handled, <<speedup, outcome>>
    snap,        \* the copies dispatch_pending_speedups works on
    retryReady,  \* the shared retry window is open (last_retry_at)
    faults,      \* faults so far
    abandoned,   \* parents whose first CPFP spent its retry budget (history)
    disowned     \* speedups that were ever settled Failed (history)

tickVars == <<pc, todo, results, snap>>
history == <<abandoned, disowned>>
vars == <<tx, db, chainVars, indexVars, tickVars, retryReady, faults, history>>

NoCopies == [s \in {} |-> NoRecord]

Init ==
    /\ tx = [s \in Speedups |-> NoTx]
    /\ db = EmptyStore
    /\ NodeInit
    /\ pc = "idle" /\ todo = <<>> /\ results = <<>> /\ snap = NoCopies
    /\ retryReady = TRUE
    /\ faults = 0
    /\ abandoned = {} /\ disowned = {}

-----------------------------------------------------------------------------
(* A step commits its trace, or a crash or an error keeps part of it. *)

Failures(d) == {s \in Speedups : d.rec[s].state = "Failed"}

CutShort(t) ==
    /\ faults < MaxFaults
    /\ \E i \in 1..(Len(t) - 1) : db' = t[i] /\ disowned' = disowned \cup Failures(t[i])
    /\ pc' = "idle" /\ todo' = <<>> /\ results' = <<>> /\ snap' = NoCopies
    /\ retryReady' \in {retryReady, TRUE}
    /\ faults' = faults + 1
    /\ UNCHANGED abandoned

Commit(t, to) ==
    /\ db' = Now(t) /\ disowned' = disowned \cup Failures(Now(t))
    /\ pc' = to
    /\ UNCHANGED faults

\* For steps that leave the dispatch pass alone.
Step(t, to) ==
    \/ Commit(t, to) /\ UNCHANGED <<todo, results, snap, retryReady, abandoned>>
    \/ CutShort(t)

-----------------------------------------------------------------------------
(* Calls of the client and the operator, between ticks. *)

Register(p) ==
    /\ pc = "idle"
    /\ ~Known(db, p)
    /\ Step(AddPendingSpeedupParent(UpdateTx(<<db>>, p, NewRecord), p), "idle")
    /\ UNCHANGED <<tx, chainVars, indexVars>>

\* A refused request only publishes news (TransactionEngine, NewsStore).
Cancel(p) ==
    /\ pc = "idle"
    /\ db.rec[p].state = "ToDispatch"
    /\ Step(RemoveTx(RemovePendingSpeedupParent(<<db>>, p), p), "idle")
    /\ UNCHANGED <<tx, chainVars, indexVars>>

\* The operator registers an output once.
AddFunding(f) ==
    /\ pc = "idle"
    /\ db.funds[f] = "none"
    /\ \A s \in Speedups : f \notin Inputs(s)
    /\ Step(IF Amount[f] >= MinFunding THEN AppendFunding(<<db>>, f)
            ELSE AddNews(<<db>>, "InvalidFundingUtxo", f), "idle")
    /\ UNCHANGED <<tx, chainVars, indexVars>>

-----------------------------------------------------------------------------
(* Review: steps 1 and 2 of the tick. *)

\* evict_stale_txs begins the review; news is read between ticks.
TickStart ==
    /\ pc = "idle"
    /\ Sync
    /\ Step(EvictStaleTxs(<<[db EXCEPT !.news = {}]>>, height), "review")
    /\ UNCHANGED <<tx, chainVars>>

\* Parents: the broadcast height feeds only stuck detection, which is off.
BroadcastAt(x) == IF x \in Speedups THEN vheight ELSE 0

MarkReorg(t, x, copy) ==
    UpdateTx(t, x, [copy EXCEPT !.state = "InMempool", !.broadcast = BroadcastAt(x)])

\* Every predecessor of an RBF, the latest first.
ReplacedChain(d, s) ==
    LET chain[n \in 1..MaxSpeedups] ==
            IF n = 1 THEN <<d.rec[s].replaces>>
            ELSE LET older == d.rec[Last(chain[n - 1])].replaces
                 IN  IF older = 0 THEN chain[n - 1] ELSE Append(chain[n - 1], older)
    IN  IF IsRbf(d.rec[s]) THEN chain[MaxSpeedups] ELSE <<>>

\* Mutants: nothing is done; the walk starts at the finalized speedup itself.
RemoveReplacedRbf_Nothing(t, s) == t
RemoveReplacedRbf_FromItself(t, s) ==
    FoldLeft(LAMBDA acc, r : SettleTx(acc, r, "Failed", vheight), t,
             IF IsRbf(Now(t).rec[s]) THEN <<s>> \o ReplacedChain(Now(t), s) ELSE <<>>)

RemoveReplacedRbf(t, s) ==
    FoldLeft(LAMBDA acc, r : SettleTx(acc, r, "Failed", vheight), t, ReplacedChain(Now(t), s))

\* Mutant: the funding queue keeps the consumed output.
ReviewFinalized_QueueKept(t, x) ==
    LET settled == SettleTx(t, x, "Finalized", vheight)
    IN  IF x \in Parents THEN settled ELSE RemoveReplacedRbf(settled, x)

ReviewFinalized(t, x) ==
    LET settled == SettleTx(t, x, "Finalized", vheight)
    IN  IF x \in Parents THEN settled
        ELSE ReplaceFundingOnFinalize(RemoveReplacedRbf(settled, x), x)

\* d: the snapshot the pass works on.
ReviewOne(t, x, d, orphans) ==
    CASE TxStatus(x, orphans) = "in_mempool" ->
           IF d.rec[x].state = "Confirmed" THEN MarkReorg(t, x, d.rec[x]) ELSE t
      [] TxStatus(x, orphans) = "not_found" ->
           IF x \in Speedups /\ HasLiveReplacement(d, x) THEN t
           ELSE RequeueNotFound(t, x, vheight + MaxConfs)
      [] TxStatus(x, orphans) = "finalized" -> ReviewFinalized(t, x)
      [] TxStatus(x, orphans) = "confirmed" -> UpdateTxState(t, x, "Confirmed")
      [] TxStatus(x, orphans) = "orphan" -> UpdateTxState(t, x, "InMempool")

ReviewPass(t, xs, orphans) ==
    LET d == Now(t)
        inFlight == Where(xs, {x \in Ids : d.rec[x].state \in {"InMempool", "Confirmed"}})
    IN  FoldLeft(LAMBDA acc, x : ReviewOne(acc, x, d, orphans), t, inFlight)

Review ==
    /\ pc = "review"
    /\ \E orphans \in SUBSET {x \in Ids : db.rec[x].state = "Confirmed" /\ x \notin Present} :
         LET parents == ReviewPass(<<db>>, SetToSeq(Parents), orphans)
         IN  Step(ReviewPass(parents, Ordered(Now(parents)), orphans), "dispatch")
    /\ UNCHANGED <<tx, chainVars, indexVars>>

-----------------------------------------------------------------------------
(* Outcomes of a dispatch (engines/common.rs). *)

MarkReplacedBy(t, r, by) ==
    IF IsRbf(r) /\ Known(Now(t), r.replaces)
    THEN UpdateTx(t, r.replaces, [Now(t).rec[r.replaces] EXCEPT !.replacedBy = by])
    ELSE t

MarkAccepted(t, x, copy) ==
    UpdateTx(MarkReplacedBy(t, copy, x), x,
             [copy EXCEPT !.state = "InMempool", !.broadcast = BroadcastAt(x), !.guard = 0])

MarkAlreadyConfirmed(t, x, copy) ==
    UpdateTx(MarkReplacedBy(t, copy, x), x,
             [copy EXCEPT !.state = "Confirmed", !.guard = 0,
                          !.broadcast = IF @ = 0 THEN BroadcastAt(x) ELSE @])

\* A CPFP gives its funding back; an RBF what it added, and it unmasks its
\* predecessor; a CPFP that lost its funding gives its parents back.
SettleFailedDispatch(t, x, fundingMissing) ==
    LET r == Now(t).rec[x]
        told == AddNews(SettleTx(t, x, "Failed", vheight), "DispatchError", x)
        released == IF IsRbf(r) THEN MarkReplacedBy(ReleaseMarks(told, r.fresh), r, 0)
                    ELSE ReleaseMarks(told, tx[x].funding)
    IN  IF x \in Parents THEN told
        ELSE IF fundingMissing THEN RequeueProtocolParents(released, x)
        ELSE released

DependsOn(d, s) == {Head(tx[s].funding)} \cup ToSet(d.rec[s].parents)

Queued(d) == {s \in Speedups : d.rec[s].state = "ToDispatch"}

Dependent(d, s, dead) == s \in Queued(d) /\ DependsOn(d, s) \cap dead # {}

Oldest == [i \in 1..MaxSpeedups |-> i]

\* fail_and_cascade: a speedup spends only older ones, so a pass in the order
\* they were first built meets every victim after what it spends.  The second
\* pass is for one that was built again, on a younger tip.  The code recurses
\* over a list it read before; CascadeOnce says that this meets no victim twice.
FailAndCascade(t, x, fundingMissing) ==
    LET Victim(acc, s) ==
            IF Dependent(Now(acc.trace), s, acc.dead)
            THEN [trace |-> SettleFailedDispatch(acc.trace, s, TRUE), dead |-> acc.dead \cup {s}]
            ELSE acc
    IN  FoldLeft(Victim, [trace |-> SettleFailedDispatch(t, x, fundingMissing), dead |-> {x}],
                 Where(Oldest \o Oldest, Listed(Now(t)))).trace

RebuildSurvivors(t, s) ==
    LET survivors == Where(tx[s].anchors, {p \in Parents : Now(t).rec[p].state # "Failed"})
        failed == FailAndCascade(t, s, FALSE)
    IN  PrependPendingSpeedupParents(failed, KnownParents(Now(failed), survivors))

\* Mutant: the batch goes down with its dead parent.
SettleFailedChild_NoSurvivors(t, x) == FailAndCascade(t, x, FALSE)

SettleFailedChild(t, x) ==
    IF x \in Speedups /\ ~IsBoost(Now(t), x) THEN RebuildSurvivors(t, x)
    ELSE FailAndCascade(t, x, FALSE)

WithinGuard(copy) == copy.guard # 0 /\ vheight < copy.guard

BudgetSpent(copy) == copy.retries + 1 >= RetryAttempts

-----------------------------------------------------------------------------
(* Dispatch: steps 3 and 4 of the tick. *)

\* A parent's inputs are gone exactly when it is double-spent.
HandleParent(t, p, taken) ==
    LET copy == db.rec[p]
    IN  CASE p \in taken \cup mempool -> MarkAccepted(t, p, copy)
          [] p \in OnChain \ taken -> MarkAlreadyConfirmed(t, p, copy)
          [] p \in lost -> IF WithinGuard(copy) THEN MarkAsRetry(t, p) ELSE SettleFailedChild(t, p)
          [] OTHER -> IF BudgetSpent(copy) THEN FailAndCascade(t, p, FALSE) ELSE MarkAsRetry(t, p)

Retrying(d, S) == {x \in S : d.rec[x].retries > 0}

\* Mutant: retries never get their window.
RateLimited_Never(d, S, ready) == S \ Retrying(d, S)

RateLimited(d, S, ready) == IF ready THEN S ELSE S \ Retrying(d, S)

\* What dispatch_pending_speedups takes from the store.  It shares the retry
\* window with dispatch_pending, which comes first and left it ready or not.
ReadSpeedups(d, ready) ==
    LET queued == {s \in Listed(d) : d.rec[s].state = "ToDispatch"}
        sendable == RateLimited(d, queued, ready)
    IN  /\ todo' = Where(Ordered(d), sendable)
        /\ snap' = [s \in sendable |-> d.rec[s]]
        /\ retryReady' = (ready /\ Retrying(d, queued) = {})

\* dispatch_pending, up to the choice of the speedups to send.
DispatchParents ==
    /\ pc = "dispatch"
    /\ LET due == {p \in Parents : db.rec[p].state = "ToDispatch"}
           batch == RateLimited(db, due, retryReady)
       IN  \E taken \in SUBSET {p \in batch : Acceptable(p)} :
             LET t == FoldLeft(LAMBDA acc, p : HandleParent(acc, p, taken), <<db>>, SetToSeq(batch))
             IN  /\ Accept(taken)
                 /\ \/ /\ Commit(t, "send")
                       /\ ReadSpeedups(Now(t), retryReady /\ Retrying(db, due) = {})
                       /\ UNCHANGED <<results, abandoned>>
                    \/ CutShort(t)
    /\ UNCHANGED <<tx, indexVars>>

TrackedSources(s) == {x \in Sources(s) : Known(db, x)}

FailedParent(s) == \E x \in TrackedSources(s) : db.rec[x].state = "Failed"

ParentsReady(s) ==
    \A x \in TrackedSources(s) : TxStatus(x, {}) \in {"in_mempool", "confirmed", "finalized"}

SendSpeedup ==
    /\ pc = "send" /\ todo # <<>>
    /\ LET s == Head(todo)
       IN  \/ /\ FailedParent(s)
              /\ results' = Append(results, <<s, "ParentFailed">>)
              /\ UNCHANGED chainVars
           \/ /\ ~FailedParent(s) /\ ~ParentsReady(s)
              /\ UNCHANGED <<results, chainVars>>
           \/ /\ ~FailedParent(s) /\ ParentsReady(s)
              /\ Acceptable(s) /\ Accept({s})
              /\ \E o \in {"Success", "DispatchError"} :     \* the reply may be lost
                   results' = Append(results, <<s, o>>)
           \/ /\ ~FailedParent(s) /\ ParentsReady(s)
              /\ results' = Append(results, <<s, "DispatchError">>)
              /\ UNCHANGED chainVars
    /\ todo' = Tail(todo)
    /\ UNCHANGED <<tx, db, indexVars, pc, snap, retryReady, faults, history>>

FundingMissing(s) == \E o \in ToSet(tx[s].funding) : ~UtxoUnspent(o)

AnchorMissing(s) == \E o \in ToSet(tx[s].anchors) : ~UtxoUnspent(o)

\* classify_dispatch_error for a speedup.
Classify(t, s, copy) ==
    CASE s \in mempool -> MarkAccepted(t, s, copy)
      [] s \in OnChain -> MarkAlreadyConfirmed(t, s, copy)
      [] OTHER ->
           IF FundingMissing(s) \/ AnchorMissing(s)
           THEN IF WithinGuard(copy) THEN MarkAsRetry(t, s)
                ELSE IF FundingMissing(s) THEN FailAndCascade(t, s, TRUE)
                ELSE SettleFailedChild(t, s)
           ELSE IF BudgetSpent(copy) THEN FailAndCascade(t, s, FALSE)
           ELSE MarkAsRetry(t, s)

GivesUp(s, o) ==
    /\ o = "DispatchError" /\ s \notin Present
    /\ ~FundingMissing(s) /\ ~AnchorMissing(s) /\ BudgetSpent(snap[s])

HandleSpeedup ==
    /\ pc = "send" /\ todo = <<>> /\ results # <<>>
    /\ LET s == Head(results)[1]
           o == Head(results)[2]
           t == CASE o = "Success" -> MarkAccepted(<<db>>, s, snap[s])
                  [] o = "ParentFailed" -> SettleFailedChild(<<db>>, s)
                  [] o = "DispatchError" -> Classify(<<db>>, s, snap[s])
       IN  \/ /\ Commit(t, "send")
              /\ results' = Tail(results)
              /\ abandoned' = IF GivesUp(s, o) THEN abandoned \cup ToSet(tx[s].anchors) ELSE abandoned
              /\ UNCHANGED <<todo, snap, retryReady>>
           \/ CutShort(t)
    /\ UNCHANGED <<tx, chainVars, indexVars>>

-----------------------------------------------------------------------------
(* Building: steps 5 and 6 of the tick. *)

Value(o) == IF o \in Fundings THEN Amount[o] ELSE tx[o].change

Total(outputs) == FoldLeft(LAMBDA sum, o : sum + Value(o), 0, outputs)

Pays(outputs, fee) == Total(outputs) - fee >= Dust

\* build_speedup: inherited holds the funding of the speedup an RBF replaces.
\* A second input is added to a speedup-derived one only.  inputs is empty when
\* nothing can be built.
Build(t, inherited, fee) ==
    LET choice == FundingChoice(Now(t))
        first == IF inherited # <<>> THEN inherited ELSE <<CHOOSE o \in choice : TRUE>>
        marked == IF inherited # <<>> THEN t ELSE SetSpent(t, Head(first), TRUE)
        extra == IF Len(first) = 1 /\ IsSpeedupDerived(Now(t), Head(first))
                 THEN CombineChoice(Now(marked)) ELSE {}
        both == IF extra = {} THEN first ELSE Append(first, CHOOSE o \in extra : TRUE)
        swept == IF extra = {} THEN marked ELSE SetSpent(marked, Last(both), TRUE)
        own == SubSeq(both, Len(inherited) + 1, Len(both))
    IN  IF inherited = <<>> /\ choice = {}
        THEN [trace |-> AddNews(t, "FundingNotAvailable", 0), inputs |-> <<>>]
        ELSE IF Pays(first, fee) THEN [trace |-> marked, inputs |-> first]
        ELSE IF Pays(both, fee) THEN [trace |-> swept, inputs |-> both]
        ELSE [trace |-> AddNews(ReleaseMarks(swept, own), "InsufficientFunds", 0), inputs |-> <<>>]

Content(inputs, anchors, fee) ==
    [funding |-> inputs, anchors |-> anchors, fee |-> fee, change |-> Total(inputs) - fee]

\* The same inputs and outputs make the same txid; bound: MaxSpeedups.
SlotsFor(content) ==
    LET same == {s \in Speedups : tx[s] = content}
        unused == {s \in Speedups : tx[s] = NoTx}
    IN  IF same # {} THEN same ELSE IF unused # {} THEN {Min(unused)} ELSE {}

IsLive(d, s) == d.rec[s].state = "InMempool" /\ ~HasLiveReplacement(d, s)

LiveSpeedups(d) == Where(Ordered(d), {s \in Speedups : IsLive(d, s)})

\* Mutant: the oldest live speedup is boosted.
Tip_Oldest(d) == Head(LiveSpeedups(d))

Tip(d) == Last(LiveSpeedups(d))

\* Mutant: a queued speedup does not hold back the next one.
AnyToDispatch_Never(d) == FALSE

AnyToDispatch(d) == \E s \in Listed(d) : d.rec[s].state = "ToDispatch"

BoostFailed == \E s \in DOMAIN snap : IsBoost(db, s) /\ db.rec[s].state = "Failed"

ShouldBoost ==
    /\ ~BoostFailed
    /\ ~AnyToDispatch(db)
    /\ LiveSpeedups(db) # <<>>
    /\ LET tip == db.rec[Tip(db)]
       IN  /\ tip.broadcast # 0 /\ vheight - tip.broadcast >= StaleBlocks
           /\ tip.rate < MaxRate

DispatchDone == pc = "send" /\ todo = <<>> /\ results = <<>>

EndDispatch(t) ==
    /\ Commit(t, "batch")
    /\ snap' = NoCopies
    /\ UNCHANGED <<todo, results, retryReady, abandoned>>

SkipBoost ==
    /\ DispatchDone
    /\ ~ShouldBoost
    /\ EndDispatch(<<db>>)
    /\ UNCHANGED <<tx, chainVars, indexVars>>

\* Mutant: one speedup too many.
SlotsFull_OneMore(d) == Len(LiveSpeedups(d)) > MaxUnconfirmed

SlotsFull(d) == Len(LiveSpeedups(d)) >= MaxUnconfirmed

\* save_speedup, then the news of a capped one; the predecessor of a capped RBF
\* is put at the cap so that it is not replaced again and again.
SaveBoost(t, s, r, capped) ==
    LET saved == InsertSpeedup(t, s, r)
        told == IF capped THEN AddNews(saved, "MaxFeeRateReached", s) ELSE saved
    IN  IF capped /\ IsRbf(r)
        THEN UpdateTx(told, r.replaces, [Now(told).rec[r.replaces] EXCEPT !.rate = MaxRate])
        ELSE told

\* Mutant: a replacement may pay as much as what it replaces.
Outbids_Equal(rate, tip) == rate >= db.rec[tip].rate

Outbids(rate, tip) == rate > db.rec[tip].rate

Boost(rate, capped) ==
    /\ DispatchDone
    /\ ShouldBoost
    /\ LET tip == Tip(db)
           useRbf == SlotsFull(db)
           inherited == IF useRbf THEN tx[tip].funding ELSE <<>>
           built == Build(<<db>>, inherited, rate)
           content == Content(built.inputs, IF useRbf THEN tx[tip].anchors ELSE <<>>, rate)
           record == [NewRecord EXCEPT
                        !.rate = rate,
                        !.parents = IF useRbf THEN <<>> ELSE <<tip>>,
                        !.replaces = IF useRbf THEN tip ELSE 0,
                        !.fresh = IF useRbf
                                  THEN SubSeq(built.inputs, Len(inherited) + 1, Len(built.inputs))
                                  ELSE <<>>]
       IN  /\ Outbids(rate, tip)
           /\ \/ /\ built.inputs = <<>>
                 /\ UNCHANGED tx
                 /\ EndDispatch(built.trace) \/ CutShort(built.trace)
              \/ /\ built.inputs # <<>>
                 /\ \E s \in SlotsFor(content) :
                      /\ tx' = [tx EXCEPT ![s] = content]
                      /\ LET t == SaveBoost(built.trace, s, record, capped)
                         IN  EndDispatch(t) \/ CutShort(t)
    /\ UNCHANGED <<chainVars, indexVars>>

CanCover(d) == EligibleParents(d) # <<>> /\ ~AnyToDispatch(d) /\ ~SlotsFull(d)

NoBatch ==
    LET t == PruneParents(<<db>>)
    IN  /\ pc = "batch"
        /\ ~CanCover(Now(t))
        /\ Step(t, "idle")
        /\ UNCHANGED <<tx, chainVars, indexVars>>

\* The parents leave PendingSpeedupParents before the CPFP is saved.
SaveFirst(t, s, r, capped) ==
    LET dropped == FoldLeft(RemovePendingSpeedupParent, t, r.parents)
        told == IF capped THEN AddNews(dropped, "MaxFeeRateReached", s) ELSE dropped
    IN  InsertSpeedup(told, s, r)

CreateCpfpBatch(rate, capped) ==
    LET t == PruneParents(<<db>>)
        eligible == EligibleParents(Now(t))
        batch == SubSeq(eligible, 1, Min({MaxBatch, Len(eligible)}))
        built == Build(t, <<>>, rate)
        content == Content(built.inputs, batch, rate)
        record == [NewRecord EXCEPT !.rate = rate, !.parents = batch]
    IN  /\ pc = "batch"
        /\ CanCover(Now(t))
        /\ \/ built.inputs = <<>> /\ Step(built.trace, "idle") /\ UNCHANGED tx
           \/ /\ built.inputs # <<>>
              /\ \E s \in SlotsFor(content) :
                   /\ tx' = [tx EXCEPT ![s] = content]
                   /\ Step(SaveFirst(built.trace, s, record, capped), "idle")
        /\ UNCHANGED <<chainVars, indexVars>>

-----------------------------------------------------------------------------
\* A call to the node fails between two steps, or the process is restarted.
TickError ==
    /\ pc # "idle"
    /\ faults < MaxFaults
    /\ pc' = "idle" /\ todo' = <<>> /\ results' = <<>> /\ snap' = NoCopies
    /\ retryReady' \in {retryReady, TRUE}
    /\ faults' = faults + 1
    /\ UNCHANGED <<tx, db, chainVars, indexVars, history>>

RetryIntervalElapses ==
    /\ ~retryReady
    /\ retryReady' = TRUE
    /\ UNCHANGED <<tx, db, chainVars, indexVars, tickVars, faults, history>>

\* The cap is reported only at the cap.
Rates == {r \in (1..MaxRate) \X BOOLEAN : r[2] => r[1] = MaxRate}

ClientStep ==
    \/ \E p \in Parents : Register(p)
    \/ \E p \in Cancelled : Cancel(p)
    \/ \E f \in Fundings : AddFunding(f)

TickStep ==
    \/ TickStart
    \/ Review
    \/ DispatchParents
    \/ SendSpeedup
    \/ HandleSpeedup
    \/ SkipBoost
    \/ NoBatch
    \/ \E r \in Rates : Boost(r[1], r[2]) \/ CreateCpfpBatch(r[1], r[2])

Network == NetworkStep /\ UNCHANGED <<tx, db, tickVars, retryReady, faults, history>>

Next == ClientStep \/ TickStep \/ TickError \/ RetryIntervalElapses \/ Network

Spec == Init /\ [][Next]_vars

\* The client calls tick again and again, each call runs to its end, and
\* wall-clock time passes.  Only the bound MaxSpeedups can stop a tick; these
\* behaviours are left out.
TicksForever == []<>(pc = "review") /\ []<>(pc = "idle")

Fairness == TicksForever /\ WF_vars(RetryIntervalElapses)

FairSpec == Spec /\ Fairness

-----------------------------------------------------------------------------
(* Properties. *)

Record ==
    [state : RecordState, parents : Seq(Ids), replaces : 0..MaxSpeedups, fresh : Seq(Outputs),
     rate : 0..MaxRate, broadcast : 0..MaxHeight, guard : 0..(MaxHeight + MaxConfs),
     retries : 0..RetryAttempts, settled : 0..MaxHeight, spent : BOOLEAN,
     replacedBy : 0..MaxSpeedups]

\* The part of SpeedupTypeOK that follows from the writes alone, whatever the
\* chain does.
ShapeOK ==
    /\ NodeTypeOK
    /\ db.rec \in [Ids -> Record]
    /\ db.funds \in [Outputs -> {"none", "free", "spent"}]
    /\ ToSet(db.list) \subseteq Speedups /\ ToSet(db.psp) \subseteq Parents
    /\ ToSet(db.queue) \subseteq Outputs
    /\ Cardinality(ToSet(db.list)) = Len(db.list)
    /\ Cardinality(ToSet(db.psp)) = Len(db.psp)
    /\ DOMAIN snap \subseteq Speedups /\ ToSet(todo) \subseteq DOMAIN snap
    /\ pc \in {"idle", "review", "dispatch", "send", "batch"}

\* Every variable keeps its shape; SpeedupList, PendingSpeedupParents and the
\* funding queue hold nothing twice, although a parent comes back from a failed
\* CPFP and a rebuilt speedup may have the txid of an earlier one; and what an
\* RBF adds to the funding it inherits is the operator's.
SpeedupTypeOK ==
    /\ ShapeOK
    /\ Cardinality(ToSet(db.queue)) = Len(db.queue)
    /\ \A x \in Ids : ToSet(db.rec[x].fresh) \subseteq Fundings

\* The stored speedup s, live or queued, spends output o.
Holds(s, o) == Contains(db.list, s) /\ db.rec[s].state \in Active /\ Contains(tx[s].funding, o)

\* The store says that o is taken.
Marked(o) == IF db.funds[o] # "none" THEN db.funds[o] = "spent"
             ELSE o \in Speedups /\ Known(db, o) => db.rec[o].spent

\* No parent is forgotten: a NeedsSpeedup transaction that is not mined waits in
\* PendingSpeedupParents or is the anchor of a speedup that is alive, whatever
\* evictions, double spends, cascades (fail_and_cascade) and rebuilds
\* (rebuild_survivors) did to its batch.  Excepted is a parent whose CPFP spent
\* its retry budget, which nothing requeues.
Covered ==
    \A p \in Parents \ (abandoned \cup OnChain) :
        db.rec[p].state \in Active =>
            \/ Contains(db.psp, p)
            \/ \E s \in Speedups : /\ Contains(tx[s].anchors, p)
                                   /\ db.rec[s].state \in Active \cup {"Finalized"}

\* No output pays for two speedups, unless one replaces the other: get_funding
\* and get_combine_funding never hand out what a stored speedup holds, also when
\* a crash or an error cut a tick short between the mark and the speedup, and
\* when a reorganisation brings speedups back.
ReservedOnce ==
    \A s, r \in Speedups, o \in Outputs :
        s # r /\ Holds(s, o) /\ Holds(r, o) =>
            Contains(ReplacedChain(db, r), s) \/ Contains(ReplacedChain(db, s), r)

\* While a replacement is stored and alive, its predecessor is never queued for
\* another broadcast, which would contest the replacement's inputs: the
\* not_found arm of review_speedups leaves it alone, before the replacement is
\* accepted (has_live_replacement) and after (replaced_by).
ReplacedStaysOut ==
    \A s, r \in Listed(db) :
        db.rec[r].replaces = s /\ db.rec[r].state \in Active => db.rec[s].state # "ToDispatch"

\* Built and never yet broadcast.
Prebuilt(d, s) == d.rec[s].state = "ToDispatch" /\ d.rec[s].broadcast = 0

\* A speedup that is built again with a txid it had before was given up, and so
\* was whatever replaced it.
RebuiltDead ==
    \A s \in Speedups :
        tx[s] # NoTx /\ ~Prebuilt(db, s) /\ Prebuilt(db', s) =>
            /\ db.rec[s].state \in {"Failed", "Unregistered"}
            /\ \A r \in Listed(db) : db.rec[r].replaces = s => db.rec[r].state = "Failed"

\* insert_speedup overwrites whatever is stored under the txid of the speedup it
\* saves.  The same funding, anchors and fee make the same txid again, yet no
\* build ever overwrites a speedup that is alive, final or replaced by one that is.
RebuildsOnlyDead == [][RebuiltDead]_vars

\* What a stored speedup spends is marked in whichever record now stands for
\* the output: the speedup that pays it (context.spent) or, from finality on,
\* the funding record replace_funding_on_finalize makes of its change.
InputsMarked == \A s \in Speedups, o \in Outputs : Holds(s, o) => Marked(o)

\* No funding is locked for ever: an output marked spent has a speedup that is
\* alive or final behind it.  A build that fails, a CPFP or an RBF that is given
\* up and every victim of a cascade release what they marked.
MarksHeld ==
    \A o \in Outputs :
        db.funds[o] = "spent" \/ (o \in Speedups /\ db.rec[o].state \in Active /\ db.rec[o].spent) =>
            \E s \in Speedups : /\ Contains(tx[s].funding, o)
                                /\ db.rec[s].state \in Active \cup {"Finalized"}

\* "At most one pre-built speedup" (docs/design.md, I2): of the speedups never
\* yet broadcast at most one is queued, although steps 5 and 6 of a tick both
\* build and retries keep one queued over many ticks.
OnePrebuilt ==
    Cardinality({s \in Speedups : db.rec[s].state = "ToDispatch" /\ db.rec[s].broadcast = 0}) <= 1

\* fail_and_cascade walks a list it read before its inner calls, so a victim
\* that depends on the dead transaction in two ways, directly and through
\* another victim, would be settled, published and requeued twice.  No queued
\* speedup ever does, also after mempool evictions have requeued a whole chain.
CascadeOnce ==
    \A s, r \in Queued(db) :
        r \in DependsOn(db, s) => DependsOn(db, s) \cap DependsOn(db, r) = {}

\* The speedups whose change pays for s, through first inputs, and s itself.
PaidBy ==
    LET chain[s \in Speedups] ==
            LET from == IF tx[s].funding = <<>> THEN 0 ELSE Head(tx[s].funding)
            IN  IF from \in 1..(s - 1) THEN {s} \cup chain[from] ELSE {s}
    IN  chain

\* A boost by CPFP pulls the tip it was built for: its first input descends from
\* that tip, although boost_if_stale chooses the tip and get_funding the output,
\* each by its own search of the store.
BoostPullsTip ==
    \A s \in Speedups : LET r == db.rec[s]
                        IN  r.state \in Active /\ r.parents # <<>> /\ tx[s].anchors = <<>> =>
                              Head(r.parents) \in PaidBy[s]

\* max_unconfirmed_speedups bounds the live chain: a CPFP is built only while a
\* slot is free, and replacements, masked predecessors and requeued speedups do
\* not add up to one more (without crashes and reorganisations).
SlotsRespected == Len(LiveSpeedups(db)) <= MaxUnconfirmed

\* "The replaced chain is settled `Failed` later, when the RBF finalizes"
\* (docs/speedup.md): behind a Finalized replacement no record of a predecessor is
\* live, so none is boosted, pays for a speedup or is tracked for ever (without
\* reorganisations).
ReplacedSettled ==
    \A s \in Speedups : db.rec[s].state = "Finalized" =>
        \A r \in ToSet(ReplacedChain(db, s)) : db.rec[r].state \notin Active

\* The operator's money is not lost: the change of a mined speedup that nothing
\* on the chain spends is known to the store, as a stored speedup or as a
\* funding record, from the moment it is mined and after the speedup's record
\* expired.  Excepted is a speedup that was ever settled Failed.
FundingKept ==
    \A s \in Speedups :
        s \in OnChain \ disowned /\ (\A y \in OnChain : s \notin Inputs(y)) =>
            db.funds[s] # "none" \/ Contains(db.list, s)

\* Every checked transition the tick asks for is one the store allows, of a
\* record it has: the cascade, remove_replaced_rbf and the outcomes of dispatch
\* never meet a record another part of the tick has settled or evicted.
NoRefusal ==
    \A x \in Ids : /\ <<"InvalidStateTransition", x>> \notin db.news
                   /\ <<"TxNotFound", x>> \notin db.news

\* A queued speedup is broadcast or given up, not kept for ever: unless a record
\* is inside its guard window, or a parent that keeps retrying takes the shared
\* retry window (apply_retry_rate_limit) before the speedups' turn in each tick.
QueueDrains ==
    \A s \in Speedups :
        []<>(\/ db.rec[s].state # "ToDispatch"
             \/ \E x \in Ids : WithinGuard(db.rec[x])
             \/ \E p \in Parents : db.rec[p].state = "ToDispatch" /\ db.rec[p].retries > 0)
=============================================================================
