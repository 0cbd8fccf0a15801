------------------------------ MODULE SpeedupStore ------------------------------
(***************************************************************************)
(* The store as the speedup engine and the funding manager use it          *)
(* (core/storage.rs, core/funding.rs): records of parents and of speedups  *)
(* in one keyspace, the ordered SpeedupList, PendingSpeedupParents and the *)
(* funding queue.  Every `set` or `remove` of the key-value store commits  *)
(* on its own.  An operation therefore extends a trace, the sequence of    *)
(* stores its writes leave behind; a crash keeps a prefix of it.           *)
(*                                                                         *)
(* An output carries the name of the transaction it belongs to: a parent's *)
(* anchor, a speedup's change, or an output of the operator (Fundings).    *)
(* Height 0 and speedup 0 stand for None.                                  *)
(***************************************************************************)
EXTENDS CoordinatorTypes, Integers, SequencesExt

CONSTANTS
    Parents,        \* NeedsSpeedup transactions of the client
    Fundings,       \* outputs the operator may register
    MaxSpeedups,    \* bound: different speedups ever built
    MaxTracking,    \* max_tracking_confirmations
    RetryAttempts   \* retry_attempts_sending_tx

ASSUME StoreAssumption ==
    /\ IsFiniteSet(Parents)
    /\ Parents \cap Fundings = {}
    /\ (Parents \cup Fundings) \cap (1..MaxSpeedups) = {}
    /\ {MaxSpeedups, RetryAttempts} \subseteq Nat \ {0}
    /\ MaxTracking \in Nat

Speedups == 1..MaxSpeedups
Ids == Parents \cup Speedups
Outputs == Fundings \cup Speedups

VARIABLES
    tx,  \* tx[s]: what speedup s spends and pays; the node may know s for ever
    db   \* the store

NoTx == [funding |-> <<>>, anchors |-> <<>>, fee |-> 0, change |-> 0]

\* parents, replaces, fresh (new_funding_inputs), spent and replacedBy are the
\* kind and context of a speedup; a parent leaves them as they are here.
NoRecord ==
    [state |-> "Unregistered", parents |-> <<>>, replaces |-> 0, fresh |-> <<>>,
     rate |-> 0, broadcast |-> 0, guard |-> 0, retries |-> 0, settled |-> 0,
     spent |-> FALSE, replacedBy |-> 0]

NewRecord == [NoRecord EXCEPT !.state = "ToDispatch"]

EmptyStore ==
    [rec   |-> [x \in Ids |-> NoRecord],        \* the Tx keyspace
     list  |-> <<>>,                            \* SpeedupList
     psp   |-> <<>>,                            \* PendingSpeedupParents
     queue |-> <<>>,                            \* FundingList
     funds |-> [o \in Outputs |-> "none"],      \* FundingData: "free" or "spent"
     news  |-> {}]                              \* news since the tick began

-----------------------------------------------------------------------------
(* Lists. *)

\* The entries of a list that are in S, in their order: a loop over the list that
\* keeps some of it.  The provers have no definition of SelectSeq.
Where(seq, S) ==
    LET upTo[n \in 0..Len(seq)] ==
            IF n = 0 THEN <<>>
            ELSE IF seq[n] \in S THEN Append(upTo[n - 1], seq[n]) ELSE upTo[n - 1]
    IN  upTo[Len(seq)]

Without(seq, x) == Where(seq, ToSet(seq) \ {x})

-----------------------------------------------------------------------------
(* Traces. *)

Now(t) == Last(t)

Put(t, d) == IF d = Now(t) THEN t ELSE Append(t, d)

AddNews(t, kind, x) == Put(t, [Now(t) EXCEPT !.news = @ \cup {<<kind, x>>}])

UpdateTx(t, x, r) == Put(t, [Now(t) EXCEPT !.rec[x] = r])

Known(d, x) == d.rec[x].state # "Unregistered"

-----------------------------------------------------------------------------
(* Records. *)

IsRbf(r) == r.replaces # 0

\* A boost carries no parent_data, or replaces a speedup.
IsBoost(d, s) == IsRbf(d.rec[s]) \/ tx[s].anchors = <<>>

\* get_speedups_ordered.
Ordered(d) == Where(d.list, {s \in Speedups : Known(d, s)})

\* The same where the order is of no account.
Listed(d) == {s \in ToSet(d.list) : Known(d, s)}

\* Mutant: only replaced_by is looked at, which is written at dispatch.
HasLiveReplacement_AcceptedOnly(d, s) == d.rec[s].replacedBy # 0

HasLiveReplacement(d, s) ==
    \/ d.rec[s].replacedBy # 0
    \/ \E r \in Listed(d) : d.rec[r].state # "Failed" /\ d.rec[r].replaces = s

\* The guard and the refusal every checked transition shares.
Checked(t, x, to, r) ==
    IF ~Known(Now(t), x) THEN AddNews(t, "TxNotFound", x)
    ELSE IF ~CanTransitionTo(Now(t).rec[x].state, to)
    THEN AddNews(t, "InvalidStateTransition", x)
    ELSE UpdateTx(t, x, r)

UpdateTxState(t, x, to) == Checked(t, x, to, [Now(t).rec[x] EXCEPT !.state = to])

SettleTx(t, x, to, h) ==
    Checked(t, x, to, [Now(t).rec[x] EXCEPT !.state = to, !.settled = h])

RequeueNotFound(t, x, deadline) ==
    Checked(t, x, "ToDispatch",
            [Now(t).rec[x] EXCEPT !.state = "ToDispatch",
                                  !.guard = IF @ = 0 THEN deadline ELSE @])

\* A longer count than RetryAttempts behaves as RetryAttempts does.
MarkAsRetry(t, x) ==
    Checked(t, x, "ToDispatch",
            [Now(t).rec[x] EXCEPT !.state = "ToDispatch",
                                  !.retries = Min({@ + 1, RetryAttempts})])

RemoveSpeedupFromList(t, x) == Put(t, [Now(t) EXCEPT !.list = Without(@, x)])

RemoveTx(t, x) == RemoveSpeedupFromList(UpdateTx(t, x, NoRecord), x)

\* Mutant: a rebuilt speedup is listed again.
InsertSpeedup_ListedTwice(t, s, r) ==
    LET stored == UpdateTx(t, s, r)
    IN  Put(stored, [Now(stored) EXCEPT !.list = Append(@, s)])

InsertSpeedup(t, s, r) ==
    LET stored == UpdateTx(t, s, r)
    IN  IF Contains(Now(t).list, s) THEN stored
        ELSE Put(stored, [Now(stored) EXCEPT !.list = Append(@, s)])

-----------------------------------------------------------------------------
(* PendingSpeedupParents. *)

AddPendingSpeedupParent(t, p) ==
    IF Contains(Now(t).psp, p) THEN t ELSE Put(t, [Now(t) EXCEPT !.psp = Append(@, p)])

PrependPendingSpeedupParents(t, ps) ==
    LET missing == Where(ps, Parents \ ToSet(Now(t).psp))
    IN  Put(t, [Now(t) EXCEPT !.psp = missing \o @])

RemovePendingSpeedupParent(t, p) == Put(t, [Now(t) EXCEPT !.psp = Without(@, p)])

\* get_pending_speedup_parents: dead entries go, queued parents are skipped.
PruneParents(t) ==
    LET Prune(acc, p) == IF Now(acc).rec[p].state \in {"Failed", "Unregistered"}
                         THEN RemovePendingSpeedupParent(acc, p) ELSE acc
    IN  FoldLeft(Prune, t, Now(t).psp)

EligibleParents(d) ==
    Where(d.psp, {p \in Parents : d.rec[p].state \in {"InMempool", "Confirmed", "Finalized"}})

KnownParents(d, xs) == Where(xs, {p \in Parents : Known(d, p)})

RequeueProtocolParents(t, s) ==
    PrependPendingSpeedupParents(t, KnownParents(Now(t), Now(t).rec[s].parents))

-----------------------------------------------------------------------------
(* Eviction of settled records. *)

LiveCovered(d) ==
    UNION {ToSet(d.rec[s].parents) : s \in {r \in Listed(d) : d.rec[r].state \notin Terminal}}

StaleTxs(d, h) ==
    {x \in Ids : /\ d.rec[x].state \in Terminal
                 /\ h - d.rec[x].settled >= MaxTracking
                 /\ x \notin Parents \cap (ToSet(d.psp) \cup LiveCovered(d))}

EvictStaleTxs(t, h) ==
    LET Evict(acc, x) == AddNews(RemoveTx(acc, x), "TransactionEvicted", x)
    IN  FoldLeft(Evict, t, SetToSeq(StaleTxs(Now(t), h)))

-----------------------------------------------------------------------------
(* Funding. *)

\* set_spent: the queue's record if there is one, else the speedup's context.
SetSpent(t, o, b) ==
    LET d == Now(t)
    IN  IF d.funds[o] # "none"
        THEN Put(t, [d EXCEPT !.funds[o] = IF b THEN "spent" ELSE "free"])
        ELSE IF o \in Speedups /\ Known(d, o)
        THEN UpdateTx(t, o, [d.rec[o] EXCEPT !.spent = b])
        ELSE t

\* Mutant: marks are kept.
ReleaseMarks_Nothing(t, outputs) == t

ReleaseMarks(t, outputs) == FoldLeft(LAMBDA acc, o : SetSpent(acc, o, FALSE), t, outputs)

AppendFunding(t, o) ==
    LET stored == Put(t, [Now(t) EXCEPT !.funds[o] = "free"])
    IN  IF Contains(Now(t).queue, o) THEN stored
        ELSE Put(stored, [Now(stored) EXCEPT !.queue = Append(@, o)])

IsSpeedupDerived(d, o) == o \in Speedups /\ (d.funds[o] # "none" \/ Known(d, o))

\* get_funding, first pass: the changes of live speedups nobody spends.
LiveTips(d) ==
    Where(Ordered(d), {s \in Speedups : /\ d.rec[s].state \in {"InMempool", "Confirmed", "Finalized"}
                                        /\ ~HasLiveReplacement(d, s)
                                        /\ ~d.rec[s].spent})

FreeRecords(d) == Where(d.queue, {o \in Outputs : d.funds[o] = "free"})

\* Mutant: the queue comes before the chain of speedups.
FundingChoice_QueueFirst(d) ==
    IF FreeRecords(d) # <<>> THEN {Head(FreeRecords(d))}
    ELSE IF LiveTips(d) # <<>> THEN {Last(LiveTips(d))} ELSE {}

\* get_funding: the latest live tip, else the head of the queue; {} for None.
FundingChoice(d) ==
    IF LiveTips(d) # <<>> THEN {Last(LiveTips(d))}
    ELSE IF FreeRecords(d) # <<>> THEN {Head(FreeRecords(d))}
    ELSE {}

\* Mutant: reserved outputs are offered too.
CombineChoice_Reserved(d) ==
    LET own == Where(d.queue, Fundings)
    IN  IF own # <<>> THEN {Head(own)} ELSE {}

\* get_combine_funding: user-provided outputs only.
CombineChoice(d) ==
    LET own == Where(FreeRecords(d), Fundings)
    IN  IF own # <<>> THEN {Head(own)} ELSE {}

\* Mutant: the change enters the queue as unspent.
ChangeRecord_Free(r) == "free"

ChangeRecord(r) == IF r.spent THEN "spent" ELSE "free"

\* replace_funding_on_finalize: the consumed records go, the last one first, the
\* change takes the place of the first, and the speedup leaves the SpeedupList.
ReplaceFundingOnFinalize(t, s) ==
    LET d == Now(t)
        consumed == ToSet(tx[s].funding)
        kept == Where(d.queue, Outputs \ consumed)
        position == SelectInSeq(d.queue, LAMBDA o : o \in consumed)
        removed == FoldLeft(LAMBDA acc, o : Put(acc, [Now(acc) EXCEPT !.funds[o] = "none"]),
                            t, Reverse(Where(d.queue, consumed)))
        stored == Put(removed, [Now(removed) EXCEPT !.funds[s] = ChangeRecord(d.rec[s])])
        queued == Put(stored, [Now(stored) EXCEPT !.queue = InsertAt(kept, position, s)])
    IN  IF ~Known(d, s) \/ position = 0 THEN t ELSE RemoveSpeedupFromList(queued, s)
=============================================================================
