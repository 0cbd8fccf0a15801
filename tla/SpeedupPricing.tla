----------------------------- MODULE SpeedupPricing -----------------------------
(***************************************************************************)
(* How the prices of a chain of speedups evolve (the pricing side of       *)
(* create_cpfp_batch and boost_if_stale): the first CPFP pays for a batch  *)
(* of parents, later ones boost the tip by a child of it or by a           *)
(* replacement, while the network's rate moves and blocks take the oldest. *)
(* Funding, dispatch and failure are the business of SpeedupEngine.        *)
(***************************************************************************)
EXTENDS FeeManager

CONSTANTS
    Weights,         \* weights of parents
    ChildVsize,      \* vsize of a speedup without anchors
    AnchorVsize,     \* what each anchor input adds to it
    Estimates,       \* fee rates the node may estimate, 0 when it has none
    MaxUnconfirmed,  \* max_unconfirmed_speedups
    MaxPending,      \* bound: parents waiting
    Slack            \* bound: vbytes the size estimate may exceed the signed size by

ASSUME PricingAssumption ==
    /\ Weights \subseteq Nat \ {0}
    /\ {ChildVsize, MaxUnconfirmed} \subseteq Nat \ {0}
    /\ {AnchorVsize, MaxPending, Slack} \subseteq Nat
    /\ Estimates \subseteq Nat

VARIABLES
    pending,   \* weights of the parents in PendingSpeedupParents, in order
    chain,     \* the live unconfirmed speedups, oldest first
    estimate,  \* the node's present estimate
    last       \* the last build: what was asked, what it followed

vars == <<pending, chain, estimate, last>>

Speedup == [vsize : Nat, parents : Nat, fee : Nat, rate : Nat, bump : Nat \X Nat]

NoBuild == [kind |-> "none"]

\* A price list of naturals, and never more live speedups than the
\* max_unconfirmed_speedups a block-by-block chain may hold.
PricingTypeOK ==
    /\ pending \in Seq(Weights) /\ Len(pending) <= MaxPending
    /\ chain \in Seq(Speedup) /\ Len(chain) <= MaxUnconfirmed
    /\ estimate \in Estimates
    /\ last.kind \in {"none", "first", "child", "replacement"}

Init ==
    /\ pending = <<>>
    /\ chain = <<>>
    /\ estimate \in Estimates
    /\ last = NoBuild

-----------------------------------------------------------------------------
\* build_speedup: the fee is computed for a size at least the signed one.
Build(kind, parents, anchors, bump, rate, lift, slack) ==
    LET vsize == ChildVsize + anchors * AnchorVsize
        price == ComputeSpeedupFee(parents, vsize + slack, bump, rate,
                                   kind = "replacement", lift)
    IN  [tx |-> [vsize |-> vsize, parents |-> parents, fee |-> price.fee,
                 rate |-> PackageFeeRate(parents, vsize, price.fee), bump |-> bump],
         capped |-> price.capped]

\* prior: rate and fee of the tip the build follows.
Remember(kind, built, rate, slack, prior) ==
    last' = [kind |-> kind, asked |-> rate, capped |-> built.capped, slack |-> slack,
             prior |-> prior]

\* Mutant: one speedup too many.
SlotsFull_OneMore == Len(chain) > MaxUnconfirmed

SlotsFull == Len(chain) >= MaxUnconfirmed

CreateCpfp(slack) ==
    LET batch == BatchByWeight(pending, 1)[1]
        rate == NetworkFeeRate(estimate)
        built == Build("first", SumOf([i \in DOMAIN batch |-> Vsize(batch[i])]), Len(batch),
                       BaseFeeMultiplier, rate, ChainFeeDiff(rate, chain), slack)
    IN  /\ pending # <<>>
        /\ ~SlotsFull
        /\ pending' = SubSeq(pending, Len(batch) + 1, Len(pending))
        /\ chain' = Append(chain, built.tx)
        /\ Remember("first", built, rate, slack, <<0, 0>>)
        /\ UNCHANGED estimate

\* Anchors of the tip, kept by a replacement.
Anchors(tx) == IF AnchorVsize = 0 THEN 0 ELSE (tx.vsize - ChildVsize) \div AnchorVsize

Boost(slack) ==
    LET tip == Last(chain)
        isRbf == SlotsFull
        kind == IF isRbf THEN "replacement" ELSE "child"
        rate == BoostFeeRate(NetworkFeeRate(estimate), tip.rate)
        built == Build(kind, IF isRbf THEN tip.parents ELSE 0, IF isRbf THEN Anchors(tip) ELSE 0,
                       Multiply(tip.bump, BumpFeePercentage), rate,
                       ChainFeeDiff(rate, chain), slack)
    IN  /\ chain # <<>>
        /\ tip.rate < MaxFeeRate
        /\ chain' = Append(IF isRbf THEN Front(chain) ELSE chain, built.tx)
        /\ Remember(kind, built, rate, slack, <<tip.rate, tip.fee>>)
        /\ UNCHANGED <<pending, estimate>>

Enqueue(w) ==
    /\ Len(pending) < MaxPending
    /\ pending' = Append(pending, w)
    /\ UNCHANGED <<chain, estimate, last>>

Estimate(e) ==
    /\ estimate' = e
    /\ UNCHANGED <<pending, chain, last>>

\* A block takes the oldest speedup.
Mined ==
    /\ chain # <<>>
    /\ chain' = Tail(chain)
    /\ last' = NoBuild
    /\ UNCHANGED <<pending, estimate>>

Next ==
    \/ \E s \in 0..Slack : CreateCpfp(s) \/ Boost(s)
    \/ \E w \in Weights : Enqueue(w)
    \/ \E e \in Estimates : Estimate(e)
    \/ Mined

Spec == Init /\ [][Next]_vars

-----------------------------------------------------------------------------
(* Properties. *)

Built == last.kind # "none" /\ chain # <<>>

\* max_feerate_sat_vb bounds the package: whatever the bumps, the replacement
\* floor and the lift of the chain add up to, parents and child together pay at
\* most the cap for the size the fee was computed for, and the cap is reported.
WithinCap ==
    Built => LET tx == Last(chain)
             IN  /\ tx.parents + tx.fee <= MaxFeeRate * (tx.parents + tx.vsize + last.slack)
                 /\ last.capped => tx.rate >= MaxFeeRate

\* compute_speedup_fee brings the package up to the rate asked for unless it
\* reports the cap, for every base multiplier of at least one: rounding, the
\* relay-fee credit of the parents and an oversized estimate never undercut it.
ReachesRate ==
    Built /\ BaseFeeMultiplier[1] >= BaseFeeMultiplier[2] =>
        last.capped \/ Last(chain).rate >= last.asked

\* "Every boost must out-pay its predecessor" (speedup_engine.rs), which the
\* node demands of a replacement (BIP-125): a boost, capped or not, has a higher
\* package rate than the tip it boosts, and a replacement a higher fee; below
\* the cap, higher by the relay increment of its whole size (docs/speedup.md).
BoostOutpays ==
    Built /\ last.kind \in {"child", "replacement"} =>
        /\ Last(chain).rate > last.prior[1]
        /\ last.kind = "replacement" =>
             /\ Last(chain).fee > last.prior[2]
             /\ last.capped
                \/ Last(chain).fee >= last.prior[2] + MinRelayFeeRate * Last(chain).vsize

IsPartition(batches, parents) == IsPrefix(FlattenSeq(batches), parents)

\* What batch_by_weight promises: consecutive groups from the front of the list,
\* none above the limit unless a single parent is, each closed only because the
\* next parent did not fit, and nothing left out while a batch is free.
BatchesAreGreedy ==
    \A n \in 1..2 :
        LET batches == BatchByWeight(pending, n)
            taken == Len(FlattenSeq(batches))
        IN  /\ Len(batches) <= n
            /\ IsPartition(batches, pending)
            /\ \A i \in DOMAIN batches :
                 /\ batches[i] # <<>>
                 /\ SumOf(batches[i]) <= MaxTxWeight \/ Len(batches[i]) = 1
                 /\ LET upTo == Len(FlattenSeq(SubSeq(batches, 1, i)))
                    IN  upTo < Len(pending) =>
                          SumOf(batches[i]) + pending[upTo + 1] > MaxTxWeight
            /\ Len(batches) < n => taken = Len(pending)

\* "Compute the extra fee needed to bring all `unconfirmed_speedups` up to
\* `new_fee_rate`" (fee.rs): once a boost is built, the live speedups together
\* pay the rate it asked for.
ChainReachesRate ==
    Built /\ last.kind = "child" /\ ~last.capped =>
        SumOf([i \in DOMAIN chain |-> chain[i].fee])
          >= last.asked * SumOf([i \in DOMAIN chain |-> chain[i].vsize])
             - SumOf([i \in DOMAIN chain |-> chain[i].parents])
=============================================================================
