------------------------------- MODULE FeeManager -------------------------------
(***************************************************************************)
(* Fee arithmetic (core/fee.rs) and the grouping of parents by weight      *)
(* (core/dispatcher.rs).  Rates are sat/vB, fees sat.  A multiplier, an    *)
(* f64 in the code, is a pair <<numerator, denominator>>.                  *)
(***************************************************************************)
EXTENDS Integers, SequencesExt

CONSTANTS
    MaxFeeRate,         \* max_feerate_sat_vb
    MinSafeFeeRate,     \* min_safe_fee_rate
    BaseFeeMultiplier,  \* base_fee_multiplier
    BumpFeePercentage,  \* bump_fee_percentage
    MaxTxWeight         \* max_tx_weight

\* The fee settings BitcoinSettings::validate lets through; its fixed limits from
\* above are left out.
Validate ==
    /\ MinSafeFeeRate \in Nat \ {0}
    /\ MaxFeeRate \in Nat /\ MinSafeFeeRate <= MaxFeeRate
    /\ BaseFeeMultiplier \in (Nat \ {0}) \X (Nat \ {0})
    /\ BumpFeePercentage \in (Nat \ {0}) \X (Nat \ {0})
    /\ BumpFeePercentage[1] >= BumpFeePercentage[2]
    /\ MaxTxWeight \in Nat \ {0}

ASSUME FeeAssumption == Validate

MinRelayFeeRate == 1

Ceil(n, d) == (n + d - 1) \div d

Monus(a, b) == Max({a - b, 0})

Scale(a, m) == Ceil(a * m[1], m[2])

Multiply(m, n) == <<m[1] * n[1], m[2] * n[2]>>

Vsize(weight) == Ceil(weight, 4)

SumOf(seq) == FoldLeft(+, 0, seq)

-----------------------------------------------------------------------------
\* get_network_fee_rate; no estimate at all is 0.
NetworkFeeRate(estimate) == Min({Max({estimate, MinSafeFeeRate}), MaxFeeRate})

\* Mutant: the network rate alone decides.
BoostFeeRate_NetworkOnly(network, predecessor) == network

BoostFeeRate(network, predecessor) == Max({network, predecessor + 1})

\* The fee missing from the live unconfirmed speedups, each at the rate of the last.
ChainFeeDiff(rate, chain) ==
    IF chain = <<>> THEN 0
    ELSE SumOf([i \in DOMAIN chain |-> chain[i].vsize * Monus(rate, Last(chain).rate)])

FeeCap(parents, child) == Monus(MaxFeeRate * (parents + child), parents * MinRelayFeeRate)

UncappedFee(parents, child, bump, rate, isRbf, lift) ==
    LET package == Monus((parents + child) * rate, parents * MinRelayFeeRate)
        floor == IF isRbf THEN 2 * child * rate ELSE 0
    IN  Scale(Max({package, floor}) + lift, bump)

\* Mutants: no cap; a cap that forgets what the parents paid.
ComputeSpeedupFee_NoCap(parents, child, bump, rate, isRbf, lift) ==
    [fee |-> UncappedFee(parents, child, bump, rate, isRbf, lift), capped |-> FALSE]
ComputeSpeedupFee_ChildCap(parents, child, bump, rate, isRbf, lift) ==
    LET fee == UncappedFee(parents, child, bump, rate, isRbf, lift)
        cap == MaxFeeRate * child
    IN  [fee |-> Min({fee, cap}), capped |-> FALSE]

ComputeSpeedupFee(parents, child, bump, rate, isRbf, lift) ==
    LET fee == UncappedFee(parents, child, bump, rate, isRbf, lift)
        cap == FeeCap(parents, child)
    IN  [fee |-> Min({fee, cap}), capped |-> fee > cap]

\* package_fee_rate of fee_info_for_paid_speedup.
PackageFeeRate(parents, child, fee) ==
    (parents * MinRelayFeeRate + fee) \div (parents + child)

-----------------------------------------------------------------------------
\* One step of batch_by_weight: acc holds the closed batches and the open one.
AddToBatch(acc, parent) ==
    IF acc.open # <<>> /\ SumOf(acc.open) + parent > MaxTxWeight
    THEN [closed |-> Append(acc.closed, acc.open), open |-> <<parent>>]
    ELSE [closed |-> acc.closed, open |-> Append(acc.open, parent)]

\* Mutant: the weights are not looked at, everything goes into one batch.
BatchByWeight_AnyWeight(parents, maxBatches) ==
    IF parents = <<>> THEN <<>> ELSE <<parents>>

\* Parents are taken one by one until maxBatches batches are closed; the open
\* batch counts only while there is room for it.
BatchByWeight(parents, maxBatches) ==
    LET Take(acc, parent) ==
            IF Len(acc.closed) >= maxBatches THEN acc ELSE AddToBatch(acc, parent)
        end == FoldLeft(Take, [closed |-> <<>>, open |-> <<>>], parents)
    IN  IF end.open # <<>> /\ Len(end.closed) < maxBatches
        THEN Append(end.closed, end.open)
        ELSE end.closed
=============================================================================
