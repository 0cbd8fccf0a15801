-------------------------- MODULE SpeedupPricingProofs --------------------------
(***************************************************************************)
(* The invariants of SpeedupPricing, for every setting, weight, estimate   *)
(* and length of the chain.                                                *)
(***************************************************************************)
EXTENDS SpeedupPricing, FeeManagerProofs

\* The constants, in the form the proofs use them.
LEMMA PricingConstants ==
    /\ MaxFeeRate \in Nat /\ MaxFeeRate >= 1
    /\ MinSafeFeeRate \in Nat \ {0} /\ MinSafeFeeRate <= MaxFeeRate
    /\ BaseFeeMultiplier \in Multipliers /\ BumpFeePercentage \in Multipliers
    /\ BumpFeePercentage[1] >= BumpFeePercentage[2]
    /\ ChildVsize \in Nat \ {0} /\ AnchorVsize \in Nat /\ MaxUnconfirmed \in Nat \ {0}
    /\ MaxPending \in Nat /\ Slack \in Nat
    /\ Weights \subseteq Nat \ {0} /\ Estimates \subseteq Nat
  BY FeeAssumption, PricingAssumption DEF Validate, Multipliers

\* get_network_fee_rate is at least min_safe_fee_rate, hence positive, and a boost asks
\* for more than its predecessor's rate.
LEMMA RatesPositive ==
    ASSUME NEW e \in Nat, NEW r \in Nat
    PROVE  /\ NetworkFeeRate(e) \in Nat \ {0}
           /\ BoostFeeRate(NetworkFeeRate(e), r) \in Nat \ {0}
           /\ BoostFeeRate(NetworkFeeRate(e), r) >= r + 1
  <1>1. Max({e, MinSafeFeeRate}) \in Nat \ {0}
    BY PricingConstants, MaxPair
  <1>2. NetworkFeeRate(e) \in Nat \ {0}
    <2> DEFINE x == Max({e, MinSafeFeeRate})
    <2>1. MaxFeeRate \in Nat \ {0} /\ x \in Nat \ {0}
      BY <1>1, PricingConstants
    <2> HIDE DEF x
    <2>2. Min({x, MaxFeeRate}) \in Nat \ {0}
      BY <2>1, MinPair
    <2> QED  BY <2>2 DEF NetworkFeeRate, x
  <1> QED
    BY <1>2, MaxPair DEF BoostFeeRate

\* chain_fee_diff charges at least what the tip lacks of the rate asked for.
LEMMA LiftCoversTip ==
    ASSUME NEW rate \in Nat, NEW c \in Seq(Speedup)
    PROVE  /\ ChainFeeDiff(rate, c) \in Nat
           /\ c # <<>> => ChainFeeDiff(rate, c) >= Last(c).vsize * Monus(rate, Last(c).rate)
  <1>1. CASE c = <<>>
    BY <1>1 DEF ChainFeeDiff
  <1>2. CASE c # <<>>
    <2> DEFINE diff == Monus(rate, Last(c).rate)
               terms == [i \in DOMAIN c |-> c[i].vsize * diff]
    <2>1. Len(c) \in Nat \ {0} /\ DOMAIN c = 1..Len(c) /\ \A i \in 1..Len(c) : c[i] \in Speedup
      BY <1>2
    <2>2. Last(c).rate \in Nat /\ \A i \in 1..Len(c) : c[i].vsize \in Nat
      <3>1. \A tx \in Speedup : tx.rate \in Nat /\ tx.vsize \in Nat
        BY DEF Speedup
      <3> QED  BY <2>1, <3>1 DEF Last
    <2>3. diff \in Nat
      BY <2>2, MonusIs
    <2> HIDE DEF diff
    <2>4. terms \in Seq(Nat) /\ Len(terms) = Len(c) /\ terms # <<>>
      BY <2>1, <2>2, <2>3
    <2>5. terms[Len(terms)] = Last(c).vsize * diff
      BY <2>1, <2>4 DEF Last
    <2>6. ChainFeeDiff(rate, c) = SumOf(terms)
      BY <1>2 DEF ChainFeeDiff, diff
    <2> HIDE DEF terms
    <2> QED
      BY <2>4, <2>5, <2>6, SumBounds DEF diff
  <1> QED
    BY <1>1, <1>2

\* A replacement has the size of the speedup it replaces.
LEMMA AnchorsKept ==
    ASSUME NEW tx, NEW a \in Nat, tx.vsize = ChildVsize + a * AnchorVsize
    PROVE  Anchors(tx) \in Nat /\ ChildVsize + Anchors(tx) * AnchorVsize = tx.vsize
  <1>1. CASE AnchorVsize = 0
    BY <1>1, PricingConstants DEF Anchors
  <1>2. CASE AnchorVsize # 0
    <2>1. AnchorVsize \in Nat \ {0} /\ ChildVsize \in Nat
      BY <1>2, PricingConstants
    <2>2. a * AnchorVsize \in Nat /\ (a * AnchorVsize) \div AnchorVsize = a
      BY <2>1
    <2>3. tx.vsize - ChildVsize = a * AnchorVsize
      BY <2>1, <2>2
    <2>4. Anchors(tx) = a
      BY <1>2, <2>2, <2>3 DEF Anchors
    <2> QED  BY <2>4
  <1> QED
    BY <1>1, <1>2

\* build_speedup: the size it signs, its package rate, and what compute_speedup_fee
\* guarantees of the fee, although that is computed for a size up to slack larger.
LEMMA BuildFacts ==
    ASSUME NEW kind, NEW p \in Nat, NEW anchors \in Nat, NEW bump \in Multipliers,
           NEW rate \in Nat \ {0}, NEW lift \in Nat, NEW slack \in Nat
    PROVE  LET built == Build(kind, p, anchors, bump, rate, lift, slack)
               tx == built.tx
               v == ChildVsize + anchors * AnchorVsize
           IN  /\ v \in Nat \ {0}
               /\ tx \in Speedup /\ tx.vsize = v /\ tx.parents = p /\ tx.bump = bump
               /\ tx.rate = PackageFeeRate(p, v, tx.fee)
               /\ p + tx.fee <= MaxFeeRate * (p + v + slack)
               /\ built.capped => p + tx.fee = MaxFeeRate * (p + v + slack)
               /\ built.capped => tx.rate >= MaxFeeRate
               /\ bump[1] >= bump[2] /\ ~built.capped =>
                    /\ p + tx.fee >= (p + v + slack) * rate + lift
                    /\ tx.rate >= rate
  <1> DEFINE v == ChildVsize + anchors * AnchorVsize
             price == ComputeSpeedupFee(p, v + slack, bump, rate, kind = "replacement", lift)
             tx == [vsize |-> v, parents |-> p, fee |-> price.fee,
                    rate |-> PackageFeeRate(p, v, price.fee), bump |-> bump]
  <1>1. ChildVsize \in Nat \ {0} /\ AnchorVsize \in Nat
    BY PricingAssumption
  <1>2. v \in Nat \ {0} /\ v + slack \in Nat
    <2>1. anchors * AnchorVsize \in Nat
      BY <1>1
    <2> QED  BY <1>1, <2>1
  <1>3. Build(kind, p, anchors, bump, rate, lift, slack) = [tx |-> tx, capped |-> price.capped]
    BY DEF Build
  <1> HIDE DEF v
  <1>4. /\ price.fee \in Nat
        /\ p + price.fee <= MaxFeeRate * (p + (v + slack))
        /\ price.capped => p + price.fee = MaxFeeRate * (p + (v + slack))
        /\ bump[1] >= bump[2] /\ ~price.capped =>
             p + price.fee >= (p + (v + slack)) * rate + lift
    <2> DEFINE c == v + slack
               isRbf == kind = "replacement"
    <2>1. c \in Nat
      BY <1>2
    <2> HIDE DEF c, isRbf
    <2>2. LET q == ComputeSpeedupFee(p, c, bump, rate, isRbf, lift)
          IN  /\ q.fee \in Nat
              /\ p + q.fee <= MaxFeeRate * (p + c)
              /\ q.capped => p + q.fee = MaxFeeRate * (p + c)
              /\ bump[1] >= bump[2] /\ ~q.capped => p + q.fee >= (p + c) * rate + lift
      BY <2>1, FeeFacts, Zenon
    <2> QED  BY <2>2, Zenon DEF c, isRbf
  <1>5. p + (v + slack) = p + v + slack /\ p + v \in Nat \ {0} /\ p + v + slack >= p + v
    BY <1>2
  <1> HIDE DEF price
  <1> DEFINE r == PackageFeeRate(p, v, price.fee)
  <1>6. r = (p + price.fee) \div (p + v) /\ p + price.fee \in Nat
    BY <1>4 DEF PackageFeeRate, MinRelayFeeRate
  <1> HIDE DEF r
  <1>7. r \in Nat
    BY <1>5, <1>6, QuotientReaches
  <1>8. MaxFeeRate \in Nat
    BY FeeAssumption DEF Validate
  <1>9. ASSUME price.capped  PROVE r >= MaxFeeRate
    <2>1. MaxFeeRate * (p + v + slack) >= MaxFeeRate * (p + v)
      BY <1>2, <1>5, <1>8, Times
    <2>2. p + price.fee >= MaxFeeRate * (p + v)
      BY <1>4, <1>5, <1>8, <1>9, <2>1
    <2> QED  BY <1>5, <1>6, <1>8, <2>2, QuotientReaches
  <1>10. ASSUME bump[1] >= bump[2], ~price.capped  PROVE r >= rate
    <2>1. rate * (p + v + slack) >= rate * (p + v) /\ rate * (p + v + slack) \in Nat
      BY <1>2, <1>5, Times
    <2>2. p + price.fee >= (p + v + slack) * rate + lift
      BY <1>4, <1>5, <1>10
    <2>3. (p + v + slack) * rate = rate * (p + v + slack)
      BY <1>2, <1>5
    <2>4. p + price.fee >= rate * (p + v)
      BY <1>4, <1>5, <1>6, <2>1, <2>2, <2>3
    <2> QED  BY <1>5, <1>6, <2>4, QuotientReaches
  <1>11. bump \in Nat \X Nat
    BY DEF Multipliers
  <1>12. /\ tx.vsize = v /\ tx.parents = p /\ tx.fee = price.fee /\ tx.rate = r /\ tx.bump = bump
         /\ tx \in Speedup
    BY <1>2, <1>4, <1>7, <1>11 DEF r, Speedup
  <1> HIDE DEF tx
  <1> QED
    BY <1>2, <1>3, <1>4, <1>5, <1>9, <1>10, <1>12 DEF v, r

\* While parents wait, batch_by_weight returns a first batch.
LEMMA FirstBatch ==
    ASSUME NEW ps \in Seq(Nat), ps # <<>>
    PROVE  LET batch == BatchByWeight(ps, 1)[1]
           IN  /\ batch \in Seq(Nat) /\ Len(batch) <= Len(ps)
               /\ SumOf([i \in DOMAIN batch |-> Vsize(batch[i])]) \in Nat
  <1> DEFINE bs == BatchByWeight(ps, 1)
             b == bs[1]
  <1>1. /\ bs \in Seq(Seq(Nat)) /\ Len(bs) <= 1 /\ IsPrefix(FlattenSeq(bs), ps)
        /\ Len(bs) < 1 => Len(FlattenSeq(bs)) = Len(ps)
    BY BatchesGreedy
  <1> HIDE DEF bs
  <1>2. Len(bs) = 1
    <2>1. Len(bs) \in Nat /\ (Len(bs) = 0 => bs = <<>>)
      BY <1>1, SmallLists, Zenon
    <2>2. Len(bs) # 0
      <3> SUFFICES ASSUME Len(bs) = 0  PROVE FALSE
        OBVIOUS
      <3>1. FlattenSeq(bs) = <<>> /\ Len(bs) < 1
        BY <2>1, FlattenSmall
      <3>2. Len(<<>>) = Len(ps)
        BY <1>1, <3>1
      <3> QED  BY <3>2
    <2> DEFINE k == Len(bs)
    <2>3. k \in Nat /\ k # 0 /\ k <= 1
      BY <1>1, <2>1, <2>2
    <2> HIDE DEF k
    <2>4. k = 1
      BY <2>3
    <2> QED  BY <2>4 DEF k
  <1>3. b \in Seq(Nat) /\ bs = <<b>>
    BY <1>1, <1>2, SmallLists, Zenon
  <1> HIDE DEF b
  <1>4. Len(b) <= Len(ps)
    <2>1. FlattenSeq(bs) = b
      BY <1>3, FlattenSmall
    <2> QED  BY <1>1, <2>1 DEF IsPrefix
  <1> DEFINE sizes == [i \in DOMAIN b |-> Vsize(b[i])]
  <1>5. ASSUME NEW w \in Nat  PROVE Vsize(w) \in Nat
    BY QuotientReaches DEF Vsize, Ceil
  <1>6. sizes \in Seq(Nat)
    <2>1. \A i \in 1..Len(b) : Vsize(b[i]) \in Nat
      <3>1. \A i \in 1..Len(b) : b[i] \in Nat
        BY <1>3
      <3> QED  BY <1>5, <3>1
    <2>2. DOMAIN b = 1..Len(b) /\ Len(b) \in Nat
      BY <1>3
    <2> QED  BY <2>1, <2>2
  <1>7. SumOf(sizes) \in Nat
    <2> HIDE DEF sizes
    <2> QED  BY <1>6, SumBounds
  <1> QED
    BY <1>3, <1>4, <1>7 DEF b, bs

-----------------------------------------------------------------------------
\* What every live speedup of the chain satisfies: its size is that of a child with
\* some anchors, its multiplier is positive (and at least one if the base multiplier
\* is), its rate is the package rate of what it pays.
Priced(tx) ==
    /\ \E a \in Nat : tx.vsize = ChildVsize + a * AnchorVsize
    /\ tx.bump \in Multipliers
    /\ BaseFeeMultiplier[1] >= BaseFeeMultiplier[2] => tx.bump[1] >= tx.bump[2]
    /\ tx.rate = PackageFeeRate(tx.parents, tx.vsize, tx.fee)

ChainPriced == \A i \in 1..Len(chain) : Priced(chain[i])

BoostsOutpay == BaseFeeMultiplier[1] >= BaseFeeMultiplier[2] => BoostOutpays

\* The inductive invariant.  The properties speak of the last build and of the tip
\* only; a boost or a replacement of the tip is computed from the tip's size, rate and
\* multiplier, which Priced keeps, also once blocks have taken older ones.
PricingInv == PricingTypeOK /\ ChainPriced /\ WithinCap /\ ReachesRate /\ BoostsOutpay

\* A build, first or boost, keeps the chain priced, within the cap and at the rate.
LEMMA BuildKeeps ==
    ASSUME NEW kind \in {"first", "child", "replacement"}, NEW p \in Nat, NEW anchors \in Nat,
           NEW bump \in Multipliers, NEW rate \in Nat \ {0}, NEW lift \in Nat,
           NEW slack \in Nat, NEW prior, NEW built, NEW c,
           built = Build(kind, p, anchors, bump, rate, lift, slack),
           BaseFeeMultiplier[1] >= BaseFeeMultiplier[2] => bump[1] >= bump[2],
           c \in Seq(Speedup), \A i \in 1..Len(c) : Priced(c[i]), Len(c) < MaxUnconfirmed,
           chain' = Append(c, built.tx),
           Remember(kind, built, rate, slack, prior)
    PROVE  /\ chain' \in Seq(Speedup) /\ Len(chain') <= MaxUnconfirmed /\ chain' # <<>>
           /\ last'.kind = kind /\ last'.prior = prior /\ (last'.capped <=> built.capped)
           /\ Last(chain)' = built.tx
           /\ ChainPriced' /\ WithinCap' /\ ReachesRate'
  <1> DEFINE tx == built.tx
             v == ChildVsize + anchors * AnchorVsize
  <1>1. /\ v \in Nat \ {0}
        /\ tx \in Speedup /\ tx.vsize = v /\ tx.parents = p /\ tx.bump = bump
        /\ tx.rate = PackageFeeRate(p, v, tx.fee)
        /\ p + tx.fee <= MaxFeeRate * (p + v + slack)
        /\ built.capped => tx.rate >= MaxFeeRate
        /\ bump[1] >= bump[2] /\ ~built.capped => tx.rate >= rate
    <2>1. LET b == Build(kind, p, anchors, bump, rate, lift, slack)
          IN  /\ v \in Nat \ {0}
              /\ b.tx \in Speedup /\ b.tx.vsize = v /\ b.tx.parents = p /\ b.tx.bump = bump
              /\ b.tx.rate = PackageFeeRate(p, v, b.tx.fee)
              /\ p + b.tx.fee <= MaxFeeRate * (p + v + slack)
              /\ b.capped => b.tx.rate >= MaxFeeRate
              /\ bump[1] >= bump[2] /\ ~b.capped => b.tx.rate >= rate
      BY BuildFacts
    <2> QED  BY <2>1, Zenon
  <1>2. Priced(tx)
    BY <1>1 DEF Priced
  <1> HIDE DEF tx, v
  <1>3. /\ chain' \in Seq(Speedup) /\ Len(chain') = Len(c) + 1 /\ chain' # <<>>
        /\ chain'[Len(c) + 1] = tx /\ \A i \in 1..Len(c) : chain'[i] = c[i]
    BY <1>1 DEF tx
  <1>4. Len(chain') <= MaxUnconfirmed
    BY <1>3, PricingConstants
  <1>5. Last(chain)' = tx
    BY <1>3 DEF Last
  <1>6. /\ last'.kind = kind /\ last'.prior = prior /\ last'.asked = rate /\ last'.slack = slack
        /\ last'.capped = built.capped
    BY DEF Remember
  <1>7. ChainPriced'
    <2> SUFFICES ASSUME NEW i \in 1..Len(chain')  PROVE Priced(chain[i])'
      BY DEF ChainPriced
    <2>1. i \in 1..Len(c) \/ i = Len(c) + 1
      BY <1>3
    <2>2. Priced(chain'[i])
      BY <1>2, <1>3, <2>1
    <2> QED  BY <2>2 DEF Priced
  <1>8. WithinCap'
    BY <1>1, <1>5, <1>6, Zenon DEF WithinCap
  <1>9. ReachesRate'
    BY <1>1, <1>5, <1>6, Zenon DEF ReachesRate
  <1> QED
    BY <1>3, <1>4, <1>5, <1>6, <1>7, <1>8, <1>9, Zenon DEF tx

\* create_cpfp_batch keeps the invariant.
LEMMA CreateStep ==
    ASSUME PricingInv, NEW slack \in 0..Slack, CreateCpfp(slack)
    PROVE  PricingInv'
  <1> DEFINE batch == BatchByWeight(pending, 1)[1]
             p == SumOf([i \in DOMAIN batch |-> Vsize(batch[i])])
             rate == NetworkFeeRate(estimate)
             lift == ChainFeeDiff(rate, chain)
             built == Build("first", p, Len(batch), BaseFeeMultiplier, rate, lift, slack)
  <1>1. /\ pending \in Seq(Weights) /\ Len(pending) <= MaxPending
        /\ chain \in Seq(Speedup) /\ Len(chain) <= MaxUnconfirmed
        /\ estimate \in Estimates /\ \A i \in 1..Len(chain) : Priced(chain[i])
    BY DEF PricingInv, PricingTypeOK, ChainPriced
  <1>2. /\ pending # <<>> /\ ~SlotsFull /\ chain' = Append(chain, built.tx)
        /\ pending' = SubSeq(pending, Len(batch) + 1, Len(pending))
        /\ Remember("first", built, rate, slack, <<0, 0>>)
        /\ estimate' = estimate
    BY DEF CreateCpfp
  <1>3. pending \in Seq(Nat) /\ estimate \in Nat /\ slack \in Nat
    <2>1. Weights \subseteq Nat /\ estimate \in Nat /\ slack \in Nat
      BY <1>1, PricingConstants
    <2> QED  BY <1>1, <2>1, SeqOfSubset, Zenon
  <1>4. batch \in Seq(Nat) /\ Len(batch) <= Len(pending) /\ p \in Nat
    BY <1>2, <1>3, FirstBatch
  <1>5. rate \in Nat \ {0} /\ lift \in Nat
    <2>1. rate \in Nat \ {0}
      BY <1>3, RatesPositive
    <2> HIDE DEF rate
    <2> QED  BY <1>1, <2>1, LiftCoversTip
  <1> HIDE DEF batch, p, rate, lift
  <1>6. Len(batch) \in Nat /\ Len(chain) < MaxUnconfirmed
    BY <1>1, <1>2, <1>4, PricingConstants DEF SlotsFull
  <1>7. pending' \in Seq(Weights) /\ Len(pending') <= MaxPending
    BY <1>1, <1>2, <1>4, <1>6, PricingConstants
  <1>8. built = Build("first", p, Len(batch), BaseFeeMultiplier, rate, lift, slack)
    OBVIOUS
  <1> HIDE DEF built
  <1>9. /\ chain' \in Seq(Speedup) /\ Len(chain') <= MaxUnconfirmed
        /\ last'.kind = "first" /\ ChainPriced' /\ WithinCap' /\ ReachesRate'
    BY <1>1, <1>2, <1>3, <1>4, <1>5, <1>6, <1>8, PricingConstants, BuildKeeps
  <1> QED
    BY <1>1, <1>2, <1>7, <1>9 DEF PricingInv, PricingTypeOK, BoostsOutpay, BoostOutpays

\* boost_if_stale keeps the invariant.  That it pays more: its rate is asked above the
\* tip's, and the tip's fee is below its rate plus one times its package size; a
\* replacement has the same size, and the lift, which counts the tip itself, adds the
\* relay increment.
LEMMA BoostStep ==
    ASSUME PricingInv, NEW slack \in 0..Slack, Boost(slack)
    PROVE  PricingInv'
  <1> DEFINE tip == Last(chain)
             kind == IF SlotsFull THEN "replacement" ELSE "child"
             p == IF SlotsFull THEN tip.parents ELSE 0
             anchors == IF SlotsFull THEN Anchors(tip) ELSE 0
             bump == Multiply(tip.bump, BumpFeePercentage)
             rate == BoostFeeRate(NetworkFeeRate(estimate), tip.rate)
             lift == ChainFeeDiff(rate, chain)
             built == Build(kind, p, anchors, bump, rate, lift, slack)
             c == IF SlotsFull THEN Front(chain) ELSE chain
             prior == <<tip.rate, tip.fee>>
  <1>1. /\ pending \in Seq(Weights) /\ Len(pending) <= MaxPending
        /\ chain \in Seq(Speedup) /\ Len(chain) <= MaxUnconfirmed
        /\ estimate \in Estimates /\ \A i \in 1..Len(chain) : Priced(chain[i])
    BY DEF PricingInv, PricingTypeOK, ChainPriced
  <1>2. /\ chain # <<>> /\ tip.rate < MaxFeeRate /\ chain' = Append(c, built.tx)
        /\ Remember(kind, built, rate, slack, prior)
        /\ pending' = pending /\ estimate' = estimate
    BY DEF Boost
  <1>3. Len(chain) \in Nat \ {0} /\ Len(chain) \in 1..Len(chain)
    BY <1>1, <1>2
  <1>4. tip \in Speedup /\ Priced(tip)
    BY <1>1, <1>3 DEF Last
  <1>5. /\ c \in Seq(Speedup) /\ (\A i \in 1..Len(c) : Priced(c[i]))
        /\ Len(c) < MaxUnconfirmed
    <2>1. CASE SlotsFull
      <3>1. /\ Front(chain) \in Seq(Speedup) /\ Len(Front(chain)) = Len(chain) - 1
            /\ \A i \in 1..Len(Front(chain)) : i \in 1..Len(chain) /\ Front(chain)[i] = chain[i]
        BY <1>1, <1>2, FrontIs
      <3> QED  BY <1>1, <1>3, <2>1, <3>1, PricingConstants
    <2>2. CASE ~SlotsFull
      BY <1>1, <1>3, <2>2, PricingConstants DEF SlotsFull
    <2> QED  BY <2>1, <2>2
  <1> HIDE DEF tip, c
  <1>6. /\ tip.vsize \in Nat /\ tip.parents \in Nat /\ tip.fee \in Nat /\ tip.rate \in Nat
        /\ tip.bump \in Multipliers
        /\ tip.rate = PackageFeeRate(tip.parents, tip.vsize, tip.fee)
        /\ BaseFeeMultiplier[1] >= BaseFeeMultiplier[2] => tip.bump[1] >= tip.bump[2]
    BY <1>4 DEF Speedup, Priced
  <1>7. PICK a \in Nat : tip.vsize = ChildVsize + a * AnchorVsize
    BY <1>4 DEF Priced
  <1>8. Anchors(tip) \in Nat /\ ChildVsize + Anchors(tip) * AnchorVsize = tip.vsize
    BY <1>7, AnchorsKept
  <1>9. p \in Nat /\ anchors \in Nat /\ kind \in {"child", "replacement"}
    BY <1>6, <1>8
  <1>10. /\ bump \in Multipliers
         /\ BaseFeeMultiplier[1] >= BaseFeeMultiplier[2] => bump[1] >= bump[2]
    BY <1>6, PricingConstants, MultiplyKeeps
  <1>11. estimate \in Nat /\ slack \in Nat
    BY <1>1, PricingConstants
  <1>12. rate \in Nat \ {0} /\ rate >= tip.rate + 1
    BY <1>6, <1>11, RatesPositive
  <1>13. lift \in Nat /\ lift >= tip.vsize
    <2> DEFINE x == Monus(rate, tip.rate)
    <2> HIDE DEF rate
    <2>1. lift \in Nat /\ lift >= tip.vsize * x
      BY <1>1, <1>2, <1>12, LiftCoversTip DEF tip
    <2>2. x \in Nat /\ x >= 1
      BY <1>6, <1>12, MonusIs
    <2> HIDE DEF x, lift
    <2>3. tip.vsize * x \in Nat /\ tip.vsize * x >= tip.vsize * 1
      BY <1>6, <2>2, Times
    <2> QED  BY <1>6, <2>1, <2>3
  <1> HIDE DEF bump, rate, lift
  <1>14. SlotsFull => kind = "replacement" /\ p = tip.parents /\ anchors = Anchors(tip)
    OBVIOUS
  <1>15. kind = "replacement" => SlotsFull
    OBVIOUS
  <1> HIDE DEF kind, p, anchors
  <1>16. built = Build(kind, p, anchors, bump, rate, lift, slack)
    OBVIOUS
  <1> DEFINE tx == built.tx
             v == ChildVsize + anchors * AnchorVsize
  <1>17. /\ v \in Nat \ {0}
         /\ tx \in Speedup /\ tx.vsize = v /\ tx.parents = p
         /\ built.capped => p + tx.fee = MaxFeeRate * (p + v + slack)
         /\ built.capped => tx.rate >= MaxFeeRate
         /\ bump[1] >= bump[2] /\ ~built.capped =>
              /\ p + tx.fee >= (p + v + slack) * rate + lift
              /\ tx.rate >= rate
    BY <1>9, <1>10, <1>11, <1>12, <1>13, BuildFacts
  <1> HIDE DEF built, v, prior
  <1>18. /\ chain' \in Seq(Speedup) /\ Len(chain') <= MaxUnconfirmed /\ chain' # <<>>
         /\ last'.kind = kind /\ last'.prior = prior /\ (last'.capped <=> built.capped)
         /\ Last(chain)' = built.tx
         /\ ChainPriced' /\ WithinCap' /\ ReachesRate'
    <2>1. kind \in {"first", "child", "replacement"}
      BY <1>9
    <2>2. chain' = Append(c, built.tx) /\ Remember(kind, built, rate, slack, prior)
      BY <1>2
    <2>3. p \in Nat /\ anchors \in Nat /\ rate \in Nat \ {0} /\ lift \in Nat /\ slack \in Nat
      BY <1>9, <1>11, <1>12, <1>13
    <2>4. /\ chain' \in Seq(Speedup) /\ Len(chain') = Len(c) + 1 /\ chain'[Len(c) + 1] = built.tx
          /\ chain' # <<>>
      BY <1>5, <1>17, <2>2
    <2>5. /\ last'.kind = kind /\ last'.prior = prior
          /\ last'.capped = built.capped
      BY <2>2 DEF Remember
    <2>6. Last(chain)' = built.tx /\ Len(chain') <= MaxUnconfirmed
      BY <1>5, <2>4, PricingConstants DEF Last
    <2>7. ChainPriced' /\ WithinCap' /\ ReachesRate'
      BY <1>5, <1>10, <1>16, <2>1, <2>2, <2>3, BuildKeeps
    <2> QED  BY <2>4, <2>5, <2>6, <2>7, Zenon
  <1>19. ASSUME BaseFeeMultiplier[1] >= BaseFeeMultiplier[2]  PROVE tx.rate > tip.rate
    <2>1. CASE built.capped
      BY <1>2, <1>6, <1>17, <2>1, PricingConstants DEF Speedup
    <2>2. CASE ~built.capped
      BY <1>6, <1>10, <1>12, <1>17, <1>19, <2>2 DEF Speedup
    <2> QED  BY <2>1, <2>2
  <1>20. ASSUME BaseFeeMultiplier[1] >= BaseFeeMultiplier[2], kind = "replacement"
         PROVE  /\ tx.fee > tip.fee
                /\ built.capped \/ tx.fee >= tip.fee + MinRelayFeeRate * tx.vsize
    <2>1. p = tip.parents /\ v = tip.vsize
      BY <1>8, <1>14, <1>15, <1>20 DEF v
    <2> DEFINE size == p + v
               over == tip.rate + 1
    <2>2. size \in Nat \ {0} /\ p + tip.fee \in Nat /\ over \in Nat /\ tx.fee \in Nat
      BY <1>6, <1>9, <1>17 DEF Speedup
    <2>3. tip.rate = (p + tip.fee) \div size
      BY <1>6, <2>1 DEF PackageFeeRate, MinRelayFeeRate
    <2>4. p + tip.fee < over * size
      <3> HIDE DEF size
      <3> QED  BY <2>2, <2>3, QuotientReaches
    <2>5. over * size \in Nat /\ over * size = size * over
      BY <2>2
    <2>6. CASE built.capped
      <3>1. over <= MaxFeeRate
        BY <1>2, <1>6, PricingConstants
      <3>2. MaxFeeRate * (size + slack) >= MaxFeeRate * size /\ MaxFeeRate * (size + slack) \in Nat
        BY <1>11, <2>2, PricingConstants, Times
      <3>3. size * MaxFeeRate >= size * over /\ size * MaxFeeRate = MaxFeeRate * size
        BY <2>2, <3>1, PricingConstants, Times
      <3>4. p + tx.fee = MaxFeeRate * (size + slack)
        BY <1>17, <2>6
      <3>5. MaxFeeRate * size \in Nat
        BY <2>2, PricingConstants
      <3> HIDE DEF size, over
      <3>6. p + tip.fee < MaxFeeRate * size
        BY <2>2, <2>4, <2>5, <3>3, <3>5
      <3>7. p + tx.fee >= MaxFeeRate * size
        BY <2>2, <3>2, <3>4, <3>5
      <3>8. tx.fee > tip.fee
        BY <1>6, <1>9, <2>2, <3>5, <3>6, <3>7
      <3> QED  BY <2>6, <3>8
    <2>7. CASE ~built.capped
      <3>1. p + tx.fee >= (size + slack) * rate + lift
        BY <1>10, <1>17, <1>20, <2>7
      <3>2. (size + slack) * rate >= (size + slack) * over /\ (size + slack) * rate \in Nat
        BY <1>11, <1>12, <2>2, Times
      <3>3. over * (size + slack) >= over * size /\ over * (size + slack) = (size + slack) * over
        BY <1>11, <2>2, Times
      <3>4. MinRelayFeeRate * tx.vsize = tip.vsize
        BY <1>6, <1>17, <2>1 DEF MinRelayFeeRate
      <3> QED
        BY <1>6, <1>9, <1>12, <1>13, <2>2, <2>4, <2>5, <3>1, <3>2, <3>3, <3>4
    <2> QED  BY <2>6, <2>7
  <1>21. BoostsOutpay'
    <2> SUFFICES ASSUME BaseFeeMultiplier[1] >= BaseFeeMultiplier[2]  PROVE BoostOutpays'
      BY DEF BoostsOutpay
    <2>1. Last(chain') = tx /\ last'.kind = kind /\ last'.prior[1] = tip.rate /\ last'.prior[2] = tip.fee
          /\ (last'.capped <=> built.capped)
      BY <1>18 DEF prior, Last
    <2>2. tx.rate > tip.rate
      BY <1>19
    <2> QED
      BY <1>20, <2>1, <2>2, Zenon DEF BoostOutpays
  <1> QED
    BY <1>1, <1>2, <1>9, <1>18, <1>21 DEF PricingInv, PricingTypeOK

\* So do the steps that build nothing.
LEMMA IdleSteps ==
    ASSUME PricingInv,
           (\E w \in Weights : Enqueue(w)) \/ (\E e \in Estimates : Estimate(e))
             \/ Mined \/ UNCHANGED vars
    PROVE  PricingInv'
  <1>1. /\ pending \in Seq(Weights) /\ Len(pending) <= MaxPending
        /\ chain \in Seq(Speedup) /\ Len(chain) <= MaxUnconfirmed
        /\ estimate \in Estimates /\ last.kind \in {"none", "first", "child", "replacement"}
        /\ \A i \in 1..Len(chain) : Priced(chain[i])
    BY DEF PricingInv, PricingTypeOK, ChainPriced
  <1>2. CASE Mined
    <2>1. /\ chain' \in Seq(Speedup) /\ Len(chain') <= MaxUnconfirmed
          /\ \A i \in 1..Len(chain') : i + 1 \in 1..Len(chain) /\ chain'[i] = chain[i + 1]
      BY <1>1, <1>2, PricingConstants DEF Mined
    <2>2. last'.kind = "none"
      BY <1>2 DEF Mined, NoBuild
    <2>3. ChainPriced'
      <3> SUFFICES ASSUME NEW i \in 1..Len(chain')  PROVE Priced(chain[i])'
        BY DEF ChainPriced
      <3>1. Priced(chain'[i])
        BY <1>1, <2>1
      <3> QED  BY <3>1 DEF Priced
    <2> QED
      BY <1>1, <1>2, <2>1, <2>2, <2>3
      DEF Mined, PricingInv, PricingTypeOK, WithinCap, ReachesRate, BoostsOutpay, BoostOutpays, Built
  <1>3. ASSUME UNCHANGED <<chain, last>>
        PROVE  ChainPriced' /\ WithinCap' /\ ReachesRate' /\ BoostsOutpay'
    BY <1>3, Zenon DEF PricingInv, ChainPriced, Priced, WithinCap, ReachesRate, BoostsOutpay, BoostOutpays,
                Built, Last
  <1>4. ASSUME NEW w \in Weights, Enqueue(w)  PROVE PricingInv'
    BY <1>1, <1>3, <1>4, PricingConstants DEF Enqueue, PricingInv, PricingTypeOK
  <1>5. ASSUME NEW e \in Estimates, Estimate(e)  PROVE PricingInv'
    BY <1>1, <1>3, <1>5 DEF Estimate, PricingInv, PricingTypeOK
  <1>6. CASE UNCHANGED vars
    BY <1>1, <1>3, <1>6 DEF vars, PricingInv, PricingTypeOK
  <1> QED
    BY <1>2, <1>4, <1>5, <1>6

\* The invariant holds of every behaviour.
LEMMA PricingInvariance == Spec => []PricingInv
  <1>1. ASSUME Init  PROVE PricingInv
    <2>1. PricingTypeOK
      BY <1>1, PricingConstants DEF Init, PricingTypeOK, NoBuild
    <2> QED
      BY <1>1, <2>1 DEF Init, PricingInv, ChainPriced, WithinCap, ReachesRate, BoostsOutpay,
                        BoostOutpays, Built, NoBuild
  <1>2. ASSUME PricingInv, [Next]_vars  PROVE PricingInv'
    BY <1>2, CreateStep, BoostStep, IdleSteps DEF Next
  <1> QED
    BY <1>1, <1>2, PTL DEF Spec

-----------------------------------------------------------------------------
\* The price list is well formed, and there are never more live speedups than
\* max_unconfirmed_speedups, however boosts, replacements and blocks interleave.
THEOREM PricesWellTyped == Spec => []PricingTypeOK
  <1>1. PricingInv => PricingTypeOK
    BY DEF PricingInv
  <1> QED
    BY <1>1, PricingInvariance, PTL

\* max_feerate_sat_vb bounds what parents and child pay together, for every setting
\* validate accepts, every chain of boosts and every size of the estimate's error.
THEOREM PackageWithinCap == Spec => []WithinCap
  <1>1. PricingInv => WithinCap
    BY DEF PricingInv
  <1> QED
    BY <1>1, PricingInvariance, PTL

\* Unless the cap is reported, the package reaches the rate asked for, if the base
\* multiplier is at least one.
THEOREM PackageReachesRate == Spec => []ReachesRate
  <1>1. PricingInv => ReachesRate
    BY DEF PricingInv
  <1> QED
    BY <1>1, PricingInvariance, PTL

\* Every boost out-pays its predecessor, capped or not, and a replacement by the relay
\* increment, if base_fee_multiplier is at least one.  validate accepts smaller ones,
\* for which it is false (LowMultiplier.cfg).
THEOREM BoostsPayMore ==
    ASSUME BaseFeeMultiplier[1] >= BaseFeeMultiplier[2]
    PROVE  Spec => []BoostOutpays
  <1>1. PricingInv => BoostOutpays
    BY DEF PricingInv, BoostsOutpay
  <1> QED
    BY <1>1, PricingInvariance, PTL

\* What batch_by_weight makes of the waiting parents is greedy in every state.
THEOREM GreedyBatches == Spec => []BatchesAreGreedy
  <1>1. PricingInv => BatchesAreGreedy
    <2> SUFFICES ASSUME PricingInv, NEW n \in 1..2
                 PROVE  LET batches == BatchByWeight(pending, n)
                            taken == Len(FlattenSeq(batches))
                        IN  /\ Len(batches) <= n
                            /\ IsPartition(batches, pending)
                            /\ \A i \in DOMAIN batches :
                                 /\ batches[i] # <<>>
                                 /\ SumOf(batches[i]) <= MaxTxWeight \/ Len(batches[i]) = 1
                                 /\ LET upTo == Len(FlattenSeq(SubSeq(batches, 1, i)))
                                    IN  upTo < Len(pending) =>
                                          SumOf(batches[i]) + pending[upTo + 1] > MaxTxWeight
                            /\ Len(batches) < n => taken = Len(pending)
      BY DEF BatchesAreGreedy
    <2>1. pending \in Seq(Nat) /\ n \in Nat \ {0}
      <3>1. pending \in Seq(Weights) /\ Weights \subseteq Nat
        BY PricingConstants DEF PricingInv, PricingTypeOK
      <3>2. pending \in Seq(Nat)
        BY <3>1, SeqOfSubset, Zenon
      <3> QED  BY <3>2
    <2> DEFINE bs == BatchByWeight(pending, n)
    <2>2. /\ bs \in Seq(Seq(Nat))
          /\ Len(bs) <= n
          /\ IsPrefix(FlattenSeq(bs), pending)
          /\ \A i \in 1..Len(bs) :
               /\ bs[i] # <<>>
               /\ SumOf(bs[i]) <= MaxTxWeight \/ Len(bs[i]) = 1
               /\ UpTo(bs, i) < Len(pending) =>
                    SumOf(bs[i]) + pending[UpTo(bs, i) + 1] > MaxTxWeight
          /\ Len(bs) < n => Len(FlattenSeq(bs)) = Len(pending)
      BY <2>1, BatchesGreedy
    <2>3. DOMAIN bs = 1..Len(bs)
      BY <2>2
    <2> HIDE DEF bs
    <2>4. /\ Len(bs) <= n
          /\ IsPartition(bs, pending)
          /\ \A i \in DOMAIN bs :
               /\ bs[i] # <<>>
               /\ SumOf(bs[i]) <= MaxTxWeight \/ Len(bs[i]) = 1
               /\ LET upTo == Len(FlattenSeq(SubSeq(bs, 1, i)))
                  IN  upTo < Len(pending) => SumOf(bs[i]) + pending[upTo + 1] > MaxTxWeight
          /\ Len(bs) < n => Len(FlattenSeq(bs)) = Len(pending)
      BY <2>2, <2>3, Zenon DEF IsPartition, UpTo
    <2> QED
      BY <2>4, Zenon DEF bs
  <1> QED
    BY <1>1, PricingInvariance, PTL
=================================================================================
