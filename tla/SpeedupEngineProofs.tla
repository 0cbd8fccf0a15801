-------------------------- MODULE SpeedupEngineProofs --------------------------
(***************************************************************************)
(* Proofs about SpeedupEngine: the shape of the store through every write  *)
(* of every tick, also when a crash keeps only some of them, and I2 of     *)
(* docs/design.md, at most one pre-built speedup.                          *)
(***************************************************************************)
EXTENDS SpeedupEngine, FoldTheorems, FiniteSetTheorems, SequenceTheorems

-----------------------------------------------------------------------------
(* Lists. *)

\* The lists over A that hold nothing twice.
Lists(A) == {q \in Seq(A) : \A i, j \in 1..Len(q) : q[i] = q[j] => i = j}

\* A sequence over a set is one over every larger set.
LEMMA SeqWider ==
    ASSUME NEW A, NEW B, A \subseteq B, NEW q \in Seq(A)
    PROVE  q \in Seq(B)
  OBVIOUS

\* The members of a sequence.
LEMMA ToSetOfSeq ==
    ASSUME NEW A, NEW q \in Seq(A)
    PROVE  ToSet(q) \subseteq A /\ \A x : x \in ToSet(q) <=> \E i \in 1..Len(q) : q[i] = x
  BY DEF ToSet

\* The members after an append.
LEMMA ToSetOfAppend ==
    ASSUME NEW A, NEW q \in Seq(A), NEW x \in A
    PROVE  ToSet(Append(q, x)) = ToSet(q) \cup {x}
  <1> DEFINE r == Append(q, x)
  <1>1. /\ r \in Seq(A) /\ Len(q) \in Nat /\ Len(r) = Len(q) + 1
        /\ r[Len(q) + 1] = x /\ \A i \in 1..Len(q) : r[i] = q[i]
    OBVIOUS
  <1> HIDE DEF r
  <1>2. \A y : (\E i \in 1..Len(r) : r[i] = y) <=> (\E i \in 1..Len(q) : q[i] = y) \/ y = x
    BY <1>1
  <1>3. ToSet(r) = ToSet(q) \cup {x}
    BY <1>1, <1>2, ToSetOfSeq
  <1> QED
    BY <1>3 DEF r

\* Appending what is not there yet.
LEMMA ListAppend ==
    ASSUME NEW A, NEW q \in Lists(A), NEW x \in A, x \notin ToSet(q)
    PROVE  Append(q, x) \in Lists(A) /\ ToSet(Append(q, x)) = ToSet(q) \cup {x}
  <1> DEFINE r == Append(q, x)
  <1>1. q \in Seq(A) /\ Len(q) \in Nat
    BY DEF Lists
  <1>2. /\ r \in Seq(A) /\ Len(r) = Len(q) + 1
        /\ r[Len(q) + 1] = x /\ \A i \in 1..Len(q) : r[i] = q[i]
    BY <1>1
  <1> HIDE DEF r
  <1>3. \A i \in 1..Len(q) : q[i] # x
    BY <1>1, ToSetOfSeq
  <1>4. \A i, j \in 1..Len(q) : q[i] = q[j] => i = j
    BY DEF Lists
  <1>5. ASSUME NEW i \in 1..Len(r), NEW j \in 1..Len(r), r[i] = r[j]  PROVE i = j
    <2>1. (i \in 1..Len(q) \/ i = Len(q) + 1) /\ (j \in 1..Len(q) \/ j = Len(q) + 1)
      BY <1>1, <1>2
    <2> QED  BY <1>2, <1>3, <1>4, <1>5, <2>1
  <1>6. ToSet(r) = ToSet(q) \cup {x}
    BY <1>1, ToSetOfAppend DEF r
  <1> QED
    BY <1>2, <1>5, <1>6 DEF r, Lists

\* One list in front of another that shares nothing with it.
LEMMA ListConcat ==
    ASSUME NEW A, NEW q \in Lists(A), NEW r \in Lists(A), ToSet(q) \cap ToSet(r) = {}
    PROVE  q \o r \in Lists(A)
  <1> DEFINE w == q \o r
  <1>1. q \in Seq(A) /\ r \in Seq(A) /\ Len(q) \in Nat /\ Len(r) \in Nat
    BY DEF Lists
  <1>2. /\ w \in Seq(A) /\ Len(w) = Len(q) + Len(r)
        /\ \A i \in 1..Len(q) : w[i] = q[i]
        /\ \A i \in 1..Len(w) : i > Len(q) => i - Len(q) \in 1..Len(r) /\ w[i] = r[i - Len(q)]
    BY <1>1
  <1> HIDE DEF w
  <1>3. \A i \in 1..Len(q), j \in 1..Len(r) : q[i] # r[j]
    BY <1>1, ToSetOfSeq
  <1>4. /\ \A i, j \in 1..Len(q) : q[i] = q[j] => i = j
        /\ \A i, j \in 1..Len(r) : r[i] = r[j] => i = j
    BY DEF Lists
  <1>5. ASSUME NEW i \in 1..Len(w), NEW j \in 1..Len(w), w[i] = w[j]  PROVE i = j
    <2>1. (i \in 1..Len(q) \/ i > Len(q)) /\ (j \in 1..Len(q) \/ j > Len(q))
      BY <1>1, <1>2
    <2>2. CASE i \in 1..Len(q) /\ j \in 1..Len(q)
      BY <1>2, <1>4, <1>5, <2>2
    <2>3. CASE i > Len(q) /\ j > Len(q)
      <3>1. i - Len(q) = j - Len(q)
        BY <1>2, <1>4, <1>5, <2>3
      <3> QED  BY <3>1, <1>1, <1>2
    <2>4. CASE i \in 1..Len(q) /\ j > Len(q)
      BY <1>2, <1>3, <1>5, <2>4
    <2>5. CASE i > Len(q) /\ j \in 1..Len(q)
      BY <1>2, <1>3, <1>5, <2>5
    <2> QED  BY <2>1, <2>2, <2>3, <2>4, <2>5
  <1> QED
    BY <1>2, <1>5 DEF w, Lists

\* The equation of the loop in Where.
WhereEquation(g, seq, S) ==
    g = [n \in 0..Len(seq) |->
           IF n = 0 THEN <<>>
           ELSE IF seq[n] \in S THEN Append(g[n - 1], seq[n]) ELSE g[n - 1]]

WhereRun(g, seq, S) ==
    /\ g[0] = <<>>
    /\ \A k \in 1..Len(seq) :
         g[k] = IF seq[k] \in S THEN Append(g[k - 1], seq[k]) ELSE g[k - 1]
    /\ Where(seq, S) = g[Len(seq)]

\* The loop in Where ends, with a sequence over the same set.
LEMMA WhereRuns ==
    ASSUME NEW A, NEW seq \in Seq(A), NEW S
    PROVE  \E g \in [0..Len(seq) -> Seq(A)] : WhereRun(g, seq, S)
  <1> DEFINE n == Len(seq)
             T == Seq(A)
             Take(q, k) == IF seq[k] \in S THEN Append(q, seq[k]) ELSE q
             step == [p \in T \X (1..n) |-> Take(p[1], p[2])]
             upTo == CHOOSE g : WhereEquation(g, seq, S)
  <1>1. n \in Nat /\ <<>> \in T
    OBVIOUS
  <1>2. Where(seq, S) = upTo[n]
    BY Zenon DEF Where, WhereEquation
  <1>3. \A q \in T, k \in 1..n : Take(q, k) \in T
    OBVIOUS
  <1> HIDE DEF T, Take
  <1>4. step \in [T \X (1..n) -> T]
    BY <1>3
  <1>5. \A q \in T, k \in 1..n : step[<<q, k>>] = Take(q, k)
    OBVIOUS
  <1> HIDE DEF step, n
  <1>6. PICK f \in [0..n -> T] : IsRun(f, n, <<>>, step)
    BY <1>1, <1>4, RunExists
  <1>7. \A k \in 1..n : f[k] = Take(f[k - 1], k)
    <2> SUFFICES ASSUME NEW k \in 1..n  PROVE f[k] = Take(f[k - 1], k)
      OBVIOUS
    <2>1. f[k - 1] \in T
      BY <1>1, <1>6
    <2> QED  BY <1>5, <1>6, <2>1 DEF IsRun
  <1>8. WhereEquation(f, seq, S)
    <2>1. f = [k \in 0..n |-> f[k]]
      BY <1>6
    <2>2. \A k \in 0..n : k = 0 \/ k \in 1..n
      BY <1>1
    <2>3. \A k \in 0..n : f[k] = IF k = 0 THEN <<>> ELSE Take(f[k - 1], k)
      BY <1>1, <1>6, <1>7, <2>2 DEF IsRun
    <2>4. f = [k \in 0..n |-> IF k = 0 THEN <<>> ELSE Take(f[k - 1], k)]
      BY <2>1, <2>3, Zenon
    <2> QED  BY <2>4, Zenon DEF WhereEquation, Take, n
  <1>9. WhereEquation(upTo, seq, S)
    BY <1>8
  <1> HIDE DEF upTo
  <1>10. upTo = [k \in 0..n |-> IF k = 0 THEN <<>> ELSE Take(upTo[k - 1], k)]
    BY <1>9, Zenon DEF WhereEquation, Take, n
  <1>11. upTo[0] = <<>> /\ \A k \in 1..n : upTo[k] = Take(upTo[k - 1], k)
    BY <1>1, <1>10
  <1>12. \A k \in 0..n : upTo[k] \in T
    <2> DEFINE D == {k \in 0..n : upTo[k] \in T}
    <2>1. 0 \in D /\ \A k \in 1..n : k - 1 \in D => k \in D
      BY <1>1, <1>3, <1>11
    <2> HIDE DEF D
    <2>2. 0..n \subseteq D
      BY <1>1, <2>1, IndexInduction
    <2> QED  BY <2>2 DEF D
  <1>13. upTo \in [0..n -> T]
    <2>1. upTo = [k \in 0..n |-> upTo[k]]
      BY <1>10
    <2> QED  BY <1>12, <2>1
  <1> QED
    BY <1>2, <1>11, <1>13 DEF n, T, Take, WhereRun

\* Where keeps exactly the entries in S, each as often as it was there.
LEMMA WhereKeeps ==
    ASSUME NEW A, NEW seq \in Seq(A), NEW S
    PROVE  /\ Where(seq, S) \in Seq(A)
           /\ ToSet(Where(seq, S)) = ToSet(seq) \cap S
           /\ seq \in Lists(A) => Where(seq, S) \in Lists(A)
  <1> DEFINE n == Len(seq)
  <1>1. n \in Nat /\ \A k \in 1..n : seq[k] \in A
    OBVIOUS
  <1>2. PICK g \in [0..n -> Seq(A)] : WhereRun(g, seq, S)
    BY WhereRuns
  <1>3. /\ g[0] = <<>>
        /\ \A k \in 1..n : g[k] = IF seq[k] \in S THEN Append(g[k - 1], seq[k]) ELSE g[k - 1]
        /\ Where(seq, S) = g[n]
    BY <1>2 DEF WhereRun
  <1> DEFINE Seen(k) == {seq[i] : i \in 1..k}
             Fine(k) == /\ ToSet(g[k]) = Seen(k) \cap S
                        /\ seq \in Lists(A) => g[k] \in Lists(A)
             D == {k \in 0..n : Fine(k)}
  <1>4. 0 \in D
    <2>1. <<>> \in Lists(A) /\ ToSet(<<>>) = {} /\ 1..0 = {}
      BY DEF Lists, ToSet
    <2> QED  BY <1>1, <1>3, <2>1
  <1>5. ASSUME NEW k \in 1..n, k - 1 \in D  PROVE k \in D
    <2>1. Fine(k - 1) /\ k \in 0..n /\ k - 1 \in 0..n
      BY <1>1, <1>5
    <2>2. Seen(k) = Seen(k - 1) \cup {seq[k]}
      <3>1. 1..k = (1..(k - 1)) \cup {k}
        OBVIOUS
      <3> QED  BY <3>1
    <2>3. g[k - 1] \in Seq(A) /\ seq[k] \in A
      BY <1>1, <1>2, <2>1
    <2>4. CASE seq[k] \in S
      <3>1. g[k] = Append(g[k - 1], seq[k])
        BY <1>3, <2>4
      <3>2. ToSet(Append(g[k - 1], seq[k])) = ToSet(g[k - 1]) \cup {seq[k]}
        BY <2>3, ToSetOfAppend
      <3>3. ToSet(g[k]) = Seen(k) \cap S
        BY <2>1, <2>2, <2>4, <3>1, <3>2
      <3>4. ASSUME seq \in Lists(A)  PROVE g[k] \in Lists(A)
        <4>1. \A i \in 1..(k - 1) : seq[i] # seq[k]
          BY <1>1, <3>4 DEF Lists
        <4>2. seq[k] \notin ToSet(g[k - 1])
          BY <2>1, <4>1
        <4>3. g[k - 1] \in Lists(A)
          BY <2>1, <3>4
        <4> QED  BY <2>3, <3>1, <4>2, <4>3, ListAppend
      <3> QED  BY <2>1, <3>3, <3>4
    <2>5. CASE seq[k] \notin S
      BY <1>3, <2>1, <2>2, <2>5
    <2> QED  BY <2>4, <2>5
  <1> HIDE DEF D
  <1>6. 0..n \subseteq D
    BY <1>1, <1>4, <1>5, IndexInduction
  <1>7. Fine(n) /\ g[n] \in Seq(A)
    BY <1>1, <1>2, <1>6 DEF D
  <1>8. Seen(n) = ToSet(seq)
    BY DEF ToSet
  <1> QED
    BY <1>3, <1>7, <1>8

\* Taking an entry out.
LEMMA WithoutKeeps ==
    ASSUME NEW A, NEW seq \in Lists(A), NEW x
    PROVE  Without(seq, x) \in Lists(A) /\ ToSet(Without(seq, x)) = ToSet(seq) \ {x}
  <1>1. seq \in Seq(A)
    BY DEF Lists
  <1> QED
    BY <1>1, WhereKeeps DEF Without

-----------------------------------------------------------------------------
(* Stores. *)

\* The parents of a speedup are a list: they come back to PendingSpeedupParents
\* together when it fails.
Rec ==
    [state : RecordState, parents : Lists(Ids), replaces : 0..MaxSpeedups, fresh : Seq(Outputs),
     rate : 0..MaxRate, broadcast : 0..MaxHeight, guard : 0..(MaxHeight + MaxConfs),
     retries : 0..RetryAttempts, settled : 0..MaxHeight, spent : BOOLEAN,
     replacedBy : 0..MaxSpeedups]

Recs == {f \in [Ids -> Rec] : \A p \in Parents : f[p].replaces = 0}

Kinds ==
    {"TxNotFound", "InvalidStateTransition", "DispatchError", "TransactionEvicted",
     "FundingNotAvailable", "InsufficientFunds", "MaxFeeRateReached", "InvalidFundingUtxo"}

NewsItems == Kinds \X (Ids \cup Fundings \cup {0})

Marks == {"none", "free", "spent"}

Store ==
    [rec : Recs, list : Lists(Speedups), psp : Lists(Parents), queue : Seq(Outputs),
     funds : [Outputs -> Marks], news : SUBSET NewsItems]

\* What is said of the stores of one pass besides their shape.  In mode "calm" (no
\* write was cut off): which speedups may be queued and never broadcast
\* (prebuilt), which have been broadcast, which are settled, and which are still
\* in the SpeedupList.
Cases ==
    [mode : {"shape", "calm"}, prebuilt : SUBSET Speedups, sent : SUBSET Speedups,
     settled : SUBSET Speedups, listed : SUBSET Speedups]

\* The record r of s fits the case: an active speedup is listed, a live one has
\* been broadcast.
Fits(c, list, s, r) ==
    /\ r.state \in Active => s \in ToSet(list)
    /\ r.state \in {"InMempool", "Confirmed"} => r.broadcast # 0
    /\ r.state = "ToDispatch" /\ r.broadcast = 0 => s \in c.prebuilt
    /\ s \in c.sent => r.broadcast # 0
    /\ s \in c.settled => r.state \notin Active

Calm(c, d) ==
    /\ c.listed \subseteq ToSet(d.list)
    /\ \A s \in Speedups : Fits(c, d.list, s, d.rec[s])

Good(c) == {d \in Store : c.mode = "calm" => Calm(c, d)}

\* Parents, speedups and funding outputs have different names.
LEMMA Names ==
    /\ Parents \subseteq Ids /\ Speedups \subseteq Ids
    /\ Speedups \subseteq Outputs /\ Fundings \subseteq Outputs
    /\ Parents \cap Speedups = {} /\ Fundings \cap Speedups = {} /\ 0 \notin Speedups
    /\ \A x \in Ids : x \in Parents \/ x \in Speedups
    /\ MaxSpeedups \in Nat /\ 0 \in 0..MaxSpeedups /\ Speedups \subseteq 0..MaxSpeedups
  BY StoreAssumption DEF Ids, Outputs, Speedups

\* The fields of a store.
LEMMA StoreFields ==
    ASSUME NEW d \in Store
    PROVE  /\ d.rec \in [Ids -> Rec] /\ \A p \in Parents : d.rec[p].replaces = 0
           /\ d.list \in Lists(Speedups) /\ d.psp \in Lists(Parents)
           /\ d.queue \in Seq(Outputs) /\ d.funds \in [Outputs -> Marks]
           /\ d.news \in SUBSET NewsItems
  BY DEF Store, Recs

\* The fields of a record.
LEMMA RecFields ==
    ASSUME NEW r \in Rec
    PROVE  /\ r.state \in RecordState /\ r.parents \in Lists(Ids)
           /\ r.replaces \in 0..MaxSpeedups /\ r.fresh \in Seq(Outputs)
           /\ r.rate \in 0..MaxRate /\ r.broadcast \in 0..MaxHeight
           /\ r.guard \in 0..(MaxHeight + MaxConfs) /\ r.retries \in 0..RetryAttempts
           /\ r.settled \in 0..MaxHeight /\ r.replacedBy \in 0..MaxSpeedups
  BY DEF Rec

\* Writing one record.
LEMMA WriteRecord ==
    ASSUME NEW d \in Store, NEW x \in Ids, NEW r \in Rec, x \in Parents => r.replaces = 0
    PROVE  LET e == [d EXCEPT !.rec[x] = r]
           IN  /\ e \in Store /\ e.list = d.list /\ e.psp = d.psp /\ e.queue = d.queue
               /\ e.funds = d.funds /\ e.news = d.news
               /\ \A y \in Ids : e.rec[y] = IF y = x THEN r ELSE d.rec[y]
  <1> DEFINE f == [d.rec EXCEPT ![x] = r]
             g == d.rec
  <1>1. g \in [Ids -> Rec] /\ \A p \in Parents : g[p].replaces = 0
    BY StoreFields
  <1> HIDE DEF g
  <1>2. f = [g EXCEPT ![x] = r]
    BY DEF g
  <1>3. \A y \in Ids : f[y] = IF y = x THEN r ELSE g[y]
    BY <1>1, <1>2
  <1>4. f \in [Ids -> Rec]
    BY <1>1, <1>2
  <1>5. \A p \in Parents : f[p].replaces = 0
    BY <1>1, <1>3, Names
  <1>6. [d EXCEPT !.rec[x] = r] = [d EXCEPT !.rec = f]
    OBVIOUS
  <1> HIDE DEF f
  <1>7. f \in Recs
    BY <1>4, <1>5 DEF Recs
  <1> DEFINE e == [d EXCEPT !.rec = f]
  <1>8. /\ e \in Store /\ e.list = d.list /\ e.psp = d.psp /\ e.queue = d.queue
        /\ e.funds = d.funds /\ e.news = d.news /\ e.rec = f
    BY <1>7 DEF Store
  <1> HIDE DEF e
  <1>9. e = [d EXCEPT !.rec[x] = r]
    BY <1>6 DEF e
  <1>10. \A y \in Ids : e.rec[y] = IF y = x THEN r ELSE d.rec[y]
    BY <1>3, <1>8 DEF g
  <1> QED
    BY <1>8, <1>9, <1>10

\* Writing the SpeedupList.
LEMMA WriteList ==
    ASSUME NEW d \in Store, NEW v \in Lists(Speedups)
    PROVE  LET e == [d EXCEPT !.list = v]
           IN  /\ e \in Store /\ e.list = v /\ e.rec = d.rec /\ e.psp = d.psp
               /\ e.queue = d.queue /\ e.funds = d.funds /\ e.news = d.news
  BY DEF Store

\* Writing PendingSpeedupParents.
LEMMA WritePsp ==
    ASSUME NEW d \in Store, NEW v \in Lists(Parents)
    PROVE  LET e == [d EXCEPT !.psp = v]
           IN  /\ e \in Store /\ e.psp = v /\ e.rec = d.rec /\ e.list = d.list
               /\ e.queue = d.queue /\ e.funds = d.funds /\ e.news = d.news
  BY DEF Store

\* Writing the funding queue.
LEMMA WriteQueue ==
    ASSUME NEW d \in Store, NEW v \in Seq(Outputs)
    PROVE  LET e == [d EXCEPT !.queue = v]
           IN  /\ e \in Store /\ e.queue = v /\ e.rec = d.rec /\ e.list = d.list
               /\ e.psp = d.psp /\ e.funds = d.funds /\ e.news = d.news
  BY DEF Store

\* Writing the record of one funding output.
LEMMA WriteFunds ==
    ASSUME NEW d \in Store, NEW o \in Outputs, NEW v \in Marks
    PROVE  LET e == [d EXCEPT !.funds[o] = v]
           IN  /\ e \in Store /\ e.rec = d.rec /\ e.list = d.list
               /\ e.psp = d.psp /\ e.queue = d.queue /\ e.news = d.news
  <1> DEFINE f == [d.funds EXCEPT ![o] = v]
             g == d.funds
  <1>1. g \in [Outputs -> Marks]
    BY StoreFields
  <1> HIDE DEF g
  <1>2. [g EXCEPT ![o] = v] \in [Outputs -> Marks]
    BY <1>1
  <1>3. f \in [Outputs -> Marks]
    BY <1>2 DEF g
  <1>4. [d EXCEPT !.funds[o] = v] = [d EXCEPT !.funds = f]
    OBVIOUS
  <1> HIDE DEF f
  <1> DEFINE e == [d EXCEPT !.funds = f]
  <1>5. /\ e \in Store /\ e.list = d.list /\ e.psp = d.psp /\ e.queue = d.queue
        /\ e.rec = d.rec /\ e.news = d.news
    BY <1>3 DEF Store
  <1> QED
    BY <1>4, <1>5

\* Writing the news.
LEMMA WriteNews ==
    ASSUME NEW d \in Store, NEW v \in SUBSET NewsItems
    PROVE  LET e == [d EXCEPT !.news = v]
           IN  /\ e \in Store /\ e.news = v /\ e.rec = d.rec /\ e.list = d.list
               /\ e.psp = d.psp /\ e.queue = d.queue /\ e.funds = d.funds
  BY DEF Store

-----------------------------------------------------------------------------
(* Writes that leave the case as it is. *)

\* A write that changes neither records nor the SpeedupList.
LEMMA GoodElsewhere ==
    ASSUME NEW c, NEW d \in Good(c), NEW e \in Store, e.rec = d.rec, e.list = d.list
    PROVE  e \in Good(c)
  BY DEF Good, Calm

\* A record that fits the case may be written.
LEMMA GoodRecord ==
    ASSUME NEW c, NEW d \in Good(c), NEW x \in Ids, NEW r \in Rec, x \in Parents => r.replaces = 0,
           c.mode = "calm" /\ x \in Speedups => Fits(c, d.list, x, r)
    PROVE  [d EXCEPT !.rec[x] = r] \in Good(c)
  <1> DEFINE e == [d EXCEPT !.rec[x] = r]
  <1>1. d \in Store /\ (c.mode = "calm" => Calm(c, d))
    BY DEF Good
  <1>2. e \in Store /\ e.list = d.list /\ \A y \in Ids : e.rec[y] = IF y = x THEN r ELSE d.rec[y]
    BY <1>1, WriteRecord
  <1> HIDE DEF e
  <1>3. ASSUME c.mode = "calm"  PROVE Calm(c, e)
    <2>1. \A s \in Speedups : e.rec[s] = IF s = x THEN r ELSE d.rec[s]
      BY <1>2, Names
    <2>2. \A s \in Speedups : Fits(c, d.list, s, d.rec[s])
      BY <1>1, <1>3 DEF Calm
    <2>3. \A s \in Speedups : Fits(c, e.list, s, e.rec[s])
      BY <1>2, <1>3, <2>1, <2>2
    <2> QED  BY <1>1, <1>2, <1>3, <2>3 DEF Calm
  <1> QED
    BY <1>2, <1>3 DEF Good, e

\* A longer SpeedupList.
LEMMA GoodLonger ==
    ASSUME NEW c, NEW d \in Good(c), NEW v \in Lists(Speedups), ToSet(d.list) \subseteq ToSet(v)
    PROVE  [d EXCEPT !.list = v] \in Good(c)
  <1> DEFINE e == [d EXCEPT !.list = v]
  <1>1. d \in Store /\ (c.mode = "calm" => Calm(c, d))
    BY DEF Good
  <1>2. e \in Store /\ e.list = v /\ e.rec = d.rec
    BY <1>1, WriteList
  <1> HIDE DEF e
  <1>3. ASSUME c.mode = "calm"  PROVE Calm(c, e)
    BY <1>1, <1>2, <1>3 DEF Calm, Fits
  <1> QED
    BY <1>2, <1>3 DEF Good, e

\* A settled speedup leaves the SpeedupList.
LEMMA GoodUnlisted ==
    ASSUME NEW c, NEW d \in Good(c), NEW x,
           c.mode = "calm" /\ x \in Speedups => x \notin c.listed /\ d.rec[x].state \notin Active
    PROVE  [d EXCEPT !.list = Without(@, x)] \in Good(c)
  <1> DEFINE v == Without(d.list, x)
             e == [d EXCEPT !.list = v]
  <1>1. d \in Store /\ (c.mode = "calm" => Calm(c, d))
    BY DEF Good
  <1>2. v \in Lists(Speedups) /\ ToSet(v) = ToSet(d.list) \ {x}
    BY <1>1, StoreFields, WithoutKeeps
  <1>3. [d EXCEPT !.list = Without(@, x)] = e
    OBVIOUS
  <1> HIDE DEF v
  <1>4. e \in Store /\ e.list = v /\ e.rec = d.rec
    BY <1>1, <1>2, WriteList
  <1> HIDE DEF e
  <1>5. ASSUME c.mode = "calm"  PROVE Calm(c, e)
    <2>1. c.listed \subseteq ToSet(d.list) /\ \A s \in Speedups : Fits(c, d.list, s, d.rec[s])
      BY <1>1, <1>5 DEF Calm
    <2>2. ToSet(d.list) \subseteq Speedups
      BY <1>1, StoreFields, ToSetOfSeq DEF Lists
    <2>3. c.listed \subseteq ToSet(v)
      BY <1>2, <1>5, <2>1, <2>2
    <2>4. \A s \in Speedups : Fits(c, v, s, d.rec[s])
      BY <1>2, <1>5, <2>1 DEF Fits
    <2> QED  BY <1>4, <2>3, <2>4 DEF Calm
  <1> QED
    BY <1>3, <1>4, <1>5 DEF Good

-----------------------------------------------------------------------------
(* Traces. *)

Traces(c) == {t \in Seq(Store) : t # <<>> /\ Last(t) \in Good(c)}

\* The last store of a trace is good.
LEMMA TraceNow ==
    ASSUME NEW c, NEW t \in Traces(c)
    PROVE  Now(t) \in Good(c) /\ Now(t) \in Store
  BY DEF Traces, Now, Good

\* A good store is a trace of its own.
LEMMA TraceStart ==
    ASSUME NEW c, NEW d \in Good(c)
    PROVE  <<d>> \in Traces(c) /\ Now(<<d>>) = d
  <1>1. d \in Store
    BY DEF Good
  <1>2. <<d>> \in Seq(Store) /\ Len(<<d>>) = 1 /\ <<d>> # <<>> /\ <<d>>[1] = d
    BY <1>1
  <1> QED
    BY <1>2 DEF Traces, Now, Last

\* A trace may be continued with a good store.
LEMMA TracePut ==
    ASSUME NEW c, NEW t \in Traces(c), NEW d \in Good(c)
    PROVE  Put(t, d) \in Traces(c) /\ Now(Put(t, d)) = d
  <1>1. d \in Store /\ t \in Seq(Store) /\ t # <<>>
    BY DEF Good, Traces
  <1>2. CASE d = Now(t)
    BY <1>2 DEF Put
  <1>3. CASE d # Now(t)
    <2> DEFINE u == Append(t, d)
    <2>1. u \in Seq(Store) /\ Len(u) = Len(t) + 1 /\ u[Len(t) + 1] = d /\ u # <<>>
      BY <1>1
    <2>2. Put(t, d) = u
      BY <1>3 DEF Put
    <2> HIDE DEF u
    <2> QED  BY <2>1, <2>2 DEF Traces, Now, Last
  <1> QED
    BY <1>2, <1>3

-----------------------------------------------------------------------------
(* The writes of the store (SpeedupStore). *)

\* No transition leads back to an active state.
LEMMA ActiveFromActive ==
    ASSUME NEW from \in TransactionState, NEW to \in Active, CanTransitionTo(from, to)
    PROVE  from \in Active
  BY DEF CanTransitionTo, Transitions, TransactionState, Active, Terminal

\* A record that keeps its broadcast height and is not made active again.
LEMMA Refit ==
    ASSUME NEW c, NEW d \in Good(c), c.mode = "calm", NEW x \in Speedups, NEW r,
           r.broadcast = d.rec[x].broadcast,
           r.state \in Active => d.rec[x].state \in Active,
           \/ r.state \notin Active \/ r.state = "ToDispatch" \/ r.state = d.rec[x].state
           \/ x \in c.sent
    PROVE  Fits(c, d.list, x, r)
  <1>1. Fits(c, d.list, x, d.rec[x])
    BY DEF Good, Calm
  <1> QED
    BY <1>1 DEF Fits, Active

\* add_news is harmless.
LEMMA AddNewsGood ==
    ASSUME NEW c, NEW t \in Traces(c), NEW kind \in Kinds, NEW x \in Ids \cup Fundings \cup {0}
    PROVE  AddNews(t, kind, x) \in Traces(c) /\ Now(AddNews(t, kind, x)).rec = Now(t).rec
  <1> DEFINE d == Now(t)
             v == d.news \cup {<<kind, x>>}
             e == [d EXCEPT !.news = v]
  <1>1. d \in Good(c) /\ d \in Store
    BY TraceNow
  <1>2. AddNews(t, kind, x) = Put(t, e)
    BY DEF AddNews
  <1> HIDE DEF d
  <1>3. v \in SUBSET NewsItems
    BY <1>1, StoreFields DEF NewsItems
  <1> HIDE DEF v
  <1>4. e \in Store /\ e.rec = d.rec /\ e.list = d.list
    BY <1>1, <1>3, WriteNews
  <1> HIDE DEF e
  <1>5. e \in Good(c)
    BY <1>1, <1>4, GoodElsewhere
  <1> QED
    BY <1>2, <1>4, <1>5, TracePut DEF d

\* update_tx may write a record that fits the case.
LEMMA UpdateTxGood ==
    ASSUME NEW c, NEW t \in Traces(c), NEW x \in Ids, NEW r \in Rec, x \in Parents => r.replaces = 0,
           c.mode = "calm" /\ x \in Speedups => Fits(c, Now(t).list, x, r)
    PROVE  /\ UpdateTx(t, x, r) \in Traces(c)
           /\ Now(UpdateTx(t, x, r)).list = Now(t).list
           /\ \A y \in Ids : Now(UpdateTx(t, x, r)).rec[y] = IF y = x THEN r ELSE Now(t).rec[y]
  <1> DEFINE d == Now(t)
             e == [d EXCEPT !.rec[x] = r]
  <1>1. d \in Good(c) /\ d \in Store
    BY TraceNow
  <1>2. UpdateTx(t, x, r) = Put(t, e)
    BY DEF UpdateTx
  <1>3. c.mode = "calm" /\ x \in Speedups => Fits(c, d.list, x, r)
    OBVIOUS
  <1> HIDE DEF d
  <1>4. e \in Good(c)
    BY <1>1, <1>3, GoodRecord
  <1>5. e.list = d.list /\ \A y \in Ids : e.rec[y] = IF y = x THEN r ELSE d.rec[y]
    BY <1>1, WriteRecord
  <1> HIDE DEF e
  <1> QED
    BY <1>2, <1>4, <1>5, TracePut DEF d

\* A checked transition that keeps replaces and the broadcast height.
LEMMA CheckedGood ==
    ASSUME NEW c, NEW t \in Traces(c), NEW x \in Ids, NEW to \in TransactionState, NEW r \in Rec,
           r.state = to, r.replaces = Now(t).rec[x].replaces,
           r.broadcast = Now(t).rec[x].broadcast,
           to \in {"InMempool", "Confirmed"} /\ x \in Speedups /\ c.mode = "calm" => x \in c.sent
    PROVE  /\ Checked(t, x, to, r) \in Traces(c)
           /\ \A y \in Ids : \/ Now(Checked(t, x, to, r)).rec[y] = Now(t).rec[y]
                             \/ y = x /\ Now(Checked(t, x, to, r)).rec[y] = r
           /\ Known(Now(t), x) /\ CanTransitionTo(Now(t).rec[x].state, to) =>
                Now(Checked(t, x, to, r)).rec[x] = r
  <1> DEFINE d == Now(t)
  <1>1. d \in Good(c) /\ d \in Store /\ Now(t) = d
    BY TraceNow
  <1>2. d.rec[x] \in Rec /\ d.rec[x].state \in RecordState /\ (x \in Parents => d.rec[x].replaces = 0)
    BY <1>1, StoreFields, RecFields
  <1>3. r.state = to /\ r.replaces = d.rec[x].replaces /\ r.broadcast = d.rec[x].broadcast
    OBVIOUS
  <1>4. x \in Ids \cup Fundings \cup {0} /\ "TxNotFound" \in Kinds
        /\ "InvalidStateTransition" \in Kinds
    BY DEF Kinds
  <1> HIDE DEF d
  <1>5. CASE ~Known(d, x)
    <2>1. Checked(t, x, to, r) = AddNews(t, "TxNotFound", x)
      BY <1>1, <1>5 DEF Checked
    <2> QED  BY <1>1, <1>4, <1>5, <2>1, AddNewsGood
  <1>6. CASE Known(d, x) /\ ~CanTransitionTo(d.rec[x].state, to)
    <2>1. Checked(t, x, to, r) = AddNews(t, "InvalidStateTransition", x)
      BY <1>1, <1>6 DEF Checked
    <2> QED  BY <1>1, <1>4, <1>6, <2>1, AddNewsGood
  <1>7. CASE Known(d, x) /\ CanTransitionTo(d.rec[x].state, to)
    <2>1. Checked(t, x, to, r) = UpdateTx(t, x, r)
      BY <1>1, <1>7 DEF Checked
    <2>2. d.rec[x].state \in TransactionState
      BY <1>2, <1>7 DEF Known, RecordState
    <2>3. to \in Active => d.rec[x].state \in Active
      BY <1>7, <2>2, ActiveFromActive
    <2>4. ASSUME c.mode = "calm", x \in Speedups  PROVE Fits(c, d.list, x, r)
      <3>1. \/ to \notin Active \/ to = "ToDispatch" \/ x \in c.sent
        BY <2>4 DEF Active
      <3> QED  BY <1>1, <1>3, <2>3, <2>4, <3>1, Refit
    <2>5. x \in Parents => r.replaces = 0
      BY <1>2, <1>3
    <2>6. c.mode = "calm" /\ x \in Speedups => Fits(c, Now(t).list, x, r)
      BY <1>1, <2>4
    <2> QED  BY <2>1, <2>5, <2>6, UpdateTxGood
  <1> QED
    BY <1>5, <1>6, <1>7

\* update_tx_state of the review: the speedup has been broadcast.
LEMMA UpdateTxStateGood ==
    ASSUME NEW c, NEW t \in Traces(c), NEW x \in Ids, NEW to \in {"InMempool", "Confirmed"},
           x \in Speedups /\ c.mode = "calm" => x \in c.sent
    PROVE  UpdateTxState(t, x, to) \in Traces(c)
  <1> DEFINE o == Now(t).rec[x]
             r == [o EXCEPT !.state = to]
  <1>1. o \in Rec
    BY TraceNow, StoreFields
  <1>2. UpdateTxState(t, x, to) = Checked(t, x, to, r)
    BY DEF UpdateTxState
  <1>3. to \in TransactionState
    BY DEF TransactionState, Active
  <1>4. o.replaces = Now(t).rec[x].replaces /\ o.broadcast = Now(t).rec[x].broadcast
    OBVIOUS
  <1> HIDE DEF o
  <1>5. r \in Rec /\ r.state = to /\ r.replaces = o.replaces /\ r.broadcast = o.broadcast
    BY <1>1, <1>3 DEF Rec, RecordState
  <1> HIDE DEF r
  <1> QED
    BY <1>2, <1>3, <1>4, <1>5, CheckedGood

\* The heights of the index and of the records.
LEMMA Heights ==
    ASSUME NodeTypeOK
    PROVE  /\ vheight \in 1..MaxHeight /\ vheight \in 0..MaxHeight /\ vheight # 0
           /\ vheight + MaxConfs \in 0..(MaxHeight + MaxConfs)
           /\ height \in 1..MaxHeight
           /\ 0 \in 0..MaxHeight /\ 0 \in 0..(MaxHeight + MaxConfs)
  BY SpeedupNodeAssumption DEF NodeTypeOK

\* settle_tx; what it was to settle Finalized is not active afterwards.
LEMMA SettleTxGood ==
    ASSUME NodeTypeOK, NEW c, NEW t \in Traces(c), NEW x \in Ids, NEW to \in Terminal
    PROVE  /\ SettleTx(t, x, to, vheight) \in Traces(c)
           /\ to = "Finalized" => Now(SettleTx(t, x, to, vheight)).rec[x].state \notin Active
           /\ \A y \in Ids :
                Now(SettleTx(t, x, to, vheight)).rec[y].replaces = Now(t).rec[y].replaces
  <1> DEFINE d == Now(t)
             o == d.rec[x]
             r == [o EXCEPT !.state = to, !.settled = vheight]
             u == SettleTx(t, x, to, vheight)
  <1>1. o \in Rec
    BY TraceNow, StoreFields
  <1>2. u = Checked(t, x, to, r)
    BY DEF SettleTx
  <1>3. to \in TransactionState /\ to \notin {"InMempool", "Confirmed"} /\ to \notin Active
    BY DEF TransactionState, Active, Terminal
  <1>4. o = Now(t).rec[x]
    OBVIOUS
  <1> HIDE DEF o
  <1>5. /\ r \in Rec /\ r.state = to /\ r.replaces = o.replaces /\ r.broadcast = o.broadcast
    BY <1>1, <1>3, Heights DEF Rec, RecordState
  <1> HIDE DEF r
  <1>6. /\ u \in Traces(c)
        /\ \A y \in Ids : Now(u).rec[y] = Now(t).rec[y] \/ (y = x /\ Now(u).rec[y] = r)
        /\ Known(Now(t), x) /\ CanTransitionTo(Now(t).rec[x].state, to) => Now(u).rec[x] = r
    BY <1>2, <1>3, <1>4, <1>5, CheckedGood
  <1> HIDE DEF u
  <1>7. ASSUME to = "Finalized"  PROVE Now(u).rec[x].state \notin Active
    <2>1. o.state \in Active => Known(Now(t), x) /\ CanTransitionTo(Now(t).rec[x].state, to)
      BY <1>4, <1>7 DEF Active, Known, CanTransitionTo, Transitions
    <2> QED  BY <1>3, <1>4, <1>5, <1>6, <2>1
  <1>8. \A y \in Ids : Now(u).rec[y].replaces = Now(t).rec[y].replaces
    BY <1>4, <1>5, <1>6
  <1> QED
    BY <1>6, <1>7, <1>8 DEF u

\* requeue_not_found queues only what has been broadcast.
LEMMA RequeueNotFoundGood ==
    ASSUME NodeTypeOK, NEW c, NEW t \in Traces(c), NEW x \in Ids
    PROVE  RequeueNotFound(t, x, vheight + MaxConfs) \in Traces(c)
  <1> DEFINE o == Now(t).rec[x]
             g == IF o.guard = 0 THEN vheight + MaxConfs ELSE o.guard
             r == [o EXCEPT !.state = "ToDispatch", !.guard = g]
  <1>1. o \in Rec
    BY TraceNow, StoreFields
  <1>2. RequeueNotFound(t, x, vheight + MaxConfs) = Checked(t, x, "ToDispatch", r)
    BY DEF RequeueNotFound
  <1>3. "ToDispatch" \in TransactionState
    BY DEF TransactionState, Active
  <1>4. o.replaces = Now(t).rec[x].replaces /\ o.broadcast = Now(t).rec[x].broadcast
    OBVIOUS
  <1> HIDE DEF o
  <1>5. g \in 0..(MaxHeight + MaxConfs)
    BY <1>1, Heights, RecFields
  <1> HIDE DEF g
  <1>6. r \in Rec /\ r.state = "ToDispatch" /\ r.replaces = o.replaces /\ r.broadcast = o.broadcast
    BY <1>1, <1>3, <1>5 DEF Rec, RecordState
  <1> HIDE DEF r
  <1> QED
    BY <1>2, <1>3, <1>4, <1>6, CheckedGood

\* mark_as_retry: what was queued stays queued, with its broadcast height.
LEMMA MarkAsRetryGood ==
    ASSUME NEW c, NEW t \in Traces(c), NEW x \in Ids
    PROVE  MarkAsRetry(t, x) \in Traces(c)
  <1> DEFINE o == Now(t).rec[x]
             n == Min({o.retries + 1, RetryAttempts})
             r == [o EXCEPT !.state = "ToDispatch", !.retries = n]
  <1>1. o \in Rec
    BY TraceNow, StoreFields
  <1>2. MarkAsRetry(t, x) = Checked(t, x, "ToDispatch", r)
    BY DEF MarkAsRetry
  <1>3. "ToDispatch" \in TransactionState
    BY DEF TransactionState, Active
  <1>4. o.replaces = Now(t).rec[x].replaces /\ o.broadcast = Now(t).rec[x].broadcast
    OBVIOUS
  <1> HIDE DEF o
  <1>5. n \in 0..RetryAttempts
    <2>1. o.retries \in 0..RetryAttempts /\ RetryAttempts \in Nat
      BY <1>1, RecFields, StoreAssumption
    <2> DEFINE S == {o.retries + 1, RetryAttempts}
    <2>2. \E y \in S : \A z \in S : y <= z
      BY <2>1
    <2>3. Min(S) \in S /\ \A z \in S : Min(S) <= z
      BY <2>2 DEF Min
    <2> QED  BY <2>1, <2>3
  <1> HIDE DEF n
  <1>6. r \in Rec /\ r.state = "ToDispatch" /\ r.replaces = o.replaces /\ r.broadcast = o.broadcast
    BY <1>1, <1>3, <1>5 DEF Rec, RecordState
  <1> HIDE DEF r
  <1> QED
    BY <1>2, <1>3, <1>4, <1>6, CheckedGood

\* The shape alone.
Bare == [mode |-> "shape"]

\* Every trace is one of stores with their shape.
LEMMA BareTraces ==
    ASSUME NEW c, NEW t \in Traces(c)
    PROVE  t \in Traces(Bare)
  BY DEF Traces, Good, Bare

\* The last write decides.
LEMMA PutDecides ==
    ASSUME NEW c, NEW t \in Traces(Bare), NEW d \in Good(c)
    PROVE  Put(t, d) \in Traces(c) /\ Now(Put(t, d)) = d
  <1>1. d \in Good(Bare)
    BY DEF Good, Bare
  <1>2. Put(t, d) \in Traces(Bare) /\ Now(Put(t, d)) = d
    BY <1>1, TracePut
  <1> QED
    BY <1>2 DEF Traces, Now

\* The empty list.
LEMMA EmptyList == \A A : <<>> \in Lists(A) /\ ToSet(<<>>) = {}
  BY DEF Lists, ToSet

\* The record of an unknown transaction, and of a new one.
LEMMA BlankRecords ==
    /\ NoRecord \in Rec /\ NoRecord.state = "Unregistered" /\ NoRecord.replaces = 0
    /\ NoRecord.broadcast = 0
    /\ NewRecord \in Rec /\ NewRecord.state = "ToDispatch" /\ NewRecord.replaces = 0
    /\ NewRecord.broadcast = 0
  <1>1. <<>> \in Lists(Ids) /\ <<>> \in Seq(Outputs)
    BY EmptyList
  <1>2. /\ 0 \in 0..MaxSpeedups /\ 0 \in 0..MaxRate /\ 0 \in 0..MaxHeight
        /\ 0 \in 0..(MaxHeight + MaxConfs) /\ 0 \in 0..RetryAttempts
    BY StoreAssumption, SpeedupNodeAssumption, SpeedupAssumption
  <1>3. "Unregistered" \in RecordState /\ "ToDispatch" \in RecordState
    BY DEF RecordState, TransactionState, Active
  <1>4. /\ NoRecord \in Rec /\ NoRecord.state = "Unregistered" /\ NoRecord.replaces = 0
        /\ NoRecord.broadcast = 0
    BY <1>1, <1>2, <1>3 DEF NoRecord, Rec
  <1> DEFINE r == NoRecord
  <1>5. NewRecord = [r EXCEPT !.state = "ToDispatch"]
    BY DEF NewRecord
  <1>6. r \in Rec /\ r.replaces = 0 /\ r.broadcast = 0
    BY <1>4
  <1> HIDE DEF r
  <1>7. /\ NewRecord \in Rec /\ NewRecord.state = "ToDispatch" /\ NewRecord.replaces = 0
        /\ NewRecord.broadcast = 0
    BY <1>3, <1>5, <1>6 DEF Rec
  <1> QED
    BY <1>4, <1>7

\* A settled or unlisted speedup leaves the SpeedupList.
LEMMA RemoveSpeedupGood ==
    ASSUME NEW c, NEW t \in Traces(c), NEW x,
           c.mode = "calm" /\ x \in Speedups => x \notin c.listed /\ Now(t).rec[x].state \notin Active
    PROVE  RemoveSpeedupFromList(t, x) \in Traces(c)
  <1> DEFINE d == Now(t)
             e == [d EXCEPT !.list = Without(@, x)]
  <1>1. /\ d \in Good(c)
        /\ c.mode = "calm" /\ x \in Speedups => x \notin c.listed /\ d.rec[x].state \notin Active
    BY TraceNow
  <1>2. RemoveSpeedupFromList(t, x) = Put(t, e)
    BY DEF RemoveSpeedupFromList
  <1> HIDE DEF d
  <1>3. e \in Good(c)
    BY <1>1, GoodUnlisted
  <1> HIDE DEF e
  <1> QED
    BY <1>2, <1>3, TracePut

\* remove_tx: what is not known fits every case.
LEMMA RemoveTxGood ==
    ASSUME NEW c, NEW t \in Traces(c), NEW x \in Ids,
           c.mode = "calm" /\ x \in Speedups => x \notin c.listed \cup c.sent
    PROVE  RemoveTx(t, x) \in Traces(c)
  <1> DEFINE u == UpdateTx(t, x, NoRecord)
  <1>1. NoRecord \in Rec /\ NoRecord.replaces = 0 /\ NoRecord.state = "Unregistered"
    BY BlankRecords
  <1>2. c.mode = "calm" /\ x \in Speedups => Fits(c, Now(t).list, x, NoRecord)
    BY <1>1 DEF Fits, Active
  <1>3. u \in Traces(c) /\ Now(u).rec[x] = NoRecord
    BY <1>1, <1>2, UpdateTxGood
  <1>4. RemoveTx(t, x) = RemoveSpeedupFromList(u, x)
    BY DEF RemoveTx
  <1> HIDE DEF u
  <1>5. Now(u).rec[x].state \notin Active
    BY <1>1, <1>3 DEF Active
  <1> QED
    BY <1>3, <1>4, <1>5, RemoveSpeedupGood

\* A new speedup: the record before the list entry.
LEMMA InsertSpeedupGood ==
    ASSUME NEW c, NEW t \in Traces(c), NEW s \in Speedups, NEW r \in Rec,
           c.mode = "calm" => /\ r.state = "ToDispatch" /\ s \in c.prebuilt
                              /\ s \notin c.sent \cup c.settled
    PROVE  /\ InsertSpeedup(t, s, r) \in Traces(c)
           /\ \A y \in Ids : Now(InsertSpeedup(t, s, r)).rec[y] = IF y = s THEN r ELSE Now(t).rec[y]
  <1> DEFINE d == Now(t)
             u == UpdateTx(t, s, r)
             e == Now(u)
             v == Append(e.list, s)
             w == [e EXCEPT !.list = v]
  <1>1. d \in Good(c) /\ d \in Store /\ t \in Traces(Bare)
    BY TraceNow, BareTraces
  <1>2. s \in Ids /\ s \notin Parents
    BY Names
  <1>3. u \in Traces(Bare) /\ e.list = d.list /\ \A y \in Ids : e.rec[y] = IF y = s THEN r ELSE d.rec[y]
    BY <1>1, <1>2, UpdateTxGood DEF Bare
  <1>4. InsertSpeedup(t, s, r) = IF Contains(d.list, s) THEN u ELSE Put(u, w)
    BY DEF InsertSpeedup
  <1>5. e \in Store /\ d.list \in Lists(Speedups) /\ d.list \in Seq(Speedups)
    BY <1>1, <1>3, TraceNow, StoreFields DEF Lists
  <1> HIDE DEF d, u
  <1>6. ASSUME NEW f \in Store, f.rec = e.rec, ToSet(f.list) = ToSet(d.list) \cup {s}
        PROVE  f \in Good(c)
    <2> SUFFICES ASSUME c.mode = "calm"  PROVE Calm(c, f)
      BY DEF Good
    <2>1. c.listed \subseteq ToSet(d.list) /\ \A x \in Speedups : Fits(c, d.list, x, d.rec[x])
      BY <1>1 DEF Good, Calm
    <2>2. \A x \in Speedups : f.rec[x] = IF x = s THEN r ELSE d.rec[x]
      BY <1>3, <1>6, Names
    <2>3. Fits(c, f.list, s, r)
      BY <1>6 DEF Fits
    <2>4. \A x \in Speedups : Fits(c, f.list, x, f.rec[x])
      BY <1>6, <2>1, <2>2, <2>3 DEF Fits
    <2> QED  BY <1>6, <2>1, <2>4 DEF Calm
  <1>7. CASE Contains(d.list, s)
    <2>1. ToSet(d.list) = ToSet(d.list) \cup {s}
      BY <1>5, <1>7, ToSetOfSeq DEF Contains
    <2>2. e \in Good(c)
      BY <1>3, <1>5, <1>6, <2>1
    <2>3. u \in Traces(c)
      BY <1>3, <2>2 DEF Traces, Now
    <2> QED  BY <1>3, <1>4, <1>7, <2>3 DEF d
  <1>8. CASE ~Contains(d.list, s)
    <2>1. s \notin ToSet(d.list)
      BY <1>5, <1>8, ToSetOfSeq DEF Contains
    <2>2. v \in Lists(Speedups) /\ ToSet(v) = ToSet(d.list) \cup {s}
      BY <1>3, <1>5, <2>1, ListAppend
    <2> HIDE DEF v
    <2>3. w \in Store /\ w.list = v /\ w.rec = e.rec
      BY <1>5, <2>2, WriteList
    <2> HIDE DEF w
    <2>4. w \in Good(c)
      BY <1>6, <2>2, <2>3
    <2>5. Put(u, w) \in Traces(c) /\ Now(Put(u, w)) = w
      BY <1>3, <2>4, PutDecides
    <2> QED  BY <1>3, <1>4, <1>8, <2>3, <2>5 DEF d
  <1> QED
    BY <1>7, <1>8

-----------------------------------------------------------------------------
(* PendingSpeedupParents. *)

\* A new value of PendingSpeedupParents.
LEMMA PutPsp ==
    ASSUME NEW c, NEW t \in Traces(c), NEW v \in Lists(Parents)
    PROVE  Put(t, [Now(t) EXCEPT !.psp = v]) \in Traces(c)
  <1> DEFINE d == Now(t)
             e == [d EXCEPT !.psp = v]
  <1>1. d \in Good(c) /\ d \in Store
    BY TraceNow
  <1> HIDE DEF d
  <1>2. e \in Store /\ e.rec = d.rec /\ e.list = d.list
    BY <1>1, WritePsp
  <1> HIDE DEF e
  <1>3. e \in Good(c)
    BY <1>1, <1>2, GoodElsewhere
  <1>4. Put(t, e) \in Traces(c)
    BY <1>3, TracePut
  <1> QED
    BY <1>4 DEF e, d

\* add_pending_speedup_parent lists a parent once.
LEMMA AddPendingGood ==
    ASSUME NEW c, NEW t \in Traces(c), NEW p \in Parents
    PROVE  AddPendingSpeedupParent(t, p) \in Traces(c)
  <1> DEFINE q == Now(t).psp
  <1>1. q \in Lists(Parents) /\ q \in Seq(Parents)
    BY TraceNow, StoreFields DEF Lists
  <1>2. AddPendingSpeedupParent(t, p) =
          IF Contains(q, p) THEN t ELSE Put(t, [Now(t) EXCEPT !.psp = Append(q, p)])
    BY DEF AddPendingSpeedupParent
  <1> HIDE DEF q
  <1>3. ASSUME ~Contains(q, p)  PROVE Append(q, p) \in Lists(Parents)
    <2>1. p \notin ToSet(q)
      BY <1>1, <1>3, ToSetOfSeq DEF Contains
    <2> QED  BY <1>1, <2>1, ListAppend
  <1> QED
    BY <1>2, <1>3, PutPsp

\* A list whose entries are in B is a list over B.
LEMMA ListNarrow ==
    ASSUME NEW A, NEW B, NEW q \in Lists(A), ToSet(q) \subseteq B
    PROVE  q \in Lists(B)
  <1>1. q \in Seq(A)
    BY DEF Lists
  <1>2. \A i \in 1..Len(q) : q[i] \in B
    BY <1>1, ToSetOfSeq
  <1>3. q \in Seq(B)
    BY <1>1, <1>2
  <1> QED
    BY <1>3 DEF Lists

\* prepend_pending_speedup_parents lists no parent twice.
LEMMA PrependGood ==
    ASSUME NEW c, NEW t \in Traces(c), NEW ps \in Lists(Ids)
    PROVE  PrependPendingSpeedupParents(t, ps) \in Traces(c)
  <1> DEFINE q == Now(t).psp
             missing == Where(ps, Parents \ ToSet(q))
  <1>1. q \in Lists(Parents)
    BY TraceNow, StoreFields
  <1>2. PrependPendingSpeedupParents(t, ps) = Put(t, [Now(t) EXCEPT !.psp = missing \o q])
    BY DEF PrependPendingSpeedupParents
  <1> HIDE DEF q
  <1>3. missing \in Lists(Ids) /\ ToSet(missing) \subseteq Parents \ ToSet(q)
    <2>1. ps \in Seq(Ids)
      BY DEF Lists
    <2>2. missing \in Lists(Ids) /\ ToSet(missing) = ToSet(ps) \cap (Parents \ ToSet(q))
      BY <2>1, WhereKeeps
    <2> HIDE DEF missing
    <2> QED  BY <2>2
  <1> HIDE DEF missing
  <1>4. missing \in Lists(Parents)
    BY <1>3, ListNarrow
  <1>5. missing \o q \in Lists(Parents)
    BY <1>1, <1>3, <1>4, ListConcat
  <1> QED
    BY <1>2, <1>5, PutPsp

\* The known ones of a list of parents are a list.
LEMMA KnownParentsList ==
    ASSUME NEW d, NEW xs \in Lists(Ids)
    PROVE  KnownParents(d, xs) \in Lists(Ids)
  BY WhereKeeps DEF KnownParents, Lists

\* remove_pending_speedup_parent.
LEMMA RemovePendingGood ==
    ASSUME NEW c, NEW t \in Traces(c), NEW p
    PROVE  RemovePendingSpeedupParent(t, p) \in Traces(c)
  <1> DEFINE q == Now(t).psp
  <1>1. q \in Lists(Parents)
    BY TraceNow, StoreFields
  <1>2. RemovePendingSpeedupParent(t, p) = Put(t, [Now(t) EXCEPT !.psp = Without(q, p)])
    BY DEF RemovePendingSpeedupParent
  <1> HIDE DEF q
  <1>3. Without(q, p) \in Lists(Parents)
    BY <1>1, WithoutKeeps
  <1> QED
    BY <1>2, <1>3, PutPsp

\* SetToSeq enumerates a finite set.
LEMMA SetToSeqList ==
    ASSUME NEW S, IsFiniteSet(S)
    PROVE  SetToSeq(S) \in Seq(S)
  <1> DEFINE n == Cardinality(S)
             f == SetToSeq(S)
  <1>1. n \in Nat /\ \E g \in [1..n -> S] : IsInjective(g)
    BY FS_CardinalityType DEF ExistsBijection, Bijection, Injection
  <1>2. f \in [1..n -> S]
    BY <1>1 DEF SetToSeq
  <1> HIDE DEF f, n
  <1>3. f \in Seq(S)
    BY <1>1, <1>2
  <1> QED
    BY <1>3 DEF f

\* The sets a pass walks over are finite.
LEMMA SubsetsOfIds ==
    ASSUME NEW S \in SUBSET Ids
    PROVE  IsFiniteSet(S) /\ SetToSeq(S) \in Seq(S)
  <1>1. IsFiniteSet(Parents) /\ IsFiniteSet(Speedups)
    BY StoreAssumption, FS_Interval DEF Speedups
  <1>2. IsFiniteSet(Ids)
    BY <1>1, FS_Union DEF Ids
  <1>3. IsFiniteSet(S)
    BY <1>2, FS_Subset
  <1> QED
    BY <1>3, SetToSeqList

PruneLoop(t, seq) ==
    FoldLeft(LAMBDA acc, p : IF Now(acc).rec[p].state \in {"Failed", "Unregistered"}
                             THEN RemovePendingSpeedupParent(acc, p) ELSE acc, t, seq)

\* The loop of PruneParents.
LEMMA PruneFold ==
    ASSUME NEW A, NEW seq \in Seq(A), NEW T, NEW t \in T,
           \A acc \in T, x \in A :
               (IF Now(acc).rec[x].state \in {"Failed", "Unregistered"}
                THEN RemovePendingSpeedupParent(acc, x) ELSE acc) \in T
    PROVE  PruneLoop(t, seq) \in T
  <1> DEFINE n == Len(seq)
             Op(acc, k) == (IF Now(acc).rec[seq[k]].state \in {"Failed", "Unregistered"}
                            THEN RemovePendingSpeedupParent(acc, seq[k]) ELSE acc)
             Solves(g) == g = [s \in SUBSET (DOMAIN seq) |->
                                 IF s = {} THEN t ELSE Op(g[s \ {Max(s)}], Max(s))]
             step == [p \in T \X (1..n) |-> Op(p[1], p[2])]
             iter == CHOOSE g : Solves(g)
  <1>1. n \in Nat /\ DOMAIN seq = 1..n /\ \A k \in 1..n : seq[k] \in A
    OBVIOUS
  <1>2. PruneLoop(t, seq) = iter[DOMAIN seq]
    BY Zenon DEF PruneLoop, FoldLeft, MapThenFoldSet
  <1>3. \A acc \in T, k \in 1..n : Op(acc, k) \in T
    BY <1>1
  <1> HIDE DEF n, Op
  <1>4. step \in [T \X (1..n) -> T] /\ \A acc \in T, k \in 1..n : step[<<acc, k>>] = Op(acc, k)
    BY <1>3
  <1> HIDE DEF step
  <1>5. PICK g \in [SUBSET (1..n) -> T] : FoldEquation(g, n, t, step)
    BY <1>1, <1>4, FoldExists
  <1>6. Solves(g)
    <2>1. ASSUME NEW s \in SUBSET (1..n), s # {}
          PROVE  step[<<g[s \ {Max(s)}], Max(s)>>] = Op(g[s \ {Max(s)}], Max(s))
      <3>1. Max(s) \in s /\ g[s \ {Max(s)}] \in T
        BY <1>1, <2>1, MaxExists
      <3> QED  BY <1>4, <3>1
    <2> QED  BY <1>1, <1>5, <2>1 DEF FoldEquation
  <1>7. Solves(iter)
    BY <1>6
  <1> HIDE DEF iter
  <1>8. iter[{}] = t /\ \A s \in SUBSET (1..n) : s # {} => iter[s] = Op(iter[s \ {Max(s)}], Max(s))
    BY <1>1, <1>7
  <1>9. ASSUME NEW k \in 1..n, iter[1..(k - 1)] \in T  PROVE iter[1..k] \in T
    <2>1. /\ 1..k \in SUBSET (1..n) /\ 1..k # {}
          /\ Max(1..k) = k /\ (1..k) \ {Max(1..k)} = 1..(k - 1)
      BY <1>1, IntervalUnfolds
    <2>2. iter[1..k] = Op(iter[1..(k - 1)], k)
      BY <1>8, <2>1
    <2> QED  BY <1>3, <1>9, <2>2
  <1>10. iter[1..n] \in T
    BY <1>1, <1>8, <1>9, LoopStays
  <1> QED
    BY <1>1, <1>2, <1>10

\* get_pending_speedup_parents drops dead entries.
LEMMA PruneParentsGood ==
    ASSUME NEW c, NEW t \in Traces(c)
    PROVE  PruneParents(t) \in Traces(c)
  <1> DEFINE q == Now(t).psp
             T == Traces(c)
  <1>1. q \in Seq(Parents)
    BY TraceNow, StoreFields DEF Lists
  <1>2. PruneParents(t) = PruneLoop(t, q)
    BY Zenon DEF PruneParents, PruneLoop
  <1>3. t \in T /\ \A acc \in T, p \in Parents :
          (IF Now(acc).rec[p].state \in {"Failed", "Unregistered"}
           THEN RemovePendingSpeedupParent(acc, p) ELSE acc) \in T
    BY RemovePendingGood
  <1> HIDE DEF q, T
  <1>4. PruneParents(t) \in T
    BY <1>1, <1>2, <1>3, PruneFold
  <1> QED
    BY <1>4 DEF T

EvictLoop(t, seq) ==
    FoldLeft(LAMBDA acc, x : AddNews(RemoveTx(acc, x), "TransactionEvicted", x), t, seq)

\* The loop of EvictStaleTxs.
LEMMA EvictFold ==
    ASSUME NEW A, NEW seq \in Seq(A), NEW T, NEW t \in T,
           \A acc \in T, x \in A : AddNews(RemoveTx(acc, x), "TransactionEvicted", x) \in T
    PROVE  EvictLoop(t, seq) \in T
  <1> DEFINE n == Len(seq)
             Op(acc, k) == AddNews(RemoveTx(acc, seq[k]), "TransactionEvicted", seq[k])
             Solves(g) == g = [s \in SUBSET (DOMAIN seq) |->
                                 IF s = {} THEN t ELSE Op(g[s \ {Max(s)}], Max(s))]
             step == [p \in T \X (1..n) |-> Op(p[1], p[2])]
             iter == CHOOSE g : Solves(g)
  <1>1. n \in Nat /\ DOMAIN seq = 1..n /\ \A k \in 1..n : seq[k] \in A
    OBVIOUS
  <1>2. EvictLoop(t, seq) = iter[DOMAIN seq]
    BY Zenon DEF EvictLoop, FoldLeft, MapThenFoldSet
  <1>3. \A acc \in T, k \in 1..n : Op(acc, k) \in T
    BY <1>1
  <1> HIDE DEF n, Op
  <1>4. step \in [T \X (1..n) -> T] /\ \A acc \in T, k \in 1..n : step[<<acc, k>>] = Op(acc, k)
    BY <1>3
  <1> HIDE DEF step
  <1>5. PICK g \in [SUBSET (1..n) -> T] : FoldEquation(g, n, t, step)
    BY <1>1, <1>4, FoldExists
  <1>6. Solves(g)
    <2>1. ASSUME NEW s \in SUBSET (1..n), s # {}
          PROVE  step[<<g[s \ {Max(s)}], Max(s)>>] = Op(g[s \ {Max(s)}], Max(s))
      <3>1. Max(s) \in s /\ g[s \ {Max(s)}] \in T
        BY <1>1, <2>1, MaxExists
      <3> QED  BY <1>4, <3>1
    <2> QED  BY <1>1, <1>5, <2>1 DEF FoldEquation
  <1>7. Solves(iter)
    BY <1>6
  <1> HIDE DEF iter
  <1>8. iter[{}] = t /\ \A s \in SUBSET (1..n) : s # {} => iter[s] = Op(iter[s \ {Max(s)}], Max(s))
    BY <1>1, <1>7
  <1>9. ASSUME NEW k \in 1..n, iter[1..(k - 1)] \in T  PROVE iter[1..k] \in T
    <2>1. /\ 1..k \in SUBSET (1..n) /\ 1..k # {}
          /\ Max(1..k) = k /\ (1..k) \ {Max(1..k)} = 1..(k - 1)
      BY <1>1, IntervalUnfolds
    <2>2. iter[1..k] = Op(iter[1..(k - 1)], k)
      BY <1>8, <2>1
    <2> QED  BY <1>3, <1>9, <2>2
  <1>10. iter[1..n] \in T
    BY <1>1, <1>8, <1>9, LoopStays
  <1> QED
    BY <1>1, <1>2, <1>10

\* evict_stale_txs, at the start of a tick, when nothing is being sent.
LEMMA EvictStaleTxsGood ==
    ASSUME NEW c, NEW t \in Traces(c), NEW h, c.mode = "calm" => c.listed = {} /\ c.sent = {}
    PROVE  EvictStaleTxs(t, h) \in Traces(c)
  <1> DEFINE q == SetToSeq(StaleTxs(Now(t), h))
             T == Traces(c)
  <1>1. q \in Seq(Ids)
    <2>1. StaleTxs(Now(t), h) \in SUBSET Ids
      BY DEF StaleTxs
    <2>2. q \in Seq(StaleTxs(Now(t), h))
      BY <2>1, SubsetsOfIds
    <2> HIDE DEF q
    <2> QED  BY <2>1, <2>2
  <1>2. EvictStaleTxs(t, h) = EvictLoop(t, q)
    BY Zenon DEF EvictStaleTxs, EvictLoop
  <1>3. ASSUME NEW acc \in Traces(c), NEW x \in Ids
        PROVE  AddNews(RemoveTx(acc, x), "TransactionEvicted", x) \in Traces(c)
    <2>1. RemoveTx(acc, x) \in Traces(c)
      BY RemoveTxGood
    <2>2. "TransactionEvicted" \in Kinds
      BY DEF Kinds
    <2> QED  BY <2>1, <2>2, AddNewsGood
  <1>4. t \in T /\ \A acc \in T, x \in Ids :
          AddNews(RemoveTx(acc, x), "TransactionEvicted", x) \in T
    BY <1>3
  <1> HIDE DEF q, T
  <1>5. EvictStaleTxs(t, h) \in T
    BY <1>1, <1>2, <1>4, EvictFold
  <1> QED
    BY <1>5 DEF T

-----------------------------------------------------------------------------
(* Funding. *)

\* A trace may be continued with a changed funding record.
LEMMA PutFunds ==
    ASSUME NEW c, NEW t \in Traces(c), NEW o \in Outputs, NEW v \in Marks
    PROVE  /\ Put(t, [Now(t) EXCEPT !.funds[o] = v]) \in Traces(c)
           /\ Now(Put(t, [Now(t) EXCEPT !.funds[o] = v])).rec = Now(t).rec
           /\ Now(Put(t, [Now(t) EXCEPT !.funds[o] = v])).list = Now(t).list
  <1> DEFINE d == Now(t)
             e == [d EXCEPT !.funds[o] = v]
  <1>1. d \in Good(c) /\ d \in Store
    BY TraceNow
  <1> HIDE DEF d
  <1>2. e \in Store /\ e.rec = d.rec /\ e.list = d.list
    BY <1>1, WriteFunds
  <1> HIDE DEF e
  <1>3. e \in Good(c)
    BY <1>1, <1>2, GoodElsewhere
  <1>4. Put(t, e) \in Traces(c) /\ Now(Put(t, e)) = e
    BY <1>3, TracePut
  <1> QED
    BY <1>2, <1>4 DEF e, d

\* A trace may be continued with a changed funding queue.
LEMMA PutQueue ==
    ASSUME NEW c, NEW t \in Traces(c), NEW v \in Seq(Outputs)
    PROVE  /\ Put(t, [Now(t) EXCEPT !.queue = v]) \in Traces(c)
           /\ Now(Put(t, [Now(t) EXCEPT !.queue = v])).rec = Now(t).rec
  <1> DEFINE d == Now(t)
             e == [d EXCEPT !.queue = v]
  <1>1. d \in Good(c) /\ d \in Store
    BY TraceNow
  <1> HIDE DEF d
  <1>2. e \in Store /\ e.rec = d.rec /\ e.list = d.list
    BY <1>1, WriteQueue
  <1> HIDE DEF e
  <1>3. e \in Good(c)
    BY <1>1, <1>2, GoodElsewhere
  <1>4. Put(t, e) \in Traces(c) /\ Now(Put(t, e)) = e
    BY <1>3, TracePut
  <1> QED
    BY <1>2, <1>4 DEF e, d

\* set_spent marks a funding record or a speedup.
LEMMA SetSpentGood ==
    ASSUME NEW c, NEW t \in Traces(c), NEW o \in Outputs, NEW b \in BOOLEAN
    PROVE  SetSpent(t, o, b) \in Traces(c)
  <1> DEFINE d == Now(t)
             r == d.rec[o]
             e == [r EXCEPT !.spent = b]
  <1>1. d \in Good(c) /\ d \in Store
    BY TraceNow
  <1>2. CASE d.funds[o] # "none"
    <2> DEFINE v == IF b THEN "spent" ELSE "free"
    <2>1. v \in Marks
      BY DEF Marks
    <2>2. SetSpent(t, o, b) = Put(t, [Now(t) EXCEPT !.funds[o] = v])
      BY <1>2 DEF SetSpent
    <2> HIDE DEF v
    <2> QED  BY <2>1, <2>2, PutFunds
  <1>3. CASE d.funds[o] = "none" /\ o \in Speedups /\ Known(d, o)
    <2>1. SetSpent(t, o, b) = UpdateTx(t, o, e)
      BY <1>3 DEF SetSpent
    <2>2. r \in Rec /\ o \in Ids /\ o \notin Parents
      BY <1>1, <1>3, Names, StoreFields
    <2>3. Now(t) = d /\ r = d.rec[o]
      OBVIOUS
    <2> HIDE DEF d, r
    <2>4. e \in Rec /\ e.state = r.state /\ e.broadcast = r.broadcast
      BY <2>2 DEF Rec
    <2> HIDE DEF e
    <2>5. c.mode = "calm" => Fits(c, d.list, o, e)
      BY <1>1, <1>3, <2>3, <2>4, Refit
    <2> QED  BY <2>1, <2>2, <2>3, <2>4, <2>5, UpdateTxGood
  <1>4. CASE d.funds[o] = "none" /\ ~(o \in Speedups /\ Known(d, o))
    BY <1>4 DEF SetSpent
  <1> QED
    BY <1>2, <1>3, <1>4

\* The loop of ReleaseMarks.
LEMMA ReleaseFold ==
    ASSUME NEW A, NEW seq \in Seq(A), NEW T, NEW t \in T,
           \A acc \in T, x \in A : SetSpent(acc, x, FALSE) \in T
    PROVE  ReleaseMarks(t, seq) \in T
  <1> DEFINE n == Len(seq)
             Op(acc, k) == SetSpent(acc, seq[k], FALSE)
             Solves(g) == g = [s \in SUBSET (DOMAIN seq) |->
                                 IF s = {} THEN t ELSE Op(g[s \ {Max(s)}], Max(s))]
             step == [p \in T \X (1..n) |-> Op(p[1], p[2])]
             iter == CHOOSE g : Solves(g)
  <1>1. n \in Nat /\ DOMAIN seq = 1..n /\ \A k \in 1..n : seq[k] \in A
    OBVIOUS
  <1>2. ReleaseMarks(t, seq) = iter[DOMAIN seq]
    BY Zenon DEF ReleaseMarks, FoldLeft, MapThenFoldSet
  <1>3. \A acc \in T, k \in 1..n : Op(acc, k) \in T
    BY <1>1
  <1> HIDE DEF n, Op
  <1>4. step \in [T \X (1..n) -> T] /\ \A acc \in T, k \in 1..n : step[<<acc, k>>] = Op(acc, k)
    BY <1>3
  <1> HIDE DEF step
  <1>5. PICK g \in [SUBSET (1..n) -> T] : FoldEquation(g, n, t, step)
    BY <1>1, <1>4, FoldExists
  <1>6. Solves(g)
    <2>1. ASSUME NEW s \in SUBSET (1..n), s # {}
          PROVE  step[<<g[s \ {Max(s)}], Max(s)>>] = Op(g[s \ {Max(s)}], Max(s))
      <3>1. Max(s) \in s /\ g[s \ {Max(s)}] \in T
        BY <1>1, <2>1, MaxExists
      <3> QED  BY <1>4, <3>1
    <2> QED  BY <1>1, <1>5, <2>1 DEF FoldEquation
  <1>7. Solves(iter)
    BY <1>6
  <1> HIDE DEF iter
  <1>8. iter[{}] = t /\ \A s \in SUBSET (1..n) : s # {} => iter[s] = Op(iter[s \ {Max(s)}], Max(s))
    BY <1>1, <1>7
  <1>9. ASSUME NEW k \in 1..n, iter[1..(k - 1)] \in T  PROVE iter[1..k] \in T
    <2>1. /\ 1..k \in SUBSET (1..n) /\ 1..k # {}
          /\ Max(1..k) = k /\ (1..k) \ {Max(1..k)} = 1..(k - 1)
      BY <1>1, IntervalUnfolds
    <2>2. iter[1..k] = Op(iter[1..(k - 1)], k)
      BY <1>8, <2>1
    <2> QED  BY <1>3, <1>9, <2>2
  <1>10. iter[1..n] \in T
    BY <1>1, <1>8, <1>9, LoopStays
  <1> QED
    BY <1>1, <1>2, <1>10

\* Releasing marks.
LEMMA ReleaseMarksGood ==
    ASSUME NEW c, NEW t \in Traces(c), NEW outputs \in Seq(Outputs)
    PROVE  ReleaseMarks(t, outputs) \in Traces(c)
  <1> DEFINE T == Traces(c)
  <1>2. t \in T /\ \A acc \in T, o \in Outputs : SetSpent(acc, o, FALSE) \in T
    BY SetSpentGood
  <1> HIDE DEF T
  <1>3. ReleaseMarks(t, outputs) \in T
    BY <1>2, ReleaseFold
  <1> QED
    BY <1>3 DEF T

\* append_funding.
LEMMA AppendFundingGood ==
    ASSUME NEW c, NEW t \in Traces(c), NEW o \in Outputs
    PROVE  AppendFunding(t, o) \in Traces(c)
  <1> DEFINE stored == Put(t, [Now(t) EXCEPT !.funds[o] = "free"])
  <1>1. stored \in Traces(c)
    BY PutFunds DEF Marks
  <1>2. AppendFunding(t, o) =
          IF Contains(Now(t).queue, o) THEN stored
          ELSE Put(stored, [Now(stored) EXCEPT !.queue = Append(Now(stored).queue, o)])
    BY DEF AppendFunding
  <1> HIDE DEF stored
  <1>3. Append(Now(stored).queue, o) \in Seq(Outputs)
    BY <1>1, TraceNow, StoreFields
  <1> QED
    BY <1>1, <1>2, <1>3, PutQueue

\* The least element, which SelectInSeq finds.
LEMMA MinExists ==
    ASSUME NEW S \in SUBSET Nat, S # {}
    PROVE  Min(S) \in S /\ \A y \in S : Min(S) <= y
  <1>1. PICK x \in S : \A y \in Nat : <<y, x>> \in OpToRel(<, Nat) => ~(y \in S)
    BY NatWellFounded, WFMin
  <1>2. \A y \in Nat : y < x => y \notin S
    BY <1>1 DEF OpToRel
  <1>3. \A y \in S : x <= y
    BY <1>2
  <1> QED
    BY <1>3 DEF Min

\* A prefix whose entries are all kept stays a prefix.
LEMMA WherePrefix ==
    ASSUME NEW A, NEW seq \in Seq(A), NEW S, NEW m \in 0..Len(seq), \A i \in 1..m : seq[i] \in S
    PROVE  Len(Where(seq, S)) >= m
  <1> DEFINE n == Len(seq)
  <1>1. n \in Nat /\ m \in Nat /\ m <= n /\ \A k \in 1..n : seq[k] \in A
    OBVIOUS
  <1>2. PICK g \in [0..n -> Seq(A)] : WhereRun(g, seq, S)
    BY WhereRuns
  <1>3. /\ g[0] = <<>>
        /\ \A k \in 1..n : g[k] = IF seq[k] \in S THEN Append(g[k - 1], seq[k]) ELSE g[k - 1]
        /\ Where(seq, S) = g[n]
    BY <1>2 DEF WhereRun
  <1> DEFINE Least(k) == IF k < m THEN k ELSE m
             D == {k \in 0..n : Len(g[k]) >= Least(k)}
  <1>4. 0 \in D
    BY <1>1, <1>3
  <1>5. ASSUME NEW k \in 1..n, k - 1 \in D  PROVE k \in D
    <2>1. k - 1 \in 0..n /\ k \in 0..n /\ Len(g[k - 1]) >= Least(k - 1)
      BY <1>1, <1>5
    <2>2. g[k - 1] \in Seq(A) /\ seq[k] \in A
      BY <1>1, <1>2, <2>1
    <2>3. CASE seq[k] \in S
      <3>1. g[k] = Append(g[k - 1], seq[k])
        BY <1>3, <2>3
      <3>2. Len(g[k]) = Len(g[k - 1]) + 1
        BY <2>2, <3>1
      <3> QED  BY <1>1, <2>1, <3>2
    <2>4. CASE seq[k] \notin S
      <3>1. g[k] = g[k - 1] /\ k > m
        BY <1>1, <1>3, <2>4
      <3> QED  BY <1>1, <2>1, <3>1
    <2> QED  BY <2>3, <2>4
  <1> HIDE DEF D
  <1>6. 0..n \subseteq D
    BY <1>1, <1>4, <1>5, IndexInduction
  <1>7. Len(g[n]) >= Least(n)
    BY <1>1, <1>6 DEF D
  <1> QED
    BY <1>1, <1>3, <1>7

\* A sequence reversed is over the same set.
LEMMA ReverseSeq ==
    ASSUME NEW A, NEW seq \in Seq(A)
    PROVE  Reverse(seq) \in Seq(A)
  <1>1. Len(seq) \in Nat /\ \A i \in 1..Len(seq) : Len(seq) - i + 1 \in 1..Len(seq)
    OBVIOUS
  <1> QED
    BY <1>1 DEF Reverse

UnmarkLoop(t, seq) ==
    FoldLeft(LAMBDA acc, o : Put(acc, [Now(acc) EXCEPT !.funds[o] = "none"]), t, seq)

\* The loop that deletes the consumed funding records.
LEMMA UnmarkFold ==
    ASSUME NEW A, NEW seq \in Seq(A), NEW T, NEW t \in T,
           \A acc \in T, x \in A : Put(acc, [Now(acc) EXCEPT !.funds[x] = "none"]) \in T
    PROVE  UnmarkLoop(t, seq) \in T
  <1> DEFINE n == Len(seq)
             Op(acc, k) == Put(acc, [Now(acc) EXCEPT !.funds[seq[k]] = "none"])
             Solves(g) == g = [s \in SUBSET (DOMAIN seq) |->
                                 IF s = {} THEN t ELSE Op(g[s \ {Max(s)}], Max(s))]
             step == [p \in T \X (1..n) |-> Op(p[1], p[2])]
             iter == CHOOSE g : Solves(g)
  <1>1. n \in Nat /\ DOMAIN seq = 1..n /\ \A k \in 1..n : seq[k] \in A
    OBVIOUS
  <1>2. UnmarkLoop(t, seq) = iter[DOMAIN seq]
    BY Zenon DEF UnmarkLoop, FoldLeft, MapThenFoldSet
  <1>3. \A acc \in T, k \in 1..n : Op(acc, k) \in T
    BY <1>1
  <1> HIDE DEF n, Op
  <1>4. step \in [T \X (1..n) -> T] /\ \A acc \in T, k \in 1..n : step[<<acc, k>>] = Op(acc, k)
    BY <1>3
  <1> HIDE DEF step
  <1>5. PICK g \in [SUBSET (1..n) -> T] : FoldEquation(g, n, t, step)
    BY <1>1, <1>4, FoldExists
  <1>6. Solves(g)
    <2>1. ASSUME NEW s \in SUBSET (1..n), s # {}
          PROVE  step[<<g[s \ {Max(s)}], Max(s)>>] = Op(g[s \ {Max(s)}], Max(s))
      <3>1. Max(s) \in s /\ g[s \ {Max(s)}] \in T
        BY <1>1, <2>1, MaxExists
      <3> QED  BY <1>4, <3>1
    <2> QED  BY <1>1, <1>5, <2>1 DEF FoldEquation
  <1>7. Solves(iter)
    BY <1>6
  <1> HIDE DEF iter
  <1>8. iter[{}] = t /\ \A s \in SUBSET (1..n) : s # {} => iter[s] = Op(iter[s \ {Max(s)}], Max(s))
    BY <1>1, <1>7
  <1>9. ASSUME NEW k \in 1..n, iter[1..(k - 1)] \in T  PROVE iter[1..k] \in T
    <2>1. /\ 1..k \in SUBSET (1..n) /\ 1..k # {}
          /\ Max(1..k) = k /\ (1..k) \ {Max(1..k)} = 1..(k - 1)
      BY <1>1, IntervalUnfolds
    <2>2. iter[1..k] = Op(iter[1..(k - 1)], k)
      BY <1>8, <2>1
    <2> QED  BY <1>3, <1>9, <2>2
  <1>10. iter[1..n] \in T
    BY <1>1, <1>8, <1>9, LoopStays
  <1> QED
    BY <1>1, <1>2, <1>10

\* What the speedups spend.
TxShape ==
    /\ DOMAIN tx = Speedups
    /\ \A s \in Speedups : tx[s].funding \in Seq(Outputs) /\ tx[s].anchors \in Lists(Parents)

\* replace_funding_on_finalize: the speedup it unlists is settled.
LEMMA ReplaceFundingGood ==
    ASSUME TxShape, NEW c, NEW t \in Traces(c), NEW s \in Speedups,
           c.mode = "calm" => s \in c.settled \ c.listed
    PROVE  ReplaceFundingOnFinalize(t, s) \in Traces(c)
  <1> DEFINE d == Now(t)
             q == d.queue
             consumed == ToSet(tx[s].funding)
             kept == Where(q, Outputs \ consumed)
             found == {i \in 1..Len(q) : q[i] \in consumed}
             position == IF found # {} THEN Min(found) ELSE 0
             removed == UnmarkLoop(t, Reverse(Where(q, consumed)))
             v == ChangeRecord(d.rec[s])
             stored == Put(removed, [Now(removed) EXCEPT !.funds[s] = v])
             w == InsertAt(kept, position, s)
             queued == Put(stored, [Now(stored) EXCEPT !.queue = w])
  <1>1. ReplaceFundingOnFinalize(t, s) =
          IF ~Known(d, s) \/ position = 0 THEN t ELSE RemoveSpeedupFromList(queued, s)
    BY Zenon DEF ReplaceFundingOnFinalize, SelectInSeq, UnmarkLoop
  <1>2. q \in Seq(Outputs) /\ s \in Outputs /\ v \in Marks
    BY TraceNow, StoreFields, Names DEF ChangeRecord, Marks
  <1> HIDE DEF q, consumed, v, d
  <1>3. kept \in Seq(Outputs) /\ Where(q, consumed) \in Seq(Outputs)
    BY <1>2, WhereKeeps
  <1>4. removed \in Traces(c)
    <2> DEFINE T == Traces(c)
               r == Reverse(Where(q, consumed))
    <2>1. r \in Seq(Outputs)
      BY <1>3, ReverseSeq
    <2>2. t \in T /\ \A acc \in T, o \in Outputs :
            Put(acc, [Now(acc) EXCEPT !.funds[o] = "none"]) \in T
      BY PutFunds DEF Marks
    <2>3. removed = UnmarkLoop(t, r)
      OBVIOUS
    <2> HIDE DEF T, r, removed
    <2>4. removed \in T
      BY <2>1, <2>2, <2>3, UnmarkFold
    <2> QED  BY <2>4 DEF T
  <1> HIDE DEF removed
  <1>5. stored \in Traces(c)
    BY <1>2, <1>4, PutFunds
  <1> HIDE DEF stored
  <1>6. CASE ~Known(d, s) \/ position = 0
    BY <1>1, <1>6
  <1>7. CASE ~(~Known(d, s) \/ position = 0)
    <2>1. found # {} /\ found \in SUBSET Nat /\ Len(q) \in Nat /\ position = Min(found)
      BY <1>2, <1>7
    <2>2. position \in found /\ \A i \in found : position <= i
      BY <2>1, MinExists
    <2> HIDE DEF position
    <2>3. position \in 1..Len(q) /\ position - 1 \in 0..Len(q)
          /\ \A i \in 1..(position - 1) : q[i] \in Outputs \ consumed
      <3>1. position \in 1..Len(q)
        BY <2>2
      <3>2. ASSUME NEW i \in 1..(position - 1)  PROVE q[i] \in Outputs \ consumed
        <4>1. i \in 1..Len(q) /\ ~(position <= i)
          BY <2>1, <3>1
        <4>2. i \notin found
          BY <2>2, <4>1
        <4> QED  BY <1>2, <4>1, <4>2
      <3> QED  BY <2>1, <3>1, <3>2
    <2>4. Len(kept) >= position - 1
      BY <1>2, <2>3, WherePrefix
    <2> HIDE DEF kept
    <2>5. w \in Seq(Outputs)
      <3>1. Len(kept) \in Nat /\ position \in 1..(Len(kept) + 1) /\ 1 \in 1..(Len(kept) + 1)
            /\ position - 1 \in (1 - 1)..Len(kept) /\ Len(kept) \in (position - 1)..Len(kept)
        BY <1>3, <2>1, <2>3, <2>4
      <3>2. SubSeq(kept, 1, position - 1) \in Seq(Outputs)
            /\ SubSeq(kept, position, Len(kept)) \in Seq(Outputs)
        BY <1>3, <3>1, SubSeqProperties
      <3> QED  BY <1>2, <3>2 DEF InsertAt
    <2> HIDE DEF w
    <2>6. queued \in Traces(c)
      BY <1>5, <2>5, PutQueue
    <2> HIDE DEF queued
    <2>7. ASSUME c.mode = "calm"  PROVE s \notin c.listed /\ Now(queued).rec[s].state \notin Active
      <3>1. Fits(c, Now(queued).list, s, Now(queued).rec[s])
        BY <2>6, <2>7, TraceNow DEF Good, Calm
      <3> QED  BY <2>7, <3>1 DEF Fits
    <2> QED  BY <1>1, <1>7, <2>6, <2>7, RemoveSpeedupGood
  <1> QED
    BY <1>6, <1>7

-----------------------------------------------------------------------------
(* Review. *)

ChainEquation(g, d, s) ==
    g = [n \in 1..MaxSpeedups |->
           IF n = 1 THEN <<d.rec[s].replaces>>
           ELSE LET older == d.rec[Last(g[n - 1])].replaces
                IN  IF older = 0 THEN g[n - 1] ELSE Append(g[n - 1], older)]

\* Every predecessor of a replacement is in a set that holds with each speedup
\* what it replaces.
LEMMA ReplacedChainIn ==
    ASSUME NEW d \in Store, NEW s \in Speedups, NEW M, d.rec[s].replaces \in M \cup {0},
           \A r \in M : d.rec[r].replaces \in M \cup {0}
    PROVE  ReplacedChain(d, s) \in Seq(M)
  <1>1. CASE ~IsRbf(d.rec[s])
    BY <1>1 DEF ReplacedChain
  <1>2. CASE IsRbf(d.rec[s])
    <2> DEFINE T == {q \in Seq(M) : q # <<>>}
               m == MaxSpeedups - 1
               Longer(q) == LET older == d.rec[Last(q)].replaces
                            IN  IF older = 0 THEN q ELSE Append(q, older)
               step == [p \in T \X (1..m) |-> Longer(p[1])]
               base == <<d.rec[s].replaces>>
               chain == CHOOSE g : ChainEquation(g, d, s)
    <2>1. ReplacedChain(d, s) = chain[MaxSpeedups]
      BY <1>2, Zenon DEF ReplacedChain, ChainEquation
    <2>2. \A r \in M : d.rec[r].replaces = 0 \/ d.rec[r].replaces \in M
      OBVIOUS
    <2>3. base \in T
      BY <1>2 DEF IsRbf
    <2>4. ASSUME NEW q \in T  PROVE Longer(q) \in T
      <3>1. q \in Seq(M) /\ Last(q) \in M
        BY DEF Last
      <3>2. d.rec[Last(q)].replaces = 0 \/ d.rec[Last(q)].replaces \in M
        BY <2>2, <3>1
      <3> DEFINE older == d.rec[Last(q)].replaces
      <3>3. older = 0 \/ older \in M
        BY <3>2
      <3>4. Longer(q) = IF older = 0 THEN q ELSE Append(q, older)
        OBVIOUS
      <3> HIDE DEF older, Longer
      <3>5. ASSUME older \in M  PROVE Append(q, older) \in T
        <4>1. Append(q, older) \in Seq(M) /\ Append(q, older) # <<>>
          BY <3>1, <3>5
        <4> QED  BY <4>1
      <3> HIDE DEF T
      <3> QED  BY <3>3, <3>4, <3>5
    <2> HIDE DEF T, Longer
    <2>5. m \in Nat /\ MaxSpeedups \in Nat /\ MaxSpeedups >= 1
      BY StoreAssumption
    <2>6. step \in [T \X (1..m) -> T] /\ \A q \in T, k \in 1..m : step[<<q, k>>] = Longer(q)
      BY <2>4
    <2> HIDE DEF step, m, base
    <2>7. PICK f \in [0..m -> T] : IsRun(f, m, base, step)
      BY <2>3, <2>5, <2>6, RunExists
    <2> DEFINE g == [n \in 1..MaxSpeedups |-> f[n - 1]]
    <2>8. ASSUME NEW n \in 1..MaxSpeedups  PROVE g[n] = IF n = 1 THEN base ELSE Longer(g[n - 1])
      <3>1. CASE n = 1
        BY <2>5, <2>7, <3>1 DEF IsRun
      <3>2. CASE n # 1
        <4>1. n - 1 \in 1..m /\ n - 1 \in 1..MaxSpeedups /\ (n - 1) - 1 \in 0..m
          BY <2>5, <3>2 DEF m
        <4>2. g[n] = f[n - 1] /\ g[n - 1] = f[(n - 1) - 1]
          BY <4>1
        <4>3. f[n - 1] = step[<<f[(n - 1) - 1], n - 1>>]
          BY <2>7, <4>1 DEF IsRun
        <4>4. f[(n - 1) - 1] \in T
          BY <2>7, <4>1
        <4>5. f[n - 1] = Longer(f[(n - 1) - 1])
          BY <2>6, <4>1, <4>3, <4>4
        <4> HIDE DEF g
        <4> QED  BY <3>2, <4>2, <4>5
      <3> QED  BY <3>1, <3>2
    <2>9. g = [n \in 1..MaxSpeedups |-> g[n]]
      OBVIOUS
    <2> HIDE DEF g
    <2>10. g = [n \in 1..MaxSpeedups |-> IF n = 1 THEN base ELSE Longer(g[n - 1])]
      BY <2>8, <2>9, Zenon
    <2>11. ChainEquation(g, d, s)
      BY <2>10, Zenon DEF ChainEquation, Longer, base
    <2>12. ChainEquation(chain, d, s)
      BY <2>11
    <2> HIDE DEF chain
    <2>13. chain = [n \in 1..MaxSpeedups |-> IF n = 1 THEN base ELSE Longer(chain[n - 1])]
      BY <2>12, Zenon DEF ChainEquation, Longer, base
    <2>14. chain[1] = base /\ \A n \in 1..MaxSpeedups : n # 1 => chain[n] = Longer(chain[n - 1])
      BY <2>5, <2>13
    <2> DEFINE D == {k \in 0..m : chain[k + 1] \in T}
    <2>15. 0 \in D
      BY <2>3, <2>5, <2>14
    <2>16. ASSUME NEW k \in 1..m, k - 1 \in D  PROVE k \in D
      <3>1. (k - 1) + 1 = k /\ k + 1 \in 1..MaxSpeedups /\ k + 1 # 1 /\ (k + 1) - 1 = k /\ k \in 0..m
        BY <2>5 DEF m
      <3>2. chain[k] \in T
        BY <2>16, <3>1
      <3>3. chain[k + 1] = Longer(chain[k])
        BY <2>14, <3>1
      <3> QED  BY <2>4, <3>1, <3>2, <3>3
    <2> HIDE DEF D
    <2>17. 0..m \subseteq D
      BY <2>5, <2>15, <2>16, IndexInduction
    <2>18. m \in D /\ m + 1 = MaxSpeedups
      BY <2>5, <2>17 DEF m
    <2>19. chain[MaxSpeedups] \in T
      BY <2>18 DEF D
    <2> QED  BY <2>1, <2>19 DEF T
  <1> QED
    BY <1>1, <1>2

\* Every predecessor of a replacement is a speedup.
LEMMA ReplacedChainSeq ==
    ASSUME NEW d \in Store, NEW s \in Speedups
    PROVE  ReplacedChain(d, s) \in Seq(Speedups)
  <1>1. \A r \in Speedups : d.rec[r].replaces \in Speedups \cup {0}
    BY StoreFields, RecFields, Names DEF Speedups
  <1> QED
    BY <1>1, ReplacedChainIn

FailLoop(t, seq) == FoldLeft(LAMBDA acc, r : SettleTx(acc, r, "Failed", vheight), t, seq)

\* The loop of RemoveReplacedRbf.
LEMMA FailFold ==
    ASSUME NEW A, NEW seq \in Seq(A), NEW T, NEW t \in T,
           \A acc \in T, x \in A : SettleTx(acc, x, "Failed", vheight) \in T
    PROVE  FailLoop(t, seq) \in T
  <1> DEFINE n == Len(seq)
             Op(acc, k) == SettleTx(acc, seq[k], "Failed", vheight)
             Solves(g) == g = [s \in SUBSET (DOMAIN seq) |->
                                 IF s = {} THEN t ELSE Op(g[s \ {Max(s)}], Max(s))]
             step == [p \in T \X (1..n) |-> Op(p[1], p[2])]
             iter == CHOOSE g : Solves(g)
  <1>1. n \in Nat /\ DOMAIN seq = 1..n /\ \A k \in 1..n : seq[k] \in A
    OBVIOUS
  <1>2. FailLoop(t, seq) = iter[DOMAIN seq]
    BY Zenon DEF FailLoop, FoldLeft, MapThenFoldSet
  <1>3. \A acc \in T, k \in 1..n : Op(acc, k) \in T
    BY <1>1
  <1> HIDE DEF n, Op
  <1>4. step \in [T \X (1..n) -> T] /\ \A acc \in T, k \in 1..n : step[<<acc, k>>] = Op(acc, k)
    BY <1>3
  <1> HIDE DEF step
  <1>5. PICK g \in [SUBSET (1..n) -> T] : FoldEquation(g, n, t, step)
    BY <1>1, <1>4, FoldExists
  <1>6. Solves(g)
    <2>1. ASSUME NEW s \in SUBSET (1..n), s # {}
          PROVE  step[<<g[s \ {Max(s)}], Max(s)>>] = Op(g[s \ {Max(s)}], Max(s))
      <3>1. Max(s) \in s /\ g[s \ {Max(s)}] \in T
        BY <1>1, <2>1, MaxExists
      <3> QED  BY <1>4, <3>1
    <2> QED  BY <1>1, <1>5, <2>1 DEF FoldEquation
  <1>7. Solves(iter)
    BY <1>6
  <1> HIDE DEF iter
  <1>8. iter[{}] = t /\ \A s \in SUBSET (1..n) : s # {} => iter[s] = Op(iter[s \ {Max(s)}], Max(s))
    BY <1>1, <1>7
  <1>9. ASSUME NEW k \in 1..n, iter[1..(k - 1)] \in T  PROVE iter[1..k] \in T
    <2>1. /\ 1..k \in SUBSET (1..n) /\ 1..k # {}
          /\ Max(1..k) = k /\ (1..k) \ {Max(1..k)} = 1..(k - 1)
      BY <1>1, IntervalUnfolds
    <2>2. iter[1..k] = Op(iter[1..(k - 1)], k)
      BY <1>8, <2>1
    <2> QED  BY <1>3, <1>9, <2>2
  <1>10. iter[1..n] \in T
    BY <1>1, <1>8, <1>9, LoopStays
  <1> QED
    BY <1>1, <1>2, <1>10

\* remove_replaced_rbf.
LEMMA RemoveReplacedGood ==
    ASSUME NodeTypeOK, NEW c, NEW t \in Traces(c), NEW s \in Speedups
    PROVE  RemoveReplacedRbf(t, s) \in Traces(c)
  <1> DEFINE q == ReplacedChain(Now(t), s)
             T == Traces(c)
  <1>1. q \in Seq(Speedups)
    BY TraceNow, ReplacedChainSeq
  <1>2. RemoveReplacedRbf(t, s) = FailLoop(t, q)
    BY Zenon DEF RemoveReplacedRbf, FailLoop
  <1>3. t \in T /\ \A acc \in T, r \in Speedups : SettleTx(acc, r, "Failed", vheight) \in T
    BY SettleTxGood, Names DEF Terminal
  <1> HIDE DEF q, T
  <1>4. RemoveReplacedRbf(t, s) \in T
    BY <1>1, <1>2, <1>3, FailFold
  <1> QED
    BY <1>4 DEF T

\* What a case says of more speedups it says of fewer.
LEMMA Weaker ==
    ASSUME NEW c, NEW e, e.mode = c.mode, c.prebuilt \subseteq e.prebuilt, e.sent \subseteq c.sent,
           e.settled \subseteq c.settled, e.listed \subseteq c.listed
    PROVE  Good(c) \subseteq Good(e) /\ Traces(c) \subseteq Traces(e)
  <1>1. ASSUME NEW d \in Good(c)  PROVE d \in Good(e)
    BY DEF Good, Calm, Fits
  <1> QED
    BY <1>1 DEF Traces

\* The finalized arm of the review.
LEMMA ReviewFinalizedGood ==
    ASSUME NodeTypeOK, TxShape, NEW c, NEW t \in Traces(c), NEW x \in Ids,
           c.mode = "calm" /\ x \in Speedups => x \notin c.listed
    PROVE  ReviewFinalized(t, x) \in Traces(c)
  <1> DEFINE u == SettleTx(t, x, "Finalized", vheight)
  <1>1. u \in Traces(c) /\ Now(u).rec[x].state \notin Active
    BY SettleTxGood DEF Terminal
  <1>2. ReviewFinalized(t, x) =
          IF x \in Parents THEN u ELSE ReplaceFundingOnFinalize(RemoveReplacedRbf(u, x), x)
    BY DEF ReviewFinalized
  <1> HIDE DEF u
  <1>3. CASE x \in Parents
    BY <1>1, <1>2, <1>3
  <1>4. CASE x \notin Parents
    <2> DEFINE e == [mode |-> c.mode, prebuilt |-> c.prebuilt, sent |-> c.sent,
                     settled |-> c.settled \cup {x}, listed |-> c.listed]
    <2>1. /\ e.mode = c.mode /\ e.prebuilt = c.prebuilt /\ e.sent = c.sent
          /\ e.settled = c.settled \cup {x} /\ e.listed = c.listed
      OBVIOUS
    <2> HIDE DEF e
    <2>2. x \in Speedups
      BY <1>4, Names
    <2>3. u \in Traces(e)
      <3>1. u \in Seq(Store) /\ u # <<>> /\ Last(u) \in Good(c) /\ Last(u).rec[x].state \notin Active
        BY <1>1 DEF Traces, Now
      <3>2. Last(u) \in Good(e)
        BY <2>1, <3>1 DEF Good, Calm, Fits
      <3> QED  BY <3>1, <3>2 DEF Traces
    <2>4. RemoveReplacedRbf(u, x) \in Traces(e)
      BY <2>2, <2>3, RemoveReplacedGood
    <2>5. e.mode = "calm" => x \in e.settled \ e.listed
      BY <2>1, <2>2
    <2>6. ReplaceFundingOnFinalize(RemoveReplacedRbf(u, x), x) \in Traces(e)
      BY <2>2, <2>4, <2>5, ReplaceFundingGood
    <2>7. Traces(e) \subseteq Traces(c)
      BY <2>1, Weaker
    <2> QED  BY <1>2, <1>4, <2>6, <2>7
  <1> QED
    BY <1>3, <1>4

\* The height written as the broadcast height; for a speedup it is not 0.
LEMMA BroadcastHeight ==
    ASSUME NodeTypeOK, NEW x \in Ids
    PROVE  BroadcastAt(x) \in 0..MaxHeight /\ (x \in Speedups => BroadcastAt(x) # 0)
  BY Heights DEF BroadcastAt

\* mark_reorg: the speedup has been broadcast.
LEMMA MarkReorgGood ==
    ASSUME NodeTypeOK, NEW c, NEW t \in Traces(c), NEW x \in Ids, NEW copy \in Rec,
           x \in Parents => copy.replaces = 0,
           c.mode = "calm" /\ x \in Speedups => x \in c.listed /\ c.settled = {}
    PROVE  MarkReorg(t, x, copy) \in Traces(c)
  <1> DEFINE b == BroadcastAt(x)
             r == [copy EXCEPT !.state = "InMempool", !.broadcast = b]
  <1>1. b \in 0..MaxHeight /\ (x \in Speedups => b # 0)
    BY BroadcastHeight
  <1>2. MarkReorg(t, x, copy) = UpdateTx(t, x, r)
    BY DEF MarkReorg
  <1> HIDE DEF b
  <1>3. r \in Rec /\ r.state = "InMempool" /\ r.broadcast = b /\ r.replaces = copy.replaces
    BY <1>1 DEF Rec, RecordState, TransactionState, Active
  <1> HIDE DEF r
  <1>4. ASSUME c.mode = "calm", x \in Speedups  PROVE Fits(c, Now(t).list, x, r)
    <2>1. c.listed \subseteq ToSet(Now(t).list)
      BY <1>4, TraceNow DEF Good, Calm
    <2> QED  BY <1>1, <1>3, <1>4, <2>1 DEF Fits
  <1> QED
    BY <1>2, <1>3, <1>4, UpdateTxGood

Statuses == {"finalized", "confirmed", "in_mempool", "orphan", "not_found"}

\* One transaction is reviewed.
LEMMA ReviewOneGood ==
    ASSUME NodeTypeOK, TxShape, NEW c, NEW t \in Traces(c), NEW x \in Ids, NEW d \in Store, NEW orphans,
           c.mode = "calm" /\ x \in Speedups =>
             /\ x \in c.sent /\ c.settled = {}
             /\ x \in c.listed <=> TxStatus(x, orphans) # "finalized"
    PROVE  ReviewOne(t, x, d, orphans) \in Traces(c)
  <1> DEFINE status == TxStatus(x, orphans)
  <1>1. status \in Statuses
    BY DEF TxStatus, Statuses
  <1>2. d.rec[x] \in Rec /\ (x \in Parents => d.rec[x].replaces = 0)
    BY StoreFields
  <1>3. CASE status = "in_mempool"
    <2>1. ReviewOne(t, x, d, orphans) =
            IF d.rec[x].state = "Confirmed" THEN MarkReorg(t, x, d.rec[x]) ELSE t
      BY <1>3 DEF ReviewOne
    <2>2. c.mode = "calm" /\ x \in Speedups => x \in c.listed /\ c.settled = {}
      BY <1>3
    <2> QED  BY <1>2, <2>1, <2>2, MarkReorgGood
  <1>4. CASE status = "not_found"
    <2>1. ReviewOne(t, x, d, orphans) =
            IF x \in Speedups /\ HasLiveReplacement(d, x) THEN t
            ELSE RequeueNotFound(t, x, vheight + MaxConfs)
      BY <1>4 DEF ReviewOne
    <2> QED  BY <2>1, RequeueNotFoundGood
  <1>5. CASE status = "finalized"
    <2>1. ReviewOne(t, x, d, orphans) = ReviewFinalized(t, x)
      BY <1>5 DEF ReviewOne
    <2>2. c.mode = "calm" /\ x \in Speedups => x \notin c.listed
      BY <1>5
    <2> QED  BY <2>1, <2>2, ReviewFinalizedGood
  <1>6. CASE status = "confirmed"
    <2>1. ReviewOne(t, x, d, orphans) = UpdateTxState(t, x, "Confirmed")
      BY <1>6 DEF ReviewOne
    <2> QED  BY <2>1, UpdateTxStateGood
  <1>7. CASE status = "orphan"
    <2>1. ReviewOne(t, x, d, orphans) = UpdateTxState(t, x, "InMempool")
      BY <1>7 DEF ReviewOne
    <2> QED  BY <2>1, UpdateTxStateGood
  <1> QED
    BY <1>1, <1>3, <1>4, <1>5, <1>6, <1>7 DEF Statuses

ReviewLoop(t, seq, d, orphans) == FoldLeft(LAMBDA acc, x : ReviewOne(acc, x, d, orphans), t, seq)

\* The loop of ReviewPass.
LEMMA ReviewFold ==
    ASSUME NEW A, NEW seq \in Seq(A), NEW T, NEW t \in T, NEW d, NEW orphans,
           \A acc \in T, x \in A : ReviewOne(acc, x, d, orphans) \in T
    PROVE  ReviewLoop(t, seq, d, orphans) \in T
  <1> DEFINE n == Len(seq)
             Op(acc, k) == ReviewOne(acc, seq[k], d, orphans)
             Solves(g) == g = [s \in SUBSET (DOMAIN seq) |->
                                 IF s = {} THEN t ELSE Op(g[s \ {Max(s)}], Max(s))]
             step == [p \in T \X (1..n) |-> Op(p[1], p[2])]
             iter == CHOOSE g : Solves(g)
  <1>1. n \in Nat /\ DOMAIN seq = 1..n /\ \A k \in 1..n : seq[k] \in A
    OBVIOUS
  <1>2. ReviewLoop(t, seq, d, orphans) = iter[DOMAIN seq]
    BY Zenon DEF ReviewLoop, FoldLeft, MapThenFoldSet
  <1>3. \A acc \in T, k \in 1..n : Op(acc, k) \in T
    BY <1>1
  <1> HIDE DEF n, Op
  <1>4. step \in [T \X (1..n) -> T] /\ \A acc \in T, k \in 1..n : step[<<acc, k>>] = Op(acc, k)
    BY <1>3
  <1> HIDE DEF step
  <1>5. PICK g \in [SUBSET (1..n) -> T] : FoldEquation(g, n, t, step)
    BY <1>1, <1>4, FoldExists
  <1>6. Solves(g)
    <2>1. ASSUME NEW s \in SUBSET (1..n), s # {}
          PROVE  step[<<g[s \ {Max(s)}], Max(s)>>] = Op(g[s \ {Max(s)}], Max(s))
      <3>1. Max(s) \in s /\ g[s \ {Max(s)}] \in T
        BY <1>1, <2>1, MaxExists
      <3> QED  BY <1>4, <3>1
    <2> QED  BY <1>1, <1>5, <2>1 DEF FoldEquation
  <1>7. Solves(iter)
    BY <1>6
  <1> HIDE DEF iter
  <1>8. iter[{}] = t /\ \A s \in SUBSET (1..n) : s # {} => iter[s] = Op(iter[s \ {Max(s)}], Max(s))
    BY <1>1, <1>7
  <1>9. ASSUME NEW k \in 1..n, iter[1..(k - 1)] \in T  PROVE iter[1..k] \in T
    <2>1. /\ 1..k \in SUBSET (1..n) /\ 1..k # {}
          /\ Max(1..k) = k /\ (1..k) \ {Max(1..k)} = 1..(k - 1)
      BY <1>1, IntervalUnfolds
    <2>2. iter[1..k] = Op(iter[1..(k - 1)], k)
      BY <1>8, <2>1
    <2> QED  BY <1>3, <1>9, <2>2
  <1>10. iter[1..n] \in T
    BY <1>1, <1>8, <1>9, LoopStays
  <1> QED
    BY <1>1, <1>2, <1>10

\* The case between steps: at most P are prebuilt, and L is in the SpeedupList.
Between(m, P, L) == [mode |-> m, prebuilt |-> P, sent |-> {}, settled |-> {}, listed |-> L]

\* review_transactions and review_speedups.
LEMMA ReviewPassGood ==
    ASSUME NodeTypeOK, TxShape, NEW m, NEW P, NEW t \in Traces(Between(m, P, {})),
           NEW xs \in Seq(Ids), NEW orphans
    PROVE  ReviewPass(t, xs, orphans) \in Traces(Between(m, P, {}))
  <1> DEFINE b == Between(m, P, {})
             d == Now(t)
             flying == {x \in Ids : d.rec[x].state \in {"InMempool", "Confirmed"}}
             inFlight == Where(xs, flying)
             c == [mode |-> m, prebuilt |-> P,
                   sent |-> {s \in Speedups : d.rec[s].broadcast # 0}, settled |-> {},
                   listed |-> {s \in ToSet(d.list) : TxStatus(s, orphans) # "finalized"}]
             T == Traces(c)
  <1>1. d \in Good(b) /\ d \in Store /\ t \in Seq(Store) /\ t # <<>> /\ Last(t) = d
    BY TraceNow DEF Traces, Now
  <1>2. ReviewPass(t, xs, orphans) = ReviewLoop(t, inFlight, d, orphans)
    BY Zenon DEF ReviewPass, ReviewLoop
  <1>3. /\ b.mode = m /\ b.prebuilt = P /\ b.sent = {} /\ b.settled = {} /\ b.listed = {}
        /\ c.mode = m /\ c.prebuilt = P /\ c.settled = {}
        /\ c.sent = {s \in Speedups : d.rec[s].broadcast # 0}
        /\ c.listed = {s \in ToSet(d.list) : TxStatus(s, orphans) # "finalized"}
    BY DEF Between
  <1> HIDE DEF b, c, d
  <1>4. inFlight \in Seq(flying)
    <2>1. inFlight \in Seq(Ids) /\ ToSet(inFlight) \subseteq flying
      <3>1. inFlight \in Seq(Ids) /\ ToSet(inFlight) = ToSet(xs) \cap flying
        BY WhereKeeps
      <3> HIDE DEF inFlight, flying
      <3> QED  BY <3>1
    <2> HIDE DEF inFlight, flying
    <2>2. \A i \in 1..Len(inFlight) : inFlight[i] \in flying
      BY <2>1, ToSetOfSeq
    <2> QED  BY <2>1, <2>2
  <1>5. d \in Good(c)
    <2> SUFFICES ASSUME m = "calm"  PROVE Calm(c, d)
      BY <1>1, <1>3 DEF Good
    <2>1. \A s \in Speedups : Fits(b, d.list, s, d.rec[s])
      BY <1>1, <1>3 DEF Good, Calm
    <2>2. \A s \in Speedups : Fits(c, d.list, s, d.rec[s])
      BY <1>3, <2>1 DEF Fits
    <2> QED  BY <1>3, <2>2 DEF Calm
  <1>6. t \in T
    BY <1>1, <1>5 DEF Traces
  <1>7. ASSUME NEW acc \in T, NEW x \in flying  PROVE ReviewOne(acc, x, d, orphans) \in T
    <2>1. x \in Ids /\ d.rec[x].state \in {"InMempool", "Confirmed"}
      OBVIOUS
    <2>2. ASSUME m = "calm", x \in Speedups
          PROVE  x \in c.sent /\ (x \in c.listed <=> TxStatus(x, orphans) # "finalized")
      <3>1. Fits(b, d.list, x, d.rec[x])
        BY <1>1, <1>3, <2>2 DEF Good, Calm
      <3>2. x \in ToSet(d.list) /\ d.rec[x].broadcast # 0
        BY <2>1, <3>1 DEF Fits, Active
      <3> QED  BY <1>3, <2>2, <3>2
    <2>3. c.mode = "calm" /\ x \in Speedups =>
             /\ x \in c.sent /\ c.settled = {}
             /\ x \in c.listed <=> TxStatus(x, orphans) # "finalized"
      BY <1>3, <2>2
    <2> QED  BY <1>1, <2>1, <2>3, ReviewOneGood
  <1> HIDE DEF T, inFlight, flying
  <1>8. ReviewPass(t, xs, orphans) \in T
    BY <1>2, <1>4, <1>6, <1>7, ReviewFold
  <1>9. T \subseteq Traces(b)
    BY <1>3, Weaker DEF T
  <1> QED
    BY <1>8, <1>9 DEF b

-----------------------------------------------------------------------------
(* Outcomes of a dispatch. *)

\* What is written of x while it is sent: x is listed, and nothing is settled for good.
MaySend(c, x) == c.mode = "calm" /\ x \in Speedups => x \in c.listed /\ c.settled = {}

\* mark_replaced_by touches only the link.
LEMMA MarkReplacedByGood ==
    ASSUME NEW c, NEW t \in Traces(c), NEW r \in Rec, NEW by, IsRbf(r) => by \in 0..MaxSpeedups
    PROVE  MarkReplacedBy(t, r, by) \in Traces(c)
  <1> DEFINE x == r.replaces
             d == Now(t)
             o == d.rec[x]
             e == [o EXCEPT !.replacedBy = by]
  <1>1. MarkReplacedBy(t, r, by) = IF IsRbf(r) /\ Known(d, x) THEN UpdateTx(t, x, e) ELSE t
    BY DEF MarkReplacedBy
  <1>2. CASE ~(IsRbf(r) /\ Known(d, x))
    BY <1>1, <1>2
  <1>3. CASE IsRbf(r) /\ Known(d, x)
    <2>1. x \in Speedups /\ x \in Ids /\ x \notin Parents
      <3>1. x \in 0..MaxSpeedups /\ x # 0 /\ MaxSpeedups \in Nat
        BY <1>3, RecFields, Names DEF IsRbf
      <3>2. x \in Speedups
        BY <3>1 DEF Speedups
      <3> QED  BY <3>2, Names
    <2>2. d \in Good(c) /\ d = Now(t) /\ o \in Rec /\ o = d.rec[x]
      BY <2>1, TraceNow, StoreFields
    <2>3. UpdateTx(t, x, e) = MarkReplacedBy(t, r, by)
      BY <1>1, <1>3
    <2> HIDE DEF x, d, o
    <2>4. e \in Rec /\ e.state = o.state /\ e.broadcast = o.broadcast
      BY <1>3, <2>2 DEF Rec
    <2> HIDE DEF e
    <2>5. c.mode = "calm" /\ x \in Speedups => Fits(c, Now(t).list, x, e)
      BY <2>2, <2>4, Refit
    <2> QED  BY <2>1, <2>3, <2>4, <2>5, UpdateTxGood
  <1> QED
    BY <1>2, <1>3

\* mark_accepted: the speedup is listed, and now broadcast.
LEMMA MarkAcceptedGood ==
    ASSUME NodeTypeOK, NEW c, NEW t \in Traces(c), NEW x \in Ids, NEW copy \in Rec,
           x \in Parents => copy.replaces = 0, MaySend(c, x)
    PROVE  MarkAccepted(t, x, copy) \in Traces(c)
  <1> DEFINE u == MarkReplacedBy(t, copy, x)
             b == BroadcastAt(x)
             r == [copy EXCEPT !.state = "InMempool", !.broadcast = b, !.guard = 0]
  <1>1. MarkAccepted(t, x, copy) = UpdateTx(u, x, r)
    BY DEF MarkAccepted
  <1>2. u \in Traces(c)
    <2>1. IsRbf(copy) => x \in 0..MaxSpeedups
      BY Names DEF IsRbf
    <2> QED  BY <2>1, MarkReplacedByGood
  <1>3. b \in 0..MaxHeight /\ (x \in Speedups => b # 0)
    BY BroadcastHeight
  <1> HIDE DEF b, u
  <1>4. r \in Rec /\ r.state = "InMempool" /\ r.broadcast = b /\ r.replaces = copy.replaces
    BY <1>3, Heights DEF Rec, RecordState, TransactionState, Active
  <1> HIDE DEF r
  <1>5. ASSUME c.mode = "calm", x \in Speedups  PROVE Fits(c, Now(u).list, x, r)
    <2>1. c.listed \subseteq ToSet(Now(u).list)
      BY <1>2, <1>5, TraceNow DEF Good, Calm
    <2> QED  BY <1>3, <1>4, <1>5, <2>1 DEF Fits, MaySend
  <1> QED
    BY <1>1, <1>2, <1>4, <1>5, UpdateTxGood

\* mark_already_confirmed.
LEMMA MarkConfirmedGood ==
    ASSUME NodeTypeOK, NEW c, NEW t \in Traces(c), NEW x \in Ids, NEW copy \in Rec,
           x \in Parents => copy.replaces = 0, MaySend(c, x)
    PROVE  MarkAlreadyConfirmed(t, x, copy) \in Traces(c)
  <1> DEFINE u == MarkReplacedBy(t, copy, x)
             b == IF copy.broadcast = 0 THEN BroadcastAt(x) ELSE copy.broadcast
             r == [copy EXCEPT !.state = "Confirmed", !.guard = 0, !.broadcast = b]
  <1>1. MarkAlreadyConfirmed(t, x, copy) = UpdateTx(u, x, r)
    BY DEF MarkAlreadyConfirmed
  <1>2. u \in Traces(c)
    <2>1. IsRbf(copy) => x \in 0..MaxSpeedups
      BY Names DEF IsRbf
    <2> QED  BY <2>1, MarkReplacedByGood
  <1>3. b \in 0..MaxHeight /\ (x \in Speedups => b # 0)
    BY BroadcastHeight, RecFields
  <1> HIDE DEF b, u
  <1>4. r \in Rec /\ r.state = "Confirmed" /\ r.broadcast = b /\ r.replaces = copy.replaces
    BY <1>3, Heights DEF Rec, RecordState, TransactionState, Active
  <1> HIDE DEF r
  <1>5. ASSUME c.mode = "calm", x \in Speedups  PROVE Fits(c, Now(u).list, x, r)
    <2>1. c.listed \subseteq ToSet(Now(u).list)
      BY <1>2, <1>5, TraceNow DEF Good, Calm
    <2> QED  BY <1>3, <1>4, <1>5, <2>1 DEF Fits, MaySend
  <1> QED
    BY <1>1, <1>2, <1>4, <1>5, UpdateTxGood

\* requeue_protocol_parents.
LEMMA RequeueParentsGood ==
    ASSUME NEW c, NEW t \in Traces(c), NEW s \in Ids
    PROVE  RequeueProtocolParents(t, s) \in Traces(c)
  <1> DEFINE ps == KnownParents(Now(t), Now(t).rec[s].parents)
  <1>1. ps \in Lists(Ids)
    BY TraceNow, StoreFields, RecFields, KnownParentsList
  <1>2. RequeueProtocolParents(t, s) = PrependPendingSpeedupParents(t, ps)
    BY DEF RequeueProtocolParents
  <1> HIDE DEF ps
  <1> QED
    BY <1>1, <1>2, PrependGood

\* settle_failed_dispatch.
LEMMA SettleFailedGood ==
    ASSUME NodeTypeOK, TxShape, NEW c, NEW t \in Traces(c), NEW x \in Ids, NEW fundingMissing
    PROVE  SettleFailedDispatch(t, x, fundingMissing) \in Traces(c)
  <1> DEFINE r == Now(t).rec[x]
             told == AddNews(SettleTx(t, x, "Failed", vheight), "DispatchError", x)
             released == IF IsRbf(r) THEN MarkReplacedBy(ReleaseMarks(told, r.fresh), r, 0)
                         ELSE ReleaseMarks(told, tx[x].funding)
  <1>1. SettleFailedDispatch(t, x, fundingMissing) =
          IF x \in Parents THEN told
          ELSE IF fundingMissing THEN RequeueProtocolParents(released, x) ELSE released
    BY DEF SettleFailedDispatch
  <1>2. told \in Traces(c)
    <2>1. SettleTx(t, x, "Failed", vheight) \in Traces(c)
      BY SettleTxGood DEF Terminal
    <2> QED  BY <2>1, AddNewsGood DEF Kinds
  <1>3. r \in Rec /\ r.fresh \in Seq(Outputs)
    BY TraceNow, StoreFields, RecFields
  <1> HIDE DEF told, r
  <1>4. CASE x \in Parents
    BY <1>1, <1>2, <1>4
  <1>5. CASE x \notin Parents
    <2>1. x \in Speedups
      BY <1>5, Names
    <2>2. ReleaseMarks(told, tx[x].funding) \in Traces(c)
      BY <1>2, <2>1, ReleaseMarksGood DEF TxShape
    <2>3. ReleaseMarks(told, r.fresh) \in Traces(c)
      BY <1>2, <1>3, ReleaseMarksGood
    <2>4. MarkReplacedBy(ReleaseMarks(told, r.fresh), r, 0) \in Traces(c)
      BY <1>3, <2>3, MarkReplacedByGood, Names
    <2>5. released \in Traces(c)
      BY <2>2, <2>4
    <2> HIDE DEF released
    <2>6. RequeueProtocolParents(released, x) \in Traces(c)
      BY <2>5, RequeueParentsGood
    <2> QED  BY <1>1, <1>5, <2>5, <2>6
  <1> QED
    BY <1>4, <1>5

CascadeLoop(t, seq) ==
    FoldLeft(LAMBDA acc, s :
               IF Dependent(Now(acc.trace), s, acc.dead)
               THEN [trace |-> SettleFailedDispatch(acc.trace, s, TRUE), dead |-> acc.dead \cup {s}]
               ELSE acc, t, seq)

\* The loop of FailAndCascade.
LEMMA CascadeFold ==
    ASSUME NEW A, NEW seq \in Seq(A), NEW T, NEW t \in T,
           \A acc \in T, x \in A : (IF Dependent(Now(acc.trace), x, acc.dead)
             THEN [trace |-> SettleFailedDispatch(acc.trace, x, TRUE), dead |-> acc.dead \cup {x}]
             ELSE acc) \in T
    PROVE  CascadeLoop(t, seq) \in T
  <1> DEFINE n == Len(seq)
             Op(acc, k) == (IF Dependent(Now(acc.trace), seq[k], acc.dead)
             THEN [trace |-> SettleFailedDispatch(acc.trace, seq[k], TRUE), dead |-> acc.dead \cup {seq[k]}]
             ELSE acc)
             Solves(g) == g = [s \in SUBSET (DOMAIN seq) |->
                                 IF s = {} THEN t ELSE Op(g[s \ {Max(s)}], Max(s))]
             step == [p \in T \X (1..n) |-> Op(p[1], p[2])]
             iter == CHOOSE g : Solves(g)
  <1>1. n \in Nat /\ DOMAIN seq = 1..n /\ \A k \in 1..n : seq[k] \in A
    OBVIOUS
  <1>2. CascadeLoop(t, seq) = iter[DOMAIN seq]
    BY Zenon DEF CascadeLoop, FoldLeft, MapThenFoldSet
  <1>3. \A acc \in T, k \in 1..n : Op(acc, k) \in T
    BY <1>1
  <1> HIDE DEF n, Op
  <1>4. step \in [T \X (1..n) -> T] /\ \A acc \in T, k \in 1..n : step[<<acc, k>>] = Op(acc, k)
    BY <1>3
  <1> HIDE DEF step
  <1>5. PICK g \in [SUBSET (1..n) -> T] : FoldEquation(g, n, t, step)
    BY <1>1, <1>4, FoldExists
  <1>6. Solves(g)
    <2>1. ASSUME NEW s \in SUBSET (1..n), s # {}
          PROVE  step[<<g[s \ {Max(s)}], Max(s)>>] = Op(g[s \ {Max(s)}], Max(s))
      <3>1. Max(s) \in s /\ g[s \ {Max(s)}] \in T
        BY <1>1, <2>1, MaxExists
      <3> QED  BY <1>4, <3>1
    <2> QED  BY <1>1, <1>5, <2>1 DEF FoldEquation
  <1>7. Solves(iter)
    BY <1>6
  <1> HIDE DEF iter
  <1>8. iter[{}] = t /\ \A s \in SUBSET (1..n) : s # {} => iter[s] = Op(iter[s \ {Max(s)}], Max(s))
    BY <1>1, <1>7
  <1>9. ASSUME NEW k \in 1..n, iter[1..(k - 1)] \in T  PROVE iter[1..k] \in T
    <2>1. /\ 1..k \in SUBSET (1..n) /\ 1..k # {}
          /\ Max(1..k) = k /\ (1..k) \ {Max(1..k)} = 1..(k - 1)
      BY <1>1, IntervalUnfolds
    <2>2. iter[1..k] = Op(iter[1..(k - 1)], k)
      BY <1>8, <2>1
    <2> QED  BY <1>3, <1>9, <2>2
  <1>10. iter[1..n] \in T
    BY <1>1, <1>8, <1>9, LoopStays
  <1> QED
    BY <1>1, <1>2, <1>10

\* fail_and_cascade: every victim is settled.
LEMMA FailAndCascadeGood ==
    ASSUME NodeTypeOK, TxShape, NEW c, NEW t \in Traces(c), NEW x \in Ids, NEW fundingMissing
    PROVE  FailAndCascade(t, x, fundingMissing) \in Traces(c)
  <1> DEFINE q == Where(Oldest \o Oldest, Listed(Now(t)))
             first == [trace |-> SettleFailedDispatch(t, x, fundingMissing), dead |-> {x}]
             R == Traces(c)
             T == [trace : R, dead : SUBSET Ids]
  <1>1. FailAndCascade(t, x, fundingMissing) = CascadeLoop(first, q).trace
    BY Zenon DEF FailAndCascade, CascadeLoop
  <1>2. q \in Seq(Speedups)
    <2>1. Oldest \in Seq(Speedups)
      BY Names DEF Oldest, Speedups
    <2>2. Oldest \o Oldest \in Seq(Speedups)
      BY <2>1
    <2> QED  BY <2>2, WhereKeeps
  <1>3. \A f : \A u \in R, y \in Ids : SettleFailedDispatch(u, y, f) \in R
    BY SettleFailedGood
  <1>4. t \in R
    OBVIOUS
  <1> HIDE DEF q, R
  <1>5. first \in T
    BY <1>3, <1>4
  <1>6. ASSUME NEW acc \in T, NEW s \in Speedups
        PROVE  (IF Dependent(Now(acc.trace), s, acc.dead)
                THEN [trace |-> SettleFailedDispatch(acc.trace, s, TRUE), dead |-> acc.dead \cup {s}]
                ELSE acc) \in T
    <2>1. s \in Ids /\ acc.trace \in R /\ acc.dead \in SUBSET Ids
      BY Names
    <2>2. SettleFailedDispatch(acc.trace, s, TRUE) \in R
      BY <1>3, <2>1
    <2> QED  BY <2>1, <2>2
  <1> HIDE DEF first, T
  <1>7. CascadeLoop(first, q) \in T
    BY <1>2, <1>5, <1>6, CascadeFold
  <1>8. CascadeLoop(first, q).trace \in R
    BY <1>7 DEF T
  <1> QED
    BY <1>1, <1>8 DEF R

\* rebuild_survivors.
LEMMA RebuildGood ==
    ASSUME NodeTypeOK, TxShape, NEW c, NEW t \in Traces(c), NEW s \in Speedups
    PROVE  RebuildSurvivors(t, s) \in Traces(c)
  <1> DEFINE alive == {p \in Parents : Now(t).rec[p].state # "Failed"}
             survivors == Where(tx[s].anchors, alive)
             failed == FailAndCascade(t, s, FALSE)
             ps == KnownParents(Now(failed), survivors)
  <1>1. RebuildSurvivors(t, s) = PrependPendingSpeedupParents(failed, ps)
    BY DEF RebuildSurvivors
  <1>2. failed \in Traces(c)
    BY FailAndCascadeGood, Names
  <1>3. survivors \in Lists(Ids)
    <2>1. tx[s].anchors \in Lists(Parents) /\ tx[s].anchors \in Seq(Parents)
      BY DEF TxShape, Lists
    <2> HIDE DEF alive
    <2>2. survivors \in Lists(Parents) /\ ToSet(survivors) = ToSet(tx[s].anchors) \cap alive
      BY <2>1, WhereKeeps
    <2>3. ToSet(tx[s].anchors) \subseteq Parents
      BY <2>1, ToSetOfSeq
    <2> HIDE DEF survivors
    <2>4. ToSet(survivors) \subseteq Ids
      BY <2>2, <2>3, Names
    <2> QED  BY <2>2, <2>4, ListNarrow
  <1> HIDE DEF failed, survivors
  <1>4. ps \in Lists(Ids)
    BY <1>3, KnownParentsList
  <1> HIDE DEF ps
  <1> QED
    BY <1>1, <1>2, <1>4, PrependGood

\* settle_failed_child.
LEMMA SettleFailedChildGood ==
    ASSUME NodeTypeOK, TxShape, NEW c, NEW t \in Traces(c), NEW x \in Ids
    PROVE  SettleFailedChild(t, x) \in Traces(c)
  BY RebuildGood, FailAndCascadeGood DEF SettleFailedChild

\* One result of dispatch_pending is handled.
LEMMA HandleParentGood ==
    ASSUME NodeTypeOK, TxShape, db \in Store, NEW c, NEW t \in Traces(c), NEW p \in Parents, NEW taken
    PROVE  HandleParent(t, p, taken) \in Traces(c)
  <1> DEFINE copy == db.rec[p]
             R == Traces(c)
  <1>1. copy \in Rec /\ copy.replaces = 0 /\ p \in Ids /\ MaySend(c, p)
    BY StoreFields, Names DEF MaySend
  <1> HIDE DEF copy
  <1>2. MarkAccepted(t, p, copy) \in R /\ MarkAlreadyConfirmed(t, p, copy) \in R
    BY <1>1, MarkAcceptedGood, MarkConfirmedGood
  <1>3. /\ MarkAsRetry(t, p) \in R /\ SettleFailedChild(t, p) \in R
        /\ FailAndCascade(t, p, FALSE) \in R
    BY <1>1, MarkAsRetryGood, SettleFailedChildGood, FailAndCascadeGood
  <1> HIDE DEF R
  <1>4. HandleParent(t, p, taken) \in R
    BY <1>2, <1>3 DEF HandleParent, copy
  <1> QED
    BY <1>4 DEF R

\* classify_dispatch_error.
LEMMA ClassifyGood ==
    ASSUME NodeTypeOK, TxShape, NEW c, NEW t \in Traces(c), NEW s \in Speedups, NEW copy \in Rec,
           MaySend(c, s)
    PROVE  Classify(t, s, copy) \in Traces(c)
  <1> DEFINE R == Traces(c)
  <1>1. s \in Ids /\ s \notin Parents
    BY Names
  <1>2. MarkAccepted(t, s, copy) \in R /\ MarkAlreadyConfirmed(t, s, copy) \in R
    BY <1>1, MarkAcceptedGood, MarkConfirmedGood
  <1>3. /\ MarkAsRetry(t, s) \in R /\ SettleFailedChild(t, s) \in R
        /\ FailAndCascade(t, s, FALSE) \in R /\ FailAndCascade(t, s, TRUE) \in R
    BY <1>1, MarkAsRetryGood, SettleFailedChildGood, FailAndCascadeGood
  <1> HIDE DEF R
  <1>4. Classify(t, s, copy) \in R
    BY <1>2, <1>3 DEF Classify
  <1> QED
    BY <1>4 DEF R

HandleLoop(t, seq, taken) == FoldLeft(LAMBDA acc, p : HandleParent(acc, p, taken), t, seq)

\* The loop of DispatchParents.
LEMMA HandleFold ==
    ASSUME NEW A, NEW seq \in Seq(A), NEW T, NEW t \in T, NEW taken,
           \A acc \in T, x \in A : HandleParent(acc, x, taken) \in T
    PROVE  HandleLoop(t, seq, taken) \in T
  <1> DEFINE n == Len(seq)
             Op(acc, k) == HandleParent(acc, seq[k], taken)
             Solves(g) == g = [s \in SUBSET (DOMAIN seq) |->
                                 IF s = {} THEN t ELSE Op(g[s \ {Max(s)}], Max(s))]
             step == [p \in T \X (1..n) |-> Op(p[1], p[2])]
             iter == CHOOSE g : Solves(g)
  <1>1. n \in Nat /\ DOMAIN seq = 1..n /\ \A k \in 1..n : seq[k] \in A
    OBVIOUS
  <1>2. HandleLoop(t, seq, taken) = iter[DOMAIN seq]
    BY Zenon DEF HandleLoop, FoldLeft, MapThenFoldSet
  <1>3. \A acc \in T, k \in 1..n : Op(acc, k) \in T
    BY <1>1
  <1> HIDE DEF n, Op
  <1>4. step \in [T \X (1..n) -> T] /\ \A acc \in T, k \in 1..n : step[<<acc, k>>] = Op(acc, k)
    BY <1>3
  <1> HIDE DEF step
  <1>5. PICK g \in [SUBSET (1..n) -> T] : FoldEquation(g, n, t, step)
    BY <1>1, <1>4, FoldExists
  <1>6. Solves(g)
    <2>1. ASSUME NEW s \in SUBSET (1..n), s # {}
          PROVE  step[<<g[s \ {Max(s)}], Max(s)>>] = Op(g[s \ {Max(s)}], Max(s))
      <3>1. Max(s) \in s /\ g[s \ {Max(s)}] \in T
        BY <1>1, <2>1, MaxExists
      <3> QED  BY <1>4, <3>1
    <2> QED  BY <1>1, <1>5, <2>1 DEF FoldEquation
  <1>7. Solves(iter)
    BY <1>6
  <1> HIDE DEF iter
  <1>8. iter[{}] = t /\ \A s \in SUBSET (1..n) : s # {} => iter[s] = Op(iter[s \ {Max(s)}], Max(s))
    BY <1>1, <1>7
  <1>9. ASSUME NEW k \in 1..n, iter[1..(k - 1)] \in T  PROVE iter[1..k] \in T
    <2>1. /\ 1..k \in SUBSET (1..n) /\ 1..k # {}
          /\ Max(1..k) = k /\ (1..k) \ {Max(1..k)} = 1..(k - 1)
      BY <1>1, IntervalUnfolds
    <2>2. iter[1..k] = Op(iter[1..(k - 1)], k)
      BY <1>8, <2>1
    <2> QED  BY <1>3, <1>9, <2>2
  <1>10. iter[1..n] \in T
    BY <1>1, <1>8, <1>9, LoopStays
  <1> QED
    BY <1>1, <1>2, <1>10

-----------------------------------------------------------------------------
(* Building. *)

\* The known speedups in the order of the SpeedupList.
LEMMA OrderedSeq ==
    ASSUME NEW d \in Store
    PROVE  /\ Ordered(d) \in Seq(Speedups)
           /\ ToSet(Ordered(d)) = Listed(d)
           /\ Listed(d) \subseteq Speedups /\ Listed(d) \subseteq ToSet(d.list)
  <1> DEFINE known == {s \in Speedups : Known(d, s)}
  <1>1. d.list \in Seq(Speedups)
    BY StoreFields DEF Lists
  <1>2. ToSet(d.list) \subseteq Speedups
    BY <1>1, ToSetOfSeq
  <1>3. Ordered(d) = Where(d.list, known)
    BY DEF Ordered
  <1>4. Ordered(d) \in Seq(Speedups) /\ ToSet(Ordered(d)) = ToSet(d.list) \cap known
    BY <1>1, <1>3, WhereKeeps
  <1> QED
    BY <1>2, <1>4 DEF Listed

\* The ends of a sequence.
LEMMA HeadLast ==
    ASSUME NEW A, NEW q \in Seq(A), q # <<>>
    PROVE  Head(q) \in A /\ Last(q) \in A
  BY DEF Last

\* get_funding and get_combine_funding choose outputs.
LEMMA ChoicesAreOutputs ==
    ASSUME NEW d \in Store
    PROVE  FundingChoice(d) \subseteq Outputs /\ CombineChoice(d) \subseteq Outputs
  <1> DEFINE tips == LiveTips(d)
             free == FreeRecords(d)
             own == Where(free, Fundings)
  <1>1. tips \in Seq(Speedups)
    BY OrderedSeq, WhereKeeps DEF LiveTips
  <1>2. free \in Seq(Outputs)
    BY StoreFields, WhereKeeps DEF FreeRecords
  <1>3. /\ FundingChoice(d) = IF tips # <<>> THEN {Last(tips)}
                              ELSE IF free # <<>> THEN {Head(free)} ELSE {}
        /\ CombineChoice(d) = IF own # <<>> THEN {Head(own)} ELSE {}
    BY DEF FundingChoice, CombineChoice
  <1> HIDE DEF tips, free
  <1>4. own \in Seq(Outputs)
    BY <1>2, WhereKeeps
  <1> HIDE DEF own
  <1>5. /\ tips # <<>> => Last(tips) \in Outputs
        /\ free # <<>> => Head(free) \in Outputs
        /\ own # <<>> => Head(own) \in Outputs
    BY <1>1, <1>2, <1>4, HeadLast, Names
  <1> QED
    BY <1>3, <1>5

\* build_speedup marks and releases; its inputs are outputs.
LEMMA BuildGood ==
    ASSUME NEW c, NEW t \in Traces(c), NEW inherited \in Seq(Outputs), NEW fee
    PROVE  /\ Build(t, inherited, fee).trace \in Traces(c)
           /\ Build(t, inherited, fee).inputs \in Seq(Outputs)
           /\ Build(t, inherited, fee).inputs # <<>> =>
                Len(inherited) <= Len(Build(t, inherited, fee).inputs)
  <1> DEFINE choice == FundingChoice(Now(t))
             first == IF inherited # <<>> THEN inherited ELSE <<CHOOSE o \in choice : TRUE>>
             marked == IF inherited # <<>> THEN t ELSE SetSpent(t, Head(first), TRUE)
             extra == IF Len(first) = 1 /\ IsSpeedupDerived(Now(t), Head(first))
                      THEN CombineChoice(Now(marked)) ELSE {}
             both == IF extra = {} THEN first ELSE Append(first, CHOOSE o \in extra : TRUE)
             swept == IF extra = {} THEN marked ELSE SetSpent(marked, Last(both), TRUE)
             own == SubSeq(both, Len(inherited) + 1, Len(both))
             nothing == [trace |-> AddNews(t, "FundingNotAvailable", 0), inputs |-> <<>>]
             poor == [trace |-> AddNews(ReleaseMarks(swept, own), "InsufficientFunds", 0),
                      inputs |-> <<>>]
             b == Build(t, inherited, fee)
  <1>1. b = IF inherited = <<>> /\ choice = {} THEN nothing
            ELSE IF Pays(first, fee) THEN [trace |-> marked, inputs |-> first]
            ELSE IF Pays(both, fee) THEN [trace |-> swept, inputs |-> both]
            ELSE poor
    BY Zenon DEF Build
  <1>2. choice \subseteq Outputs
    BY TraceNow, ChoicesAreOutputs
  <1>3. CASE inherited = <<>> /\ choice = {}
    <2>1. AddNews(t, "FundingNotAvailable", 0) \in Traces(c)
      BY AddNewsGood DEF Kinds
    <2>2. b = nothing
      BY <1>1, <1>3
    <2> HIDE DEF b
    <2>3. b.trace = AddNews(t, "FundingNotAvailable", 0) /\ b.inputs = <<>>
      BY <2>2
    <2>4. b.trace \in Traces(c) /\ b.inputs \in Seq(Outputs) /\ ~(b.inputs # <<>>)
      BY <2>1, <2>3
    <2> QED  BY <2>4 DEF b
  <1>4. CASE ~(inherited = <<>> /\ choice = {})
    <2> HIDE DEF choice
    <2>1. first \in Seq(Outputs) /\ first # <<>> /\ Len(inherited) <= Len(first)
      <3>1. CASE inherited # <<>>
        BY <3>1
      <3>2. CASE inherited = <<>>
        <4> DEFINE o == CHOOSE o \in choice : TRUE
        <4>1. o \in Outputs
          BY <1>2, <1>4, <3>2
        <4>2. first = <<o>>
          BY <3>2
        <4> HIDE DEF o, first
        <4> QED  BY <3>2, <4>1, <4>2
      <3> QED  BY <3>1, <3>2
    <2>2. Head(first) \in Outputs
      BY <2>1, HeadLast
    <2>3. marked \in Traces(c)
      <3> HIDE DEF first
      <3> QED  BY <2>2, SetSpentGood
    <2> HIDE DEF first, marked
    <2>4. extra \subseteq Outputs
      BY <2>3, TraceNow, ChoicesAreOutputs
    <2> HIDE DEF extra
    <2>5. both \in Seq(Outputs) /\ both # <<>> /\ Len(inherited) <= Len(both)
      <3>1. CASE extra = {}
        BY <2>1, <3>1
      <3>2. CASE extra # {}
        <4> DEFINE o == CHOOSE o \in extra : TRUE
        <4>1. o \in Outputs
          BY <2>4, <3>2
        <4>2. both = Append(first, o)
          BY <3>2
        <4> HIDE DEF o, both
        <4>3. Append(first, o) \in Seq(Outputs) /\ Len(Append(first, o)) = Len(first) + 1
          BY <2>1, <4>1
        <4>4. Len(first) \in Nat /\ Len(inherited) \in Nat
          BY <2>1
        <4>5. both # <<>>
          BY <4>2, <4>3, <4>4
        <4> QED  BY <2>1, <4>2, <4>3, <4>4, <4>5
      <3> QED  BY <3>1, <3>2
    <2>6. Last(both) \in Outputs
      BY <2>5, HeadLast
    <2> HIDE DEF both
    <2>7. swept \in Traces(c)
      BY <2>3, <2>6, SetSpentGood
    <2>8. own \in Seq(Outputs)
      <3>1. Len(inherited) + 1 \in 1..(Len(both) + 1) /\ Len(both) \in Len(inherited)..Len(both)
            /\ (Len(inherited) + 1) - 1 = Len(inherited)
        BY <2>5
      <3> QED  BY <2>5, <3>1, SubSeqProperties
    <2> HIDE DEF swept, own
    <2>9. AddNews(ReleaseMarks(swept, own), "InsufficientFunds", 0) \in Traces(c)
      <3>1. ReleaseMarks(swept, own) \in Traces(c)
        BY <2>7, <2>8, ReleaseMarksGood
      <3> QED  BY <3>1, AddNewsGood DEF Kinds
    <2>10. \/ b = [trace |-> marked, inputs |-> first]
           \/ b = [trace |-> swept, inputs |-> both]
           \/ b = poor
      BY <1>1, <1>4
    <2> HIDE DEF b
    <2>11. /\ b.trace \in Traces(c) /\ b.inputs \in Seq(Outputs)
           /\ b.inputs # <<>> => Len(inherited) <= Len(b.inputs)
      <3>1. CASE b = [trace |-> marked, inputs |-> first]
        <4>1. b.trace = marked /\ b.inputs = first
          BY <3>1
        <4> QED  BY <2>1, <2>3, <4>1
      <3>2. CASE b = [trace |-> swept, inputs |-> both]
        <4>1. b.trace = swept /\ b.inputs = both
          BY <3>2
        <4> QED  BY <2>5, <2>7, <4>1
      <3>3. CASE b = poor
        <4>1. b.trace = AddNews(ReleaseMarks(swept, own), "InsufficientFunds", 0) /\ b.inputs = <<>>
          BY <3>3
        <4> QED  BY <2>9, <4>1
      <3> QED  BY <2>10, <3>1, <3>2, <3>3
    <2> QED  BY <2>11 DEF b
  <1> QED
    BY <1>3, <1>4

\* The speedup a transaction is stored as.
LEMMA SlotsAreSpeedups ==
    ASSUME NEW content
    PROVE  SlotsFor(content) \subseteq Speedups
  <1> DEFINE same == {s \in Speedups : tx[s] = content}
             unused == {s \in Speedups : tx[s] = NoTx}
  <1>1. SlotsFor(content) = IF same # {} THEN same ELSE IF unused # {} THEN {Min(unused)} ELSE {}
    BY DEF SlotsFor
  <1>2. unused \subseteq Speedups /\ unused \in SUBSET Nat /\ same \subseteq Speedups
    BY DEF Speedups
  <1> HIDE DEF same, unused
  <1>3. unused # {} => Min(unused) \in Speedups
    BY <1>2, MinExists
  <1> QED
    BY <1>1, <1>2, <1>3

\* s may be the one prebuilt speedup.
MayBuild(c, s, r) ==
    c.mode = "calm" => r.state = "ToDispatch" /\ s \in c.prebuilt /\ s \notin c.sent \cup c.settled

\* A boost is saved.
LEMMA SaveBoostGood ==
    ASSUME NEW c, NEW t \in Traces(c), NEW s \in Speedups, NEW r \in Rec, NEW capped, MayBuild(c, s, r)
    PROVE  SaveBoost(t, s, r, capped) \in Traces(c)
  <1> DEFINE saved == InsertSpeedup(t, s, r)
             told == IF capped THEN AddNews(saved, "MaxFeeRateReached", s) ELSE saved
             x == r.replaces
             d == Now(told)
             o == d.rec[x]
             e == [o EXCEPT !.rate = MaxRate]
  <1>1. saved \in Traces(c)
    BY InsertSpeedupGood DEF MayBuild
  <1>2. told \in Traces(c)
    <2> HIDE DEF saved
    <2>1. s \in Ids \cup Fundings \cup {0}
      BY Names
    <2>2. AddNews(saved, "MaxFeeRateReached", s) \in Traces(c)
      BY <1>1, <2>1, AddNewsGood DEF Kinds
    <2> QED  BY <1>1, <2>2
  <1>3. SaveBoost(t, s, r, capped) = IF capped /\ IsRbf(r) THEN UpdateTx(told, x, e) ELSE told
    BY DEF SaveBoost
  <1> HIDE DEF told
  <1>4. CASE ~(capped /\ IsRbf(r))
    BY <1>2, <1>3, <1>4
  <1>5. CASE capped /\ IsRbf(r)
    <2>1. x \in Speedups /\ x \in Ids /\ x \notin Parents
      <3>1. x \in 0..MaxSpeedups /\ x # 0 /\ MaxSpeedups \in Nat
        BY <1>5, RecFields, Names DEF IsRbf
      <3>2. x \in Speedups
        BY <3>1 DEF Speedups
      <3> QED  BY <3>2, Names
    <2>2. d \in Good(c) /\ d = Now(told) /\ o \in Rec /\ o = d.rec[x]
      BY <1>2, <2>1, TraceNow, StoreFields
    <2>3. UpdateTx(told, x, e) = SaveBoost(t, s, r, capped)
      BY <1>3, <1>5
    <2> HIDE DEF x, d, o
    <2>4. e \in Rec /\ e.state = o.state /\ e.broadcast = o.broadcast
      <3>1. MaxRate \in 0..MaxRate
        BY SpeedupAssumption
      <3> QED  BY <2>2, <3>1 DEF Rec
    <2> HIDE DEF e
    <2>5. c.mode = "calm" /\ x \in Speedups => Fits(c, Now(told).list, x, e)
      BY <2>2, <2>4, Refit
    <2> QED  BY <1>2, <2>1, <2>3, <2>4, <2>5, UpdateTxGood
  <1> QED
    BY <1>4, <1>5

DropLoop(t, seq) == FoldLeft(RemovePendingSpeedupParent, t, seq)

\* The loop of SaveFirst.
LEMMA DropFold ==
    ASSUME NEW A, NEW seq \in Seq(A), NEW T, NEW t \in T,
           \A acc \in T, x \in A : RemovePendingSpeedupParent(acc, x) \in T
    PROVE  DropLoop(t, seq) \in T
  <1> DEFINE n == Len(seq)
             Op(acc, k) == RemovePendingSpeedupParent(acc, seq[k])
             Solves(g) == g = [s \in SUBSET (DOMAIN seq) |->
                                 IF s = {} THEN t ELSE Op(g[s \ {Max(s)}], Max(s))]
             step == [p \in T \X (1..n) |-> Op(p[1], p[2])]
             iter == CHOOSE g : Solves(g)
  <1>1. n \in Nat /\ DOMAIN seq = 1..n /\ \A k \in 1..n : seq[k] \in A
    OBVIOUS
  <1>2. DropLoop(t, seq) = iter[DOMAIN seq]
    BY Zenon DEF DropLoop, FoldLeft, MapThenFoldSet
  <1>3. \A acc \in T, k \in 1..n : Op(acc, k) \in T
    BY <1>1
  <1> HIDE DEF n, Op
  <1>4. step \in [T \X (1..n) -> T] /\ \A acc \in T, k \in 1..n : step[<<acc, k>>] = Op(acc, k)
    BY <1>3
  <1> HIDE DEF step
  <1>5. PICK g \in [SUBSET (1..n) -> T] : FoldEquation(g, n, t, step)
    BY <1>1, <1>4, FoldExists
  <1>6. Solves(g)
    <2>1. ASSUME NEW s \in SUBSET (1..n), s # {}
          PROVE  step[<<g[s \ {Max(s)}], Max(s)>>] = Op(g[s \ {Max(s)}], Max(s))
      <3>1. Max(s) \in s /\ g[s \ {Max(s)}] \in T
        BY <1>1, <2>1, MaxExists
      <3> QED  BY <1>4, <3>1
    <2> QED  BY <1>1, <1>5, <2>1 DEF FoldEquation
  <1>7. Solves(iter)
    BY <1>6
  <1> HIDE DEF iter
  <1>8. iter[{}] = t /\ \A s \in SUBSET (1..n) : s # {} => iter[s] = Op(iter[s \ {Max(s)}], Max(s))
    BY <1>1, <1>7
  <1>9. ASSUME NEW k \in 1..n, iter[1..(k - 1)] \in T  PROVE iter[1..k] \in T
    <2>1. /\ 1..k \in SUBSET (1..n) /\ 1..k # {}
          /\ Max(1..k) = k /\ (1..k) \ {Max(1..k)} = 1..(k - 1)
      BY <1>1, IntervalUnfolds
    <2>2. iter[1..k] = Op(iter[1..(k - 1)], k)
      BY <1>8, <2>1
    <2> QED  BY <1>3, <1>9, <2>2
  <1>10. iter[1..n] \in T
    BY <1>1, <1>8, <1>9, LoopStays
  <1> QED
    BY <1>1, <1>2, <1>10

\* The first CPFP of a batch is saved.
LEMMA SaveFirstGood ==
    ASSUME NEW c, NEW t \in Traces(c), NEW s \in Speedups, NEW r \in Rec, NEW capped, MayBuild(c, s, r)
    PROVE  SaveFirst(t, s, r, capped) \in Traces(c)
  <1> DEFINE T == Traces(c)
             dropped == DropLoop(t, r.parents)
             told == IF capped THEN AddNews(dropped, "MaxFeeRateReached", s) ELSE dropped
  <1>1. r.parents \in Seq(Ids)
    BY RecFields DEF Lists
  <1>2. t \in T /\ \A acc \in T, x \in Ids : RemovePendingSpeedupParent(acc, x) \in T
    BY RemovePendingGood
  <1>3. SaveFirst(t, s, r, capped) = InsertSpeedup(told, s, r)
    BY Zenon DEF SaveFirst, DropLoop
  <1>4. dropped \in T
    <2> HIDE DEF T
    <2> QED  BY <1>1, <1>2, DropFold
  <1> HIDE DEF dropped
  <1>5. told \in Traces(c)
    <2>1. s \in Ids \cup Fundings \cup {0}
      BY Names
    <2>2. AddNews(dropped, "MaxFeeRateReached", s) \in Traces(c)
      BY <1>4, <2>1, AddNewsGood DEF Kinds
    <2> QED  BY <1>4, <2>2
  <1> HIDE DEF told
  <1> QED
    BY <1>3, <1>5, InsertSpeedupGood DEF MayBuild

-----------------------------------------------------------------------------
(* The chain and the index. *)

\* The mempool keeps a part of what it is offered.
LEMMA ViableSubset ==
    ASSUME NEW S, NEW C
    PROVE  Viable(S, C) \subseteq S
  BY DEF Viable

\* Nothing moves.
LEMMA NodeKept ==
    ASSUME NodeTypeOK, UNCHANGED <<chainVars, indexVars>>
    PROVE  NodeTypeOK'
  BY DEF NodeTypeOK, chainVars, indexVars

\* The node accepts broadcasts.
LEMMA AcceptType ==
    ASSUME NodeTypeOK, NEW S \in SUBSET Ids, Accept(S), UNCHANGED indexVars
    PROVE  NodeTypeOK'
  <1>1. mempool' \subseteq Ids /\ relayed' \subseteq Ids
    BY DEF NodeTypeOK, Accept
  <1>2. UNCHANGED <<height, minedAt, lost, evictions, vheight, vmined>>
    BY DEF Accept, indexVars
  <1> QED
    BY <1>1, <1>2 DEF NodeTypeOK

\* The index follows the chain.
LEMMA SyncType ==
    ASSUME NodeTypeOK, Sync, UNCHANGED chainVars
    PROVE  NodeTypeOK'
  BY DEF NodeTypeOK, Sync, chainVars

\* A block is mined.
LEMMA MineType ==
    ASSUME NodeTypeOK, NEW B, Mine(B)
    PROVE  NodeTypeOK'
  <1>1. height' \in 1..MaxHeight /\ height + 1 \in 0..MaxHeight
    BY SpeedupNodeAssumption DEF NodeTypeOK, Mine
  <1>2. minedAt' \in [Ids -> 0..MaxHeight]
    BY <1>1 DEF NodeTypeOK, Mine
  <1>3. mempool' \subseteq Ids
    BY ViableSubset DEF NodeTypeOK, Mine
  <1>4. UNCHANGED <<relayed, lost, evictions, vheight, vmined>>
    BY DEF Mine, indexVars
  <1> QED
    BY <1>1, <1>2, <1>3, <1>4 DEF NodeTypeOK

\* A branch replaces blocks.
LEMMA ReorgType ==
    ASSUME NodeTypeOK, NEW k \in 1..MaxReorg, NEW B, Reorg(k, B)
    PROVE  NodeTypeOK'
  <1>1. /\ height' \in 1..MaxHeight /\ height - k + 1 \in 0..MaxHeight /\ 0 \in 0..MaxHeight
    BY SpeedupNodeAssumption DEF NodeTypeOK, Reorg
  <1>2. minedAt' \in [Ids -> 0..MaxHeight]
    BY <1>1 DEF NodeTypeOK, Reorg
  <1>3. mempool' \subseteq mempool \cup OnChain
    BY ViableSubset DEF Reorg
  <1>4. UNCHANGED <<relayed, lost, evictions, vheight, vmined>>
    BY DEF Reorg, indexVars
  <1> QED
    BY <1>1, <1>2, <1>3, <1>4 DEF NodeTypeOK, OnChain

\* Every step of the network.
LEMMA NetworkType ==
    ASSUME NodeTypeOK, NetworkStep
    PROVE  NodeTypeOK'
  <1>1. CASE \E B \in SUBSET relayed : Mine(B)
    BY <1>1, MineType
  <1>2. CASE \E k \in 1..MaxReorg, B \in SUBSET relayed : Reorg(k, B)
    BY <1>2, ReorgType
  <1>3. CASE \E x \in Ids : Evict(x)
    <2>1. PICK x \in Ids : Evict(x)
      BY <1>3
    <2>2. mempool' \subseteq mempool /\ evictions' \in 0..MaxEvictions
      BY <2>1, ViableSubset, SpeedupNodeAssumption DEF Evict, NodeTypeOK
    <2> QED  BY <2>1, <2>2 DEF NodeTypeOK, Evict, indexVars
  <1>4. CASE \E p \in Parents : DoubleSpend(p)
    <2>1. PICK p \in Parents : DoubleSpend(p)
      BY <1>4
    <2>2. mempool' \subseteq mempool /\ lost' \subseteq Doomed
      BY <2>1, ViableSubset DEF DoubleSpend, NodeTypeOK
    <2> QED  BY <2>1, <2>2 DEF NodeTypeOK, DoubleSpend, indexVars
  <1> QED
    BY <1>1, <1>2, <1>3, <1>4 DEF NetworkStep

-----------------------------------------------------------------------------
(* The inductive invariant. *)

\* Until the first fault the stores are calm.
Mode == IF faults = 0 THEN "calm" ELSE "shape"

AtMostOne(P) == \A a, b \in P : a = b

\* The store has its shape and, before the first fault, at most one prebuilt
\* speedup; what is being sent is in the SpeedupList.
DbOK ==
    \E P \in SUBSET Speedups : AtMostOne(P) /\ db \in Good(Between(Mode, P, DOMAIN snap))

Outcomes == {"Success", "ParentFailed", "DispatchError"}

Phases == {"idle", "review", "dispatch", "send", "batch"}

\* The dispatch pass works on copies of speedups, and only while it runs.
PassOK ==
    /\ DOMAIN snap \subseteq Speedups /\ \A s \in DOMAIN snap : snap[s] \in Rec
    /\ todo \in Seq(DOMAIN snap)
    /\ results \in Seq((DOMAIN snap) \X Outcomes)
    /\ pc \in Phases
    /\ pc # "send" => DOMAIN snap = {}

SpeedupInv == NodeTypeOK /\ TxShape /\ faults \in Nat /\ PassOK /\ DbOK

\* A step begins with a good store.
LEMMA StepStart ==
    ASSUME SpeedupInv
    PROVE  /\ db \in Store /\ Now(<<db>>) = db
           /\ \E P \in SUBSET Speedups :
                /\ AtMostOne(P)
                /\ db \in Good(Between(Mode, P, {}))
                /\ <<db>> \in Traces(Between(Mode, P, {}))
                /\ <<db>> \in Traces(Between(Mode, P, DOMAIN snap))
  <1>1. PICK P \in SUBSET Speedups : AtMostOne(P) /\ db \in Good(Between(Mode, P, DOMAIN snap))
    BY DEF SpeedupInv, DbOK
  <1> DEFINE c == Between(Mode, P, DOMAIN snap)
             e == Between(Mode, P, {})
  <1>2. Good(c) \subseteq Good(e)
    <2>1. /\ e.mode = c.mode /\ c.prebuilt \subseteq e.prebuilt /\ e.sent \subseteq c.sent
          /\ e.settled \subseteq c.settled /\ e.listed \subseteq c.listed
      BY DEF Between
    <2> HIDE DEF c, e
    <2> QED  BY <2>1, Weaker
  <1>3. db \in Good(e) /\ db \in Good(c) /\ db \in Store
    BY <1>1, <1>2 DEF Good
  <1> HIDE DEF c, e
  <1>4. <<db>> \in Traces(c) /\ <<db>> \in Traces(e) /\ Now(<<db>>) = db
    BY <1>3, TraceStart
  <1> QED
    BY <1>1, <1>3, <1>4 DEF c, e

\* A step commits the last store of its trace.
LEMMA CommitOK ==
    ASSUME faults \in Nat, NEW P \in SUBSET Speedups, AtMostOne(P), NEW t, NEW to,
           t \in Traces(Between(Mode, P, DOMAIN snap')), Commit(t, to)
    PROVE  DbOK' /\ faults' \in Nat
  <1>1. db' = Now(t) /\ faults' = faults
    BY DEF Commit
  <1>2. Now(t) \in Good(Between(Mode, P, DOMAIN snap'))
    BY TraceNow
  <1>3. Mode' = Mode
    BY <1>1 DEF Mode
  <1> QED
    BY <1>1, <1>2, <1>3 DEF DbOK

\* A crash keeps some store of the trace, which has its shape.
LEMMA CutOK ==
    ASSUME faults \in Nat, NEW c, NEW t \in Traces(c), CutShort(t)
    PROVE  DbOK' /\ faults' \in Nat /\ PassOK'
  <1>1. /\ faults' = faults + 1 /\ pc' = "idle" /\ todo' = <<>> /\ results' = <<>>
        /\ snap' = NoCopies
    BY DEF CutShort
  <1>2. DOMAIN snap' = {}
    BY <1>1 DEF NoCopies
  <1>3. db' \in Store
    <2>1. t \in Seq(Store)
      BY DEF Traces
    <2>2. PICK i \in 1..(Len(t) - 1) : db' = t[i]
      BY DEF CutShort
    <2>3. i \in 1..Len(t)
      BY <2>1
    <2> QED  BY <2>1, <2>2, <2>3
  <1>4. Mode' = "shape"
    BY <1>1 DEF Mode
  <1>5. DbOK'
    <2>1. AtMostOne({}) /\ {} \in SUBSET Speedups
      BY DEF AtMostOne
    <2>2. db' \in Good(Between(Mode', {}, DOMAIN snap'))
      BY <1>3, <1>4 DEF Good, Between
    <2> QED  BY <2>1, <2>2 DEF DbOK
  <1>6. PassOK'
    BY <1>1, <1>2 DEF PassOK, Phases
  <1> QED
    BY <1>1, <1>5, <1>6

\* Either of the two.
LEMMA StepOK ==
    ASSUME faults \in Nat, PassOK, NEW P \in SUBSET Speedups, AtMostOne(P), NEW t,
           t \in Traces(Between(Mode, P, {})), NEW to \in Phases, DOMAIN snap = {}, Step(t, to)
    PROVE  DbOK' /\ faults' \in Nat /\ PassOK'
  <1>1. CASE CutShort(t)
    BY <1>1, CutOK
  <1>2. CASE Commit(t, to) /\ UNCHANGED <<todo, results, snap, retryReady, abandoned>>
    <2>1. DOMAIN snap' = {} /\ pc' = to /\ UNCHANGED <<todo, results, snap>>
      BY <1>2 DEF Commit
    <2>2. DbOK' /\ faults' \in Nat
      BY <1>2, <2>1, CommitOK
    <2>3. PassOK'
      BY <2>1 DEF PassOK
    <2> QED  BY <2>2, <2>3
  <1> QED
    BY <1>1, <1>2 DEF Step

\* The built transactions are left alone.
LEMMA TxKept ==
    ASSUME TxShape, UNCHANGED tx
    PROVE  TxShape'
  BY DEF TxShape

\* The actions between ticks and those whose writes leave the pass alone.
LEMMA QuietStep ==
    ASSUME SpeedupInv, pc # "send", NEW P \in SUBSET Speedups, AtMostOne(P), NEW t,
           t \in Traces(Between(Mode, P, {})), NEW to \in Phases, Step(t, to),
           UNCHANGED tx, NodeTypeOK'
    PROVE  SpeedupInv'
  <1>1. faults \in Nat /\ PassOK /\ DOMAIN snap = {} /\ TxShape
    BY DEF SpeedupInv, PassOK
  <1>2. DbOK' /\ faults' \in Nat /\ PassOK'
    BY <1>1, StepOK
  <1> QED
    BY <1>1, <1>2, TxKept DEF SpeedupInv

-----------------------------------------------------------------------------
(* Every action keeps the invariant. *)

\* Register, Cancel and AddFunding.
LEMMA ClientOK ==
    ASSUME SpeedupInv, ClientStep
    PROVE  SpeedupInv'
  <1>1. PICK P \in SUBSET Speedups : AtMostOne(P) /\ <<db>> \in Traces(Between(Mode, P, {}))
    BY StepStart
  <1> DEFINE c == Between(Mode, P, {})
  <1>2. "idle" \in Phases /\ NodeTypeOK /\ <<db>> \in Traces(c)
    BY <1>1 DEF Phases, SpeedupInv
  <1>3. ASSUME NEW p \in Parents, Register(p)  PROVE SpeedupInv'
    <2> DEFINE u == UpdateTx(<<db>>, p, NewRecord)
               t == AddPendingSpeedupParent(u, p)
    <2>1. Step(t, "idle") /\ UNCHANGED tx /\ UNCHANGED <<chainVars, indexVars>> /\ pc # "send"
      BY <1>3 DEF Register
    <2> HIDE DEF c
    <2>2. p \in Ids /\ p \notin Speedups /\ NewRecord \in Rec /\ NewRecord.replaces = 0
      BY Names, BlankRecords
    <2>3. u \in Traces(c)
      BY <1>2, <2>2, UpdateTxGood
    <2> HIDE DEF u
    <2>4. t \in Traces(c)
      BY <2>3, AddPendingGood
    <2> HIDE DEF t
    <2>5. NodeTypeOK'
      BY <1>2, <2>1, NodeKept
    <2> QED  BY <1>1, <1>2, <2>1, <2>4, <2>5, QuietStep DEF c
  <1>4. ASSUME NEW p \in Cancelled, Cancel(p)  PROVE SpeedupInv'
    <2> DEFINE u == RemovePendingSpeedupParent(<<db>>, p)
               t == RemoveTx(u, p)
    <2>1. Step(t, "idle") /\ UNCHANGED tx /\ UNCHANGED <<chainVars, indexVars>> /\ pc # "send"
      BY <1>4 DEF Cancel
    <2> HIDE DEF c
    <2>2. p \in Ids /\ p \notin Speedups
      BY Names, SpeedupAssumption
    <2>3. u \in Traces(c)
      BY <1>2, RemovePendingGood
    <2> HIDE DEF u
    <2>4. t \in Traces(c)
      BY <2>2, <2>3, RemoveTxGood
    <2> HIDE DEF t
    <2>5. NodeTypeOK'
      BY <1>2, <2>1, NodeKept
    <2> QED  BY <1>1, <1>2, <2>1, <2>4, <2>5, QuietStep DEF c
  <1>5. ASSUME NEW f \in Fundings, AddFunding(f)  PROVE SpeedupInv'
    <2> DEFINE t == IF Amount[f] >= MinFunding THEN AppendFunding(<<db>>, f)
                    ELSE AddNews(<<db>>, "InvalidFundingUtxo", f)
    <2>1. Step(t, "idle") /\ UNCHANGED tx /\ UNCHANGED <<chainVars, indexVars>> /\ pc # "send"
      BY <1>5 DEF AddFunding
    <2> HIDE DEF c
    <2>2. AppendFunding(<<db>>, f) \in Traces(c)
      BY <1>2, AppendFundingGood, Names
    <2>3. AddNews(<<db>>, "InvalidFundingUtxo", f) \in Traces(c)
      BY <1>2, AddNewsGood DEF Kinds
    <2>4. t \in Traces(c)
      BY <2>2, <2>3
    <2> HIDE DEF t
    <2>5. NodeTypeOK'
      BY <1>2, <2>1, NodeKept
    <2> QED  BY <1>1, <1>2, <2>1, <2>4, <2>5, QuietStep DEF c
  <1> QED
    BY <1>3, <1>4, <1>5 DEF ClientStep

\* The tick begins.
LEMMA TickStartOK ==
    ASSUME SpeedupInv, TickStart
    PROVE  SpeedupInv'
  <1>1. PICK P \in SUBSET Speedups : AtMostOne(P) /\ db \in Good(Between(Mode, P, {})) /\ db \in Store
    BY StepStart
  <1> DEFINE c == Between(Mode, P, {})
             d == [db EXCEPT !.news = {}]
             t == EvictStaleTxs(<<d>>, height)
  <1>2. Step(t, "review") /\ Sync /\ UNCHANGED <<tx, chainVars>> /\ pc # "send"
    BY DEF TickStart
  <1>3. c.sent = {} /\ c.listed = {}
    BY DEF Between
  <1> HIDE DEF c
  <1>4. d \in Store /\ d.rec = db.rec /\ d.list = db.list
    BY <1>1, WriteNews
  <1> HIDE DEF d
  <1>5. d \in Good(c)
    BY <1>1, <1>4, GoodElsewhere DEF c
  <1>6. <<d>> \in Traces(c)
    BY <1>5, TraceStart
  <1>7. t \in Traces(c)
    BY <1>3, <1>6, EvictStaleTxsGood
  <1> HIDE DEF t
  <1>8. NodeTypeOK'
    BY <1>2, SyncType DEF SpeedupInv
  <1> QED
    BY <1>1, <1>2, <1>7, <1>8, QuietStep DEF c, Phases

\* Steps 1 and 2 of the tick.
LEMMA ReviewOK ==
    ASSUME SpeedupInv, Review
    PROVE  SpeedupInv'
  <1>1. PICK P \in SUBSET Speedups : AtMostOne(P) /\ <<db>> \in Traces(Between(Mode, P, {}))
    BY StepStart
  <1> DEFINE c == Between(Mode, P, {})
  <1>2. PICK orphans \in SUBSET {x \in Ids : db.rec[x].state = "Confirmed" /\ x \notin Present} :
          LET parents == ReviewPass(<<db>>, SetToSeq(Parents), orphans)
          IN  Step(ReviewPass(parents, Ordered(Now(parents)), orphans), "dispatch")
    BY DEF Review
  <1> DEFINE u == ReviewPass(<<db>>, SetToSeq(Parents), orphans)
             t == ReviewPass(u, Ordered(Now(u)), orphans)
  <1>3. Step(t, "dispatch") /\ UNCHANGED tx /\ UNCHANGED <<chainVars, indexVars>> /\ pc # "send"
    BY <1>2 DEF Review
  <1>4. NodeTypeOK /\ TxShape
    BY DEF SpeedupInv
  <1>5. u \in Traces(c)
    <2>1. SetToSeq(Parents) \in Seq(Parents)
      BY Names, SubsetsOfIds
    <2>2. SetToSeq(Parents) \in Seq(Ids)
      BY <2>1, Names, SeqWider
    <2> QED  BY <1>1, <1>4, <2>2, ReviewPassGood
  <1> HIDE DEF u
  <1>6. t \in Traces(c)
    <2>1. Ordered(Now(u)) \in Seq(Speedups)
      BY <1>5, TraceNow, OrderedSeq
    <2>2. Ordered(Now(u)) \in Seq(Ids)
      BY <2>1, Names, SeqWider
    <2> QED  BY <1>4, <1>5, <2>2, ReviewPassGood
  <1> HIDE DEF t
  <1>7. NodeTypeOK'
    BY <1>3, <1>4, NodeKept
  <1> QED
    BY <1>1, <1>3, <1>6, <1>7, QuietStep DEF c, Phases

\* What is to be sent is in the SpeedupList.
LEMMA GoodListed ==
    ASSUME NEW m, NEW P, NEW L, NEW d \in Good(Between(m, P, {})), L \subseteq ToSet(d.list)
    PROVE  d \in Good(Between(m, P, L))
  BY DEF Good, Calm, Fits, Between

\* dispatch_pending; the speedups to send are listed.
LEMMA DispatchParentsOK ==
    ASSUME SpeedupInv, DispatchParents
    PROVE  SpeedupInv'
  <1>1. PICK P \in SUBSET Speedups : AtMostOne(P) /\ <<db>> \in Traces(Between(Mode, P, {}))
    BY StepStart
  <1> DEFINE c == Between(Mode, P, {})
             due == {p \in Parents : db.rec[p].state = "ToDispatch"}
             batch == RateLimited(db, due, retryReady)
             ready == retryReady /\ Retrying(db, due) = {}
  <1>2. PICK taken \in SUBSET {p \in batch : Acceptable(p)} :
          LET t == HandleLoop(<<db>>, SetToSeq(batch), taken)
          IN  /\ Accept(taken)
              /\ \/ /\ Commit(t, "send")
                    /\ ReadSpeedups(Now(t), ready)
                    /\ UNCHANGED <<results, abandoned>>
                 \/ CutShort(t)
    BY Zenon DEF DispatchParents, HandleLoop
  <1> DEFINE t == HandleLoop(<<db>>, SetToSeq(batch), taken)
             d == Now(t)
             queued == {s \in Listed(d) : d.rec[s].state = "ToDispatch"}
             sendable == RateLimited(d, queued, ready)
  <1>3. /\ Accept(taken) /\ UNCHANGED <<tx, indexVars>> /\ pc # "send"
        /\ \/ /\ Commit(t, "send") /\ todo' = Where(Ordered(d), sendable)
              /\ snap' = [s \in sendable |-> d.rec[s]] /\ results' = results
           \/ CutShort(t)
    BY <1>2 DEF DispatchParents, ReadSpeedups
  <1>4. NodeTypeOK /\ TxShape /\ db \in Store /\ faults \in Nat /\ PassOK
    BY StepStart DEF SpeedupInv
  <1>5. batch \subseteq Parents /\ batch \in SUBSET Ids
    BY Names DEF RateLimited
  <1>6. taken \in SUBSET Ids
    BY <1>5
  <1> HIDE DEF batch, ready
  <1>7. t \in Traces(c)
    <2> DEFINE T == Traces(c)
               q == SetToSeq(batch)
    <2>1. q \in Seq(batch)
      BY <1>5, SubsetsOfIds
    <2>2. <<db>> \in T /\ \A acc \in T, p \in batch : HandleParent(acc, p, taken) \in T
      BY <1>1, <1>4, <1>5, HandleParentGood
    <2>3. t = HandleLoop(<<db>>, q, taken)
      OBVIOUS
    <2> HIDE DEF T, q, t
    <2>4. t \in T
      BY <2>1, <2>2, <2>3, HandleFold
    <2> QED  BY <2>4 DEF T
  <1> HIDE DEF t
  <1>8. NodeTypeOK'
    BY <1>3, <1>4, <1>6, AcceptType
  <1>9. TxShape'
    BY <1>3, <1>4, TxKept
  <1>10. CASE CutShort(t)
    <2>1. DbOK' /\ faults' \in Nat /\ PassOK'
      BY <1>4, <1>7, <1>10, CutOK
    <2> QED  BY <1>8, <1>9, <2>1 DEF SpeedupInv
  <1>11. CASE /\ Commit(t, "send") /\ todo' = Where(Ordered(d), sendable)
              /\ snap' = [s \in sendable |-> d.rec[s]] /\ results' = results
    <2>1. d \in Good(c) /\ d \in Store /\ t \in Seq(Store) /\ t # <<>> /\ Last(t) = d
      BY <1>7, TraceNow DEF Traces, Now
    <2> HIDE DEF d
    <2>2. /\ Ordered(d) \in Seq(Speedups) /\ ToSet(Ordered(d)) = Listed(d)
          /\ Listed(d) \subseteq ToSet(d.list) /\ Listed(d) \subseteq Speedups
      BY <2>1, OrderedSeq
    <2>3. sendable \subseteq Listed(d)
      BY DEF RateLimited
    <2> HIDE DEF sendable
    <2>4. DOMAIN snap' = sendable /\ pc' = "send"
      BY <1>11 DEF Commit
    <2>5. \A s \in sendable : snap'[s] \in Rec
      <3>1. \A s \in sendable : s \in Ids
        BY <2>2, <2>3, Names
      <3>2. \A s \in Ids : d.rec[s] \in Rec
        BY <2>1, StoreFields
      <3> QED  BY <1>11, <3>1, <3>2
    <2>6. todo' \in Seq(sendable)
      <3> DEFINE q == Where(Ordered(d), sendable)
      <3>1. q \in Seq(Speedups) /\ ToSet(q) = Listed(d) \cap sendable
        BY <2>2, WhereKeeps
      <3> HIDE DEF q
      <3>2. \A i \in 1..Len(q) : q[i] \in sendable
        BY <3>1, ToSetOfSeq
      <3>3. q \in Seq(sendable)
        BY <3>1, <3>2
      <3> QED  BY <1>11, <3>3 DEF q
    <2>7. results' \in Seq(sendable \X Outcomes)
      <3>1. results \in Seq((DOMAIN snap) \X Outcomes) /\ DOMAIN snap = {}
        BY <1>3, <1>4 DEF PassOK
      <3>2. (DOMAIN snap) \X Outcomes = {}
        BY <3>1
      <3> DEFINE A == sendable \X Outcomes
      <3>3. results \in Seq({})
        BY <3>1, <3>2
      <3> HIDE DEF A
      <3>4. results \in Seq(A)
        BY <3>3
      <3> QED  BY <1>11, <3>4 DEF A
    <2>8. PassOK'
      BY <2>2, <2>3, <2>4, <2>5, <2>6, <2>7 DEF PassOK, Phases
    <2>9. t \in Traces(Between(Mode, P, DOMAIN snap'))
      <3>1. d \in Good(Between(Mode, P, sendable))
        BY <2>1, <2>2, <2>3, GoodListed
      <3> QED  BY <2>1, <2>4, <3>1 DEF Traces
    <2>10. DbOK' /\ faults' \in Nat
      BY <1>1, <1>4, <1>11, <2>9, CommitOK
    <2> QED  BY <1>8, <1>9, <2>8, <2>10 DEF SpeedupInv
  <1> QED
    BY <1>3, <1>10, <1>11

\* A speedup is sent: the store is left alone.
LEMMA SendSpeedupOK ==
    ASSUME SpeedupInv, SendSpeedup
    PROVE  SpeedupInv'
  <1> DEFINE s == Head(todo)
             L == DOMAIN snap
  <1>1. /\ pc = "send" /\ todo # <<>> /\ todo' = Tail(todo)
        /\ UNCHANGED <<tx, db, indexVars, pc, snap, faults>>
        /\ \/ UNCHANGED chainVars
           \/ Accept({s})
        /\ \/ results' = results
           \/ \E o \in Outcomes : results' = Append(results, <<s, o>>)
    BY DEF SendSpeedup, history, Outcomes
  <1>2. NodeTypeOK /\ TxShape /\ PassOK /\ DbOK /\ faults \in Nat
    BY DEF SpeedupInv
  <1>3. todo \in Seq(L) /\ L \subseteq Speedups /\ results \in Seq(L \X Outcomes)
    BY <1>2 DEF PassOK
  <1> HIDE DEF L
  <1>4. s \in L /\ Tail(todo) \in Seq(L)
    BY <1>1, <1>3
  <1>5. {s} \in SUBSET Ids
    BY <1>3, <1>4, Names
  <1> HIDE DEF s
  <1>6. NodeTypeOK'
    BY <1>1, <1>2, <1>5, NodeKept, AcceptType
  <1>7. results' \in Seq(L \X Outcomes)
    <2>1. CASE results' = results
      BY <1>3, <2>1
    <2>2. CASE \E o \in Outcomes : results' = Append(results, <<s, o>>)
      <3>1. PICK o \in Outcomes : results' = Append(results, <<s, o>>)
        BY <2>2
      <3> DEFINE A == L \X Outcomes
                 e == <<s, o>>
      <3>2. e \in A /\ results \in Seq(A) /\ results' = Append(results, e)
        BY <1>3, <1>4, <3>1
      <3> HIDE DEF A, e
      <3>3. results' \in Seq(A)
        BY <3>2
      <3> QED  BY <3>3 DEF A
    <2> QED  BY <1>1, <2>1, <2>2
  <1>8. PassOK'
    BY <1>1, <1>2, <1>4, <1>7 DEF PassOK, L
  <1>9. DbOK'
    BY <1>1, <1>2 DEF DbOK, Mode
  <1> QED
    BY <1>1, <1>2, <1>6, <1>8, <1>9, TxKept DEF SpeedupInv

\* An outcome is handled: what was sent is still listed.
LEMMA HandleSpeedupOK ==
    ASSUME SpeedupInv, HandleSpeedup
    PROVE  SpeedupInv'
  <1>1. PICK P \in SUBSET Speedups :
          AtMostOne(P) /\ <<db>> \in Traces(Between(Mode, P, DOMAIN snap))
    BY StepStart
  <1> DEFINE c == Between(Mode, P, DOMAIN snap)
             s == Head(results)[1]
             o == Head(results)[2]
             t == CASE o = "Success" -> MarkAccepted(<<db>>, s, snap[s])
                    [] o = "ParentFailed" -> SettleFailedChild(<<db>>, s)
                    [] o = "DispatchError" -> Classify(<<db>>, s, snap[s])
  <1>2. /\ pc = "send" /\ results # <<>> /\ UNCHANGED tx /\ UNCHANGED <<chainVars, indexVars>>
        /\ \/ Commit(t, "send") /\ results' = Tail(results) /\ UNCHANGED <<todo, snap>>
           \/ CutShort(t)
    BY DEF HandleSpeedup
  <1>3. NodeTypeOK /\ TxShape /\ PassOK /\ faults \in Nat
    BY DEF SpeedupInv
  <1>4. /\ Head(results) \in (DOMAIN snap) \X Outcomes
        /\ Tail(results) \in Seq((DOMAIN snap) \X Outcomes)
    <2> DEFINE A == (DOMAIN snap) \X Outcomes
    <2>1. results \in Seq(A)
      BY <1>3 DEF PassOK
    <2> HIDE DEF A
    <2>2. Head(results) \in A /\ Tail(results) \in Seq(A)
      BY <1>2, <2>1
    <2> QED  BY <2>2 DEF A
  <1>5. s \in DOMAIN snap /\ o \in Outcomes /\ s \in Speedups /\ snap[s] \in Rec
    BY <1>3, <1>4 DEF PassOK
  <1> HIDE DEF s, o
  <1>6. s \in Ids /\ s \notin Parents /\ MaySend(c, s)
    BY <1>5, Names DEF MaySend, Between
  <1> HIDE DEF c
  <1>7. t \in Traces(c)
    <2> DEFINE R == Traces(c)
    <2>1. /\ MarkAccepted(<<db>>, s, snap[s]) \in R
          /\ SettleFailedChild(<<db>>, s) \in R
          /\ Classify(<<db>>, s, snap[s]) \in R
      BY <1>1, <1>3, <1>5, <1>6, MarkAcceptedGood, SettleFailedChildGood, ClassifyGood DEF c
    <2> HIDE DEF R
    <2>2. t \in R
      BY <1>5, <2>1 DEF Outcomes
    <2> QED  BY <2>2 DEF R
  <1> HIDE DEF t
  <1>8. NodeTypeOK' /\ TxShape'
    BY <1>2, <1>3, NodeKept, TxKept
  <1>9. CASE CutShort(t)
    <2>1. DbOK' /\ faults' \in Nat /\ PassOK'
      BY <1>3, <1>7, <1>9, CutOK
    <2> QED  BY <1>8, <2>1 DEF SpeedupInv
  <1>10. CASE Commit(t, "send") /\ results' = Tail(results) /\ UNCHANGED <<todo, snap>>
    <2>1. DbOK' /\ faults' \in Nat
      BY <1>1, <1>3, <1>7, <1>10, CommitOK DEF c
    <2>2. PassOK'
      BY <1>3, <1>4, <1>10 DEF PassOK, Commit, Phases
    <2> QED  BY <1>8, <2>1, <2>2 DEF SpeedupInv
  <1> QED
    BY <1>2, <1>9, <1>10

-----------------------------------------------------------------------------
(* Building: only while no speedup is queued. *)

\* No speedup is queued: none is prebuilt.
LEMMA NoneQueued ==
    ASSUME NEW m, NEW P, NEW d \in Good(Between(m, P, {})), ~AnyToDispatch(d)
    PROVE  d \in Good(Between(m, {}, {}))
  <1> DEFINE b == Between(m, P, {})
             c == Between(m, {}, {})
  <1>1. /\ b.mode = m /\ b.sent = {} /\ b.settled = {} /\ b.listed = {}
        /\ c.mode = m /\ c.prebuilt = {} /\ c.sent = {} /\ c.settled = {} /\ c.listed = {}
    BY DEF Between
  <1>2. d \in Good(b)
    OBVIOUS
  <1> HIDE DEF b, c
  <1>3. d \in Store
    BY <1>2 DEF Good
  <1>4. ASSUME m = "calm"  PROVE Calm(c, d)
    <2>1. \A s \in Speedups : Fits(b, d.list, s, d.rec[s])
      BY <1>1, <1>2, <1>4 DEF Good, Calm
    <2>2. ASSUME NEW s \in Speedups  PROVE d.rec[s].state # "ToDispatch"
      <3> SUFFICES ASSUME d.rec[s].state = "ToDispatch"  PROVE FALSE
        OBVIOUS
      <3>1. s \in ToSet(d.list)
        BY <2>1 DEF Fits, Active
      <3>2. s \in Listed(d)
        BY <3>1 DEF Listed, Known
      <3> QED  BY <3>2 DEF AnyToDispatch
    <2>3. \A s \in Speedups : Fits(c, d.list, s, d.rec[s])
      BY <1>1, <2>1, <2>2 DEF Fits
    <2> QED  BY <1>1, <2>3 DEF Calm
  <1> QED
    BY <1>1, <1>3, <1>4 DEF Good, c

\* The case in which s is built.
LEMMA BuildCase ==
    ASSUME NEW m, NEW s \in Speedups, NEW t \in Traces(Between(m, {}, {})), NEW r,
           r.state = "ToDispatch"
    PROVE  /\ t \in Traces(Between(m, {s}, {})) /\ MayBuild(Between(m, {s}, {}), s, r)
           /\ AtMostOne({s}) /\ {s} \in SUBSET Speedups
  <1> DEFINE c == Between(m, {}, {})
             e == Between(m, {s}, {})
  <1>1. /\ e.mode = c.mode /\ c.prebuilt \subseteq e.prebuilt /\ e.sent \subseteq c.sent
        /\ e.settled \subseteq c.settled /\ e.listed \subseteq c.listed
        /\ s \in e.prebuilt /\ e.sent = {} /\ e.settled = {}
    BY DEF Between
  <1> HIDE DEF c, e
  <1>2. Traces(c) \subseteq Traces(e)
    BY <1>1, Weaker
  <1>3. t \in Traces(e) /\ MayBuild(e, s, r)
    BY <1>1, <1>2 DEF c, MayBuild
  <1> QED
    BY <1>3 DEF e, AtMostOne

\* The inputs of a transaction.
LEMMA ContentFields ==
    ASSUME NEW inputs, NEW anchors, NEW fee
    PROVE  Content(inputs, anchors, fee).funding = inputs /\ Content(inputs, anchors, fee).anchors = anchors
  BY DEF Content

\* A built transaction keeps the shape of tx.
LEMMA TxWritten ==
    ASSUME TxShape, NEW s \in Speedups, NEW content, content.funding \in Seq(Outputs),
           content.anchors \in Lists(Parents), tx' = [tx EXCEPT ![s] = content]
    PROVE  TxShape'
  BY DEF TxShape

\* EndDispatch and its cuts.
LEMMA EndOK ==
    ASSUME SpeedupInv, DispatchDone, NEW P \in SUBSET Speedups, AtMostOne(P), NEW t,
           t \in Traces(Between(Mode, P, {})), EndDispatch(t) \/ CutShort(t),
           TxShape', UNCHANGED <<chainVars, indexVars>>
    PROVE  SpeedupInv'
  <1>1. NodeTypeOK /\ faults \in Nat /\ PassOK
    BY DEF SpeedupInv
  <1>2. NodeTypeOK'
    BY <1>1, NodeKept
  <1>3. CASE CutShort(t)
    <2>1. DbOK' /\ faults' \in Nat /\ PassOK'
      BY <1>1, <1>3, CutOK
    <2> QED  BY <1>2, <2>1 DEF SpeedupInv
  <1>4. CASE EndDispatch(t)
    <2>1. /\ Commit(t, "batch") /\ snap' = NoCopies /\ pc' = "batch"
          /\ todo' = <<>> /\ results' = <<>>
      BY <1>4 DEF EndDispatch, DispatchDone, Commit
    <2>2. DOMAIN snap' = {}
      BY <2>1 DEF NoCopies
    <2>3. DbOK' /\ faults' \in Nat
      BY <1>1, <2>1, <2>2, CommitOK
    <2>4. PassOK'
      BY <2>1, <2>2 DEF PassOK, Phases
    <2> QED  BY <1>2, <2>3, <2>4 DEF SpeedupInv
  <1> QED
    BY <1>3, <1>4

\* No boost.
LEMMA SkipBoostOK ==
    ASSUME SpeedupInv, SkipBoost
    PROVE  SpeedupInv'
  <1>1. PICK P \in SUBSET Speedups : AtMostOne(P) /\ <<db>> \in Traces(Between(Mode, P, {}))
    BY StepStart
  <1>2. DispatchDone /\ EndDispatch(<<db>>) /\ UNCHANGED tx /\ UNCHANGED <<chainVars, indexVars>>
    BY DEF SkipBoost
  <1>3. TxShape'
    BY <1>2, TxKept DEF SpeedupInv
  <1> QED
    BY <1>1, <1>2, <1>3, EndOK

\* The live speedups.
LEMMA LiveSeq ==
    ASSUME NEW d \in Store
    PROVE  LiveSpeedups(d) \in Seq(Speedups)
  BY OrderedSeq, WhereKeeps DEF LiveSpeedups

\* The record of a boost.
BoostOf(tip, useRbf, rate, inherited, inputs) ==
    [NewRecord EXCEPT
       !.rate = rate,
       !.parents = IF useRbf THEN <<>> ELSE <<tip>>,
       !.replaces = IF useRbf THEN tip ELSE 0,
       !.fresh = IF useRbf THEN SubSeq(inputs, Len(inherited) + 1, Len(inputs)) ELSE <<>>]

\* It is a new record.
LEMMA BoostRecord ==
    ASSUME NEW tip \in Speedups, NEW useRbf \in BOOLEAN, NEW rate \in 1..MaxRate,
           NEW inherited \in Seq(Outputs), NEW inputs \in Seq(Outputs),
           Len(inherited) <= Len(inputs),
           NEW record, record = BoostOf(tip, useRbf, rate, inherited, inputs)
    PROVE  /\ record \in Rec /\ record.state = "ToDispatch" /\ record.broadcast = 0
           /\ record.replaces = IF useRbf THEN tip ELSE 0
  <1> DEFINE k == Len(inherited)
             added == SubSeq(inputs, k + 1, Len(inputs))
             ps == IF useRbf THEN <<>> ELSE <<tip>>
             rp == IF useRbf THEN tip ELSE 0
             fr == IF useRbf THEN added ELSE <<>>
             r == NewRecord
  <1>1. added \in Seq(Outputs)
    <2>1. k \in Nat /\ k <= Len(inputs) /\ Len(inputs) \in Nat
      OBVIOUS
    <2> HIDE DEF k
    <2>2. k + 1 \in 1..(Len(inputs) + 1) /\ Len(inputs) \in ((k + 1) - 1)..Len(inputs)
      BY <2>1
    <2> QED  BY <2>1, <2>2, SubSeqProperties
  <1>2. record = [r EXCEPT !.rate = rate, !.parents = ps, !.replaces = rp, !.fresh = fr]
    BY DEF BoostOf
  <1>3. ps \in Lists(Ids)
    <2>1. tip \in Ids
      BY Names
    <2>2. <<tip>> \in Lists(Ids)
      BY <2>1 DEF Lists
    <2> QED  BY <2>2, EmptyList
  <1>4. rp \in 0..MaxSpeedups
    BY Names
  <1>5. fr \in Seq(Outputs)
    <2> HIDE DEF added
    <2> QED  BY <1>1
  <1>6. rate \in 0..MaxRate
    BY SpeedupAssumption
  <1>7. r \in Rec /\ r.state = "ToDispatch" /\ r.broadcast = 0
    BY BlankRecords
  <1>8. rp = IF useRbf THEN tip ELSE 0
    OBVIOUS
  <1> HIDE DEF ps, rp, fr, r
  <1>9. /\ record \in Rec /\ record.state = "ToDispatch" /\ record.broadcast = 0
        /\ record.replaces = rp
    BY <1>2, <1>3, <1>4, <1>5, <1>6, <1>7 DEF Rec
  <1> QED
    BY <1>8, <1>9

\* boost_if_stale, by CPFP or RBF.
LEMMA BoostOK ==
    ASSUME SpeedupInv, NEW rate \in 1..MaxRate, NEW capped, Boost(rate, capped)
    PROVE  SpeedupInv'
  <1>1. PICK P \in SUBSET Speedups : AtMostOne(P) /\ db \in Good(Between(Mode, P, {})) /\ db \in Store
    BY StepStart
  <1> DEFINE c == Between(Mode, {}, {})
             tip == Tip(db)
             useRbf == SlotsFull(db)
             inherited == IF useRbf THEN tx[tip].funding ELSE <<>>
             built == Build(<<db>>, inherited, rate)
             anchors == IF useRbf THEN tx[tip].anchors ELSE <<>>
             content == Content(built.inputs, anchors, rate)
             added == SubSeq(built.inputs, Len(inherited) + 1, Len(built.inputs))
             record == [NewRecord EXCEPT
                          !.rate = rate,
                          !.parents = IF useRbf THEN <<>> ELSE <<tip>>,
                          !.replaces = IF useRbf THEN tip ELSE 0,
                          !.fresh = IF useRbf THEN added ELSE <<>>]
  <1>2. /\ DispatchDone /\ ShouldBoost /\ UNCHANGED <<chainVars, indexVars>>
        /\ \/ /\ built.inputs = <<>> /\ UNCHANGED tx
              /\ EndDispatch(built.trace) \/ CutShort(built.trace)
           \/ /\ built.inputs # <<>>
              /\ \E s \in SlotsFor(content) :
                   /\ tx' = [tx EXCEPT ![s] = content]
                   /\ \/ EndDispatch(SaveBoost(built.trace, s, record, capped))
                      \/ CutShort(SaveBoost(built.trace, s, record, capped))
    BY Zenon DEF Boost
  <1>3. NodeTypeOK /\ TxShape
    BY DEF SpeedupInv
  <1>4. tip \in Speedups
    <2>1. LiveSpeedups(db) # <<>>
      BY <1>2 DEF ShouldBoost
    <2> QED  BY <1>1, <2>1, LiveSeq, HeadLast DEF Tip
  <1>5. <<db>> \in Traces(c)
    <2>1. db \in Good(c)
      BY <1>1, <1>2, NoneQueued DEF ShouldBoost
    <2> HIDE DEF c
    <2> QED  BY <2>1, TraceStart
  <1>6. inherited \in Seq(Outputs) /\ anchors \in Lists(Parents)
    <2>1. tx[tip].funding \in Seq(Outputs) /\ tx[tip].anchors \in Lists(Parents)
      BY <1>3, <1>4 DEF TxShape
    <2> HIDE DEF tip, useRbf
    <2> QED  BY <2>1, EmptyList
  <1> HIDE DEF inherited, anchors
  <1>7. /\ built.trace \in Traces(c) /\ built.inputs \in Seq(Outputs)
        /\ built.inputs # <<>> => Len(inherited) <= Len(built.inputs)
    BY <1>5, <1>6, BuildGood
  <1> HIDE DEF built
  <1>8. CASE /\ built.inputs = <<>> /\ UNCHANGED tx
             /\ EndDispatch(built.trace) \/ CutShort(built.trace)
    <2>1. TxShape'
      BY <1>3, <1>8, TxKept
    <2>2. AtMostOne({}) /\ {} \in SUBSET Speedups
      BY DEF AtMostOne
    <2> QED  BY <1>2, <1>7, <1>8, <2>1, <2>2, EndOK
  <1>9. ASSUME built.inputs # <<>>, NEW s \in SlotsFor(content), tx' = [tx EXCEPT ![s] = content],
               \/ EndDispatch(SaveBoost(built.trace, s, record, capped))
               \/ CutShort(SaveBoost(built.trace, s, record, capped))
        PROVE  SpeedupInv'
    <2> DEFINE t == SaveBoost(built.trace, s, record, capped)
    <2>1. s \in Speedups
      BY SlotsAreSpeedups
    <2>2. content.funding = built.inputs /\ content.anchors = anchors
      BY ContentFields
    <2>3. TxShape'
      <3> HIDE DEF content
      <3> QED  BY <1>3, <1>6, <1>7, <1>9, <2>1, <2>2, TxWritten
    <2> HIDE DEF content
    <2>4. record \in Rec /\ record.state = "ToDispatch"
      <3>1. record = BoostOf(tip, useRbf, rate, inherited, built.inputs)
        BY DEF BoostOf
      <3>2. useRbf \in BOOLEAN
        BY DEF SlotsFull
      <3> HIDE DEF tip, useRbf, record
      <3> QED  BY <1>4, <1>6, <1>7, <1>9, <3>1, <3>2, BoostRecord
    <2> HIDE DEF record
    <2> DEFINE e == Between(Mode, {s}, {})
    <2>5. /\ built.trace \in Traces(e) /\ MayBuild(e, s, record)
          /\ AtMostOne({s}) /\ {s} \in SUBSET Speedups
      BY <1>7, <2>1, <2>4, BuildCase
    <2>6. t \in Traces(e)
      <3> HIDE DEF e
      <3> QED  BY <2>1, <2>4, <2>5, SaveBoostGood
    <2>7. EndDispatch(t) \/ CutShort(t)
      BY <1>9
    <2> HIDE DEF t
    <2> QED  BY <1>2, <2>3, <2>5, <2>6, <2>7, EndOK
  <1> QED
    BY <1>2, <1>8, <1>9

\* No CPFP.
LEMMA NoBatchOK ==
    ASSUME SpeedupInv, NoBatch
    PROVE  SpeedupInv'
  <1>1. PICK P \in SUBSET Speedups : AtMostOne(P) /\ <<db>> \in Traces(Between(Mode, P, {}))
    BY StepStart
  <1> DEFINE t == PruneParents(<<db>>)
  <1>2. Step(t, "idle") /\ UNCHANGED tx /\ UNCHANGED <<chainVars, indexVars>> /\ pc # "send"
    BY DEF NoBatch
  <1>3. t \in Traces(Between(Mode, P, {}))
    BY <1>1, PruneParentsGood
  <1> HIDE DEF t
  <1>4. NodeTypeOK'
    BY <1>2, NodeKept DEF SpeedupInv
  <1> QED
    BY <1>1, <1>2, <1>3, <1>4, QuietStep DEF Phases

\* A batch of parents.
LEMMA BatchLists ==
    ASSUME NEW d \in Store, NEW batch,
           batch = SubSeq(EligibleParents(d), 1, Min({MaxBatch, Len(EligibleParents(d))}))
    PROVE  batch \in Lists(Parents) /\ batch \in Lists(Ids)
  <1> DEFINE eligible == EligibleParents(d)
  <1>1. d.psp \in Lists(Parents) /\ d.psp \in Seq(Parents)
    BY StoreFields DEF Lists
  <1>2. eligible \in Lists(Parents) /\ eligible \in Seq(Parents)
    BY <1>1, WhereKeeps DEF EligibleParents
  <1> HIDE DEF eligible
  <1> DEFINE k == Min({MaxBatch, Len(eligible)})
  <1>3. k \in 0..Len(eligible)
    <2> DEFINE S == {MaxBatch, Len(eligible)}
    <2>1. MaxBatch \in Nat /\ Len(eligible) \in Nat
      BY <1>2, SpeedupAssumption
    <2>2. S \in SUBSET Nat /\ S # {}
      BY <2>1
    <2>3. Min(S) \in S /\ \A y \in S : Min(S) <= y
      BY <2>2, MinExists
    <2> QED  BY <2>1, <2>3
  <1> DEFINE cut == SubSeq(eligible, 1, k)
  <1>4. cut = SubSeq(eligible, 1, k) /\ batch = cut
    BY DEF eligible
  <1> HIDE DEF k, cut
  <1>5. k \in Nat /\ 1 \in 1..(Len(eligible) + 1) /\ k \in (1 - 1)..Len(eligible)
    BY <1>2, <1>3
  <1>6. /\ cut \in Seq(Parents) /\ Len(cut) = k
        /\ \A i \in 1..k : cut[i] = eligible[i]
    <2>1. /\ cut \in Seq(Parents)
          /\ Len(cut) = IF 1 <= k THEN k - 1 + 1 ELSE 0
          /\ \A i \in 1..(k - 1 + 1) : cut[i] = eligible[1 + i - 1]
      BY <1>2, <1>4, <1>5, SubSeqProperties
    <2> QED  BY <1>5, <2>1
  <1>7. cut \in Lists(Parents)
    BY <1>2, <1>3, <1>5, <1>6 DEF Lists
  <1>8. ToSet(cut) \subseteq Ids
    BY <1>6, ToSetOfSeq, Names
  <1> QED
    BY <1>4, <1>7, <1>8, ListNarrow

\* The record of a CPFP.
CpfpOf(batch, rate) == [NewRecord EXCEPT !.rate = rate, !.parents = batch]

\* It is a new record.
LEMMA BatchRecord ==
    ASSUME NEW batch \in Lists(Ids), NEW rate \in 1..MaxRate,
           NEW record, record = CpfpOf(batch, rate)
    PROVE  /\ record \in Rec /\ record.state = "ToDispatch" /\ record.broadcast = 0
           /\ record.replaces = 0 /\ record.parents = batch
  <1> DEFINE r == NewRecord
  <1>1. /\ r \in Rec /\ r.state = "ToDispatch" /\ r.broadcast = 0 /\ r.replaces = 0
        /\ rate \in 0..MaxRate
    BY BlankRecords, SpeedupAssumption
  <1>2. record = [r EXCEPT !.rate = rate, !.parents = batch]
    BY DEF CpfpOf
  <1> HIDE DEF r
  <1> QED
    BY <1>1, <1>2 DEF Rec

\* The CPFP for the next batch.
LEMMA CreateCpfpOK ==
    ASSUME SpeedupInv, NEW rate \in 1..MaxRate, NEW capped, CreateCpfpBatch(rate, capped)
    PROVE  SpeedupInv'
  <1>1. PICK P \in SUBSET Speedups : AtMostOne(P) /\ <<db>> \in Traces(Between(Mode, P, {}))
    BY StepStart
  <1> DEFINE c == Between(Mode, {}, {})
             t == PruneParents(<<db>>)
             eligible == EligibleParents(Now(t))
             batch == SubSeq(eligible, 1, Min({MaxBatch, Len(eligible)}))
             built == Build(t, <<>>, rate)
             content == Content(built.inputs, batch, rate)
             record == [NewRecord EXCEPT !.rate = rate, !.parents = batch]
  <1>2. /\ pc = "batch" /\ CanCover(Now(t)) /\ UNCHANGED <<chainVars, indexVars>>
        /\ \/ built.inputs = <<>> /\ Step(built.trace, "idle") /\ UNCHANGED tx
           \/ /\ built.inputs # <<>>
              /\ \E s \in SlotsFor(content) :
                   /\ tx' = [tx EXCEPT ![s] = content]
                   /\ Step(SaveFirst(built.trace, s, record, capped), "idle")
    BY Zenon DEF CreateCpfpBatch
  <1>3. NodeTypeOK /\ TxShape /\ faults \in Nat /\ PassOK /\ DOMAIN snap = {}
    BY <1>2 DEF SpeedupInv, PassOK
  <1>4. t \in Traces(Between(Mode, P, {}))
    BY <1>1, PruneParentsGood
  <1>5. t \in Traces(c) /\ Now(t) \in Store
    <2> HIDE DEF t
    <2>1. Now(t) \in Good(Between(Mode, P, {})) /\ Now(t) \in Store
      BY <1>4, TraceNow
    <2>2. Now(t) \in Good(c)
      BY <1>2, <2>1, NoneQueued DEF CanCover
    <2> QED  BY <1>4, <2>1, <2>2 DEF Traces, Now
  <1> HIDE DEF t
  <1>6. batch \in Lists(Parents) /\ batch \in Lists(Ids)
    BY <1>5, BatchLists
  <1> HIDE DEF batch
  <1>7. built.trace \in Traces(c) /\ built.inputs \in Seq(Outputs)
    <2>1. <<>> \in Seq(Outputs)
      OBVIOUS
    <2> HIDE DEF c
    <2> QED  BY <1>5, <2>1, BuildGood
  <1> HIDE DEF built
  <1>8. NodeTypeOK'
    BY <1>2, <1>3, NodeKept
  <1>9. CASE built.inputs = <<>> /\ Step(built.trace, "idle") /\ UNCHANGED tx
    <2>1. AtMostOne({}) /\ {} \in SUBSET Speedups /\ "idle" \in Phases
      BY DEF AtMostOne, Phases
    <2>2. DbOK' /\ faults' \in Nat /\ PassOK'
      BY <1>3, <1>7, <1>9, <2>1, StepOK
    <2>3. TxShape'
      BY <1>3, <1>9, TxKept
    <2> QED  BY <1>8, <2>2, <2>3 DEF SpeedupInv
  <1>10. ASSUME NEW s \in SlotsFor(content), tx' = [tx EXCEPT ![s] = content],
                Step(SaveFirst(built.trace, s, record, capped), "idle")
         PROVE  SpeedupInv'
    <2> DEFINE u == SaveFirst(built.trace, s, record, capped)
               e == Between(Mode, {s}, {})
    <2>1. s \in Speedups
      BY SlotsAreSpeedups
    <2>2. content.funding = built.inputs /\ content.anchors = batch
      BY ContentFields
    <2> HIDE DEF content
    <2>3. TxShape'
      BY <1>3, <1>6, <1>7, <1>10, <2>1, <2>2, TxWritten
    <2>4. record \in Rec /\ record.state = "ToDispatch"
      <3>1. record = CpfpOf(batch, rate)
        BY DEF CpfpOf
      <3> HIDE DEF record
      <3> QED  BY <1>6, <3>1, BatchRecord
    <2> HIDE DEF record
    <2>5. /\ built.trace \in Traces(e) /\ MayBuild(e, s, record)
          /\ AtMostOne({s}) /\ {s} \in SUBSET Speedups
      BY <1>7, <2>1, <2>4, BuildCase
    <2>6. u \in Traces(e)
      <3> HIDE DEF e
      <3> QED  BY <2>1, <2>4, <2>5, SaveFirstGood
    <2>7. Step(u, "idle") /\ "idle" \in Phases
      BY <1>10 DEF Phases
    <2> HIDE DEF u
    <2>8. DbOK' /\ faults' \in Nat /\ PassOK'
      BY <1>3, <2>5, <2>6, <2>7, StepOK
    <2> QED  BY <1>8, <2>3, <2>8 DEF SpeedupInv
  <1> QED
    BY <1>2, <1>9, <1>10

-----------------------------------------------------------------------------
(* The remaining steps, and the theorems. *)

\* An error between two steps: what is stored stays, and no copy outlives it.
LEMMA TickErrorOK ==
    ASSUME SpeedupInv, TickError
    PROVE  SpeedupInv'
  <1>1. /\ faults' = faults + 1 /\ pc' = "idle" /\ todo' = <<>> /\ results' = <<>>
        /\ snap' = NoCopies /\ UNCHANGED <<tx, db>> /\ UNCHANGED <<chainVars, indexVars>>
    BY DEF TickError
  <1>2. NodeTypeOK /\ TxShape /\ faults \in Nat /\ db \in Store
    BY StepStart DEF SpeedupInv
  <1>3. faults' \in Nat /\ Mode' = "shape"
    BY <1>1, <1>2 DEF Mode
  <1>4. DOMAIN snap' = {}
    BY <1>1 DEF NoCopies
  <1>5. DbOK'
    <2>1. AtMostOne({}) /\ {} \in SUBSET Speedups
      BY DEF AtMostOne
    <2>2. db' \in Good(Between(Mode', {}, DOMAIN snap'))
      BY <1>1, <1>2, <1>3 DEF Good, Between
    <2> QED  BY <2>1, <2>2 DEF DbOK
  <1>6. PassOK'
    BY <1>1, <1>4 DEF PassOK, Phases
  <1> QED
    BY <1>1, <1>2, <1>3, <1>5, <1>6, NodeKept, TxKept DEF SpeedupInv

\* Nothing but the network, or time, moves.
LEMMA StoreLeftAlone ==
    ASSUME SpeedupInv, UNCHANGED <<tx, db, tickVars, faults>>, NodeTypeOK'
    PROVE  SpeedupInv'
  <1>1. UNCHANGED <<tx, db, pc, todo, results, snap, faults>>
    BY DEF tickVars
  <1>2. TxShape' /\ faults' \in Nat
    BY <1>1, TxKept DEF SpeedupInv
  <1>3. PassOK'
    BY <1>1 DEF SpeedupInv, PassOK
  <1>4. DbOK'
    BY <1>1 DEF SpeedupInv, DbOK, Mode
  <1> QED
    BY <1>2, <1>3, <1>4 DEF SpeedupInv

\* Every step keeps the invariant.
LEMMA NextOK ==
    ASSUME SpeedupInv, [Next]_vars
    PROVE  SpeedupInv'
  <1>1. CASE ClientStep
    BY <1>1, ClientOK
  <1>2. CASE TickStep
    <2>1. ASSUME NEW r \in Rates, Boost(r[1], r[2]) \/ CreateCpfpBatch(r[1], r[2])
          PROVE  SpeedupInv'
      <3>1. r[1] \in 1..MaxRate
        BY DEF Rates
      <3> QED  BY <2>1, <3>1, BoostOK, CreateCpfpOK
    <2> QED
      BY <1>2, <2>1, TickStartOK, ReviewOK, DispatchParentsOK, SendSpeedupOK,
         HandleSpeedupOK, SkipBoostOK, NoBatchOK DEF TickStep
  <1>3. CASE TickError
    BY <1>3, TickErrorOK
  <1>4. CASE RetryIntervalElapses
    <2>1. UNCHANGED <<tx, db, tickVars, faults>> /\ UNCHANGED <<chainVars, indexVars>>
      BY <1>4 DEF RetryIntervalElapses
    <2> QED  BY <2>1, NodeKept, StoreLeftAlone DEF SpeedupInv
  <1>5. CASE Network
    <2>1. UNCHANGED <<tx, db, tickVars, faults>> /\ NetworkStep
      BY <1>5 DEF Network
    <2> QED  BY <2>1, NetworkType, StoreLeftAlone DEF SpeedupInv
  <1>6. CASE UNCHANGED vars
    <2>1. UNCHANGED <<tx, db, tickVars, faults>> /\ UNCHANGED <<chainVars, indexVars>>
      BY <1>6 DEF vars
    <2> QED  BY <2>1, NodeKept, StoreLeftAlone DEF SpeedupInv
  <1> QED
    BY <1>1, <1>2, <1>3, <1>4, <1>5, <1>6 DEF Next

\* The empty store of a new coordinator.
LEMMA InitOK ==
    ASSUME Init
    PROVE  SpeedupInv
  <1>1. NodeTypeOK
    BY SpeedupNodeAssumption DEF Init, NodeInit, NodeTypeOK
  <1>2. TxShape
    <2>1. NoTx.funding = <<>> /\ NoTx.anchors = <<>> /\ <<>> \in Seq(Outputs) /\ <<>> \in Lists(Parents)
      BY EmptyList DEF NoTx
    <2> QED  BY <2>1 DEF Init, TxShape
  <1>3. DOMAIN snap = {} /\ faults = 0
    BY DEF Init, NoCopies
  <1>4. PassOK
    BY <1>3 DEF Init, PassOK, Phases
  <1>5. EmptyStore \in Store
    <2> DEFINE f == [x \in Ids |-> NoRecord]
    <2>1. f \in Recs
      BY BlankRecords, Names DEF Recs
    <2>2. <<>> \in Lists(Speedups) /\ <<>> \in Lists(Parents) /\ <<>> \in Seq(Outputs)
      BY EmptyList
    <2>3. [o \in Outputs |-> "none"] \in [Outputs -> Marks]
      BY DEF Marks
    <2> HIDE DEF f
    <2> QED  BY <2>1, <2>2, <2>3 DEF EmptyStore, Store, f
  <1>6. Calm(Between("calm", {}, {}), EmptyStore)
    <2>1. \A s \in Speedups : EmptyStore.rec[s].state = "Unregistered"
      BY BlankRecords, Names DEF EmptyStore
    <2> QED  BY <2>1 DEF Calm, Fits, Between, Active
  <1>7. DbOK
    <2>1. AtMostOne({}) /\ {} \in SUBSET Speedups /\ Mode = "calm"
      BY <1>3 DEF AtMostOne, Mode
    <2>2. db \in Good(Between(Mode, {}, DOMAIN snap))
      BY <1>3, <1>5, <1>6, <2>1 DEF Init, Good
    <2> QED  BY <2>1, <2>2 DEF DbOK
  <1> QED
    BY <1>1, <1>2, <1>3, <1>4, <1>7 DEF SpeedupInv

\* The inductive invariant holds.
LEMMA SpeedupInvHolds == Spec => []SpeedupInv
  <1>1. Init => SpeedupInv
    BY InitOK
  <1>2. SpeedupInv /\ [Next]_vars => SpeedupInv'
    BY NextOK
  <1> QED
    BY <1>1, <1>2, PTL DEF Spec

\* A list has as many members as entries.
LEMMA ListLength ==
    ASSUME NEW A, NEW q \in Lists(A)
    PROVE  Cardinality(ToSet(q)) = Len(q)
  <1> DEFINE I == 1..Len(q)
             S == ToSet(q)
  <1>1. q \in Seq(A) /\ Len(q) \in Nat /\ \A i, j \in I : q[i] = q[j] => i = j
    BY DEF Lists
  <1>2. \A x : x \in S <=> \E i \in I : q[i] = x
    BY <1>1, ToSetOfSeq
  <1>3. q \in [I -> S]
    <2>1. q = [i \in I |-> q[i]]
      BY <1>1
    <2> HIDE DEF I, S
    <2> QED  BY <1>2, <2>1
  <1>4. IsFiniteSet(I) /\ Cardinality(I) = Len(q)
    <2>1. 1 \in Int /\ Len(q) \in Int
      BY <1>1
    <2>2. /\ IsFiniteSet(1..Len(q))
          /\ Cardinality(1..Len(q)) = IF 1 > Len(q) THEN 0 ELSE Len(q) - 1 + 1
      BY <2>1, FS_Interval
    <2> HIDE DEF I
    <2>3. I = 1..Len(q)
      BY DEF I
    <2>4. (IF 1 > Len(q) THEN 0 ELSE Len(q) - 1 + 1) = Len(q)
      BY <1>1
    <2> QED  BY <2>2, <2>3, <2>4
  <1> HIDE DEF I, S
  <1>5. DOMAIN q = I
    BY <1>3
  <1>6. q \in Surjection(I, S) /\ q \in Injection(I, S)
    BY <1>1, <1>2, <1>3, <1>5 DEF Surjection, Injection, IsInjective
  <1>7. Cardinality(S) = Cardinality(I)
    BY <1>4, <1>6, FS_Surjection
  <1> QED
    BY <1>4, <1>7 DEF S

\* SpeedupList and PendingSpeedupParents hold nothing twice and every record and
\* mark has its shape, for any sets of parents and outputs and any bounds: after
\* every committed step of a tick, and also when a crash or an error kept only
\* some of the writes of prepend_pending_speedup_parents, insert_speedup,
\* settle_tx or fail_and_cascade.
THEOREM StoreKeepsShape == Spec => []ShapeOK
  <1>1. ASSUME SpeedupInv  PROVE ShapeOK
    <2>1. db \in Store /\ NodeTypeOK /\ PassOK
      BY <1>1, StepStart DEF SpeedupInv
    <2>2. /\ db.rec \in [Ids -> Rec] /\ db.list \in Lists(Speedups) /\ db.psp \in Lists(Parents)
          /\ db.queue \in Seq(Outputs) /\ db.funds \in [Outputs -> Marks]
      BY <2>1, StoreFields
    <2>3. db.rec \in [Ids -> Record]
      <3>1. Lists(Ids) \subseteq Seq(Ids)
        BY DEF Lists
      <3>2. Rec \subseteq Record
        BY <3>1 DEF Rec, Record
      <3> QED  BY <2>2, <3>2
    <2>4. db.list \in Seq(Speedups) /\ db.psp \in Seq(Parents)
      BY <2>2 DEF Lists
    <2>5. /\ ToSet(db.list) \subseteq Speedups /\ ToSet(db.psp) \subseteq Parents
          /\ ToSet(db.queue) \subseteq Outputs
      BY <2>2, <2>4, ToSetOfSeq
    <2>6. /\ Cardinality(ToSet(db.list)) = Len(db.list)
          /\ Cardinality(ToSet(db.psp)) = Len(db.psp)
      BY <2>2, ListLength
    <2>7. DOMAIN snap \subseteq Speedups /\ ToSet(todo) \subseteq DOMAIN snap
      BY <2>1, ToSetOfSeq DEF PassOK
    <2> QED  BY <2>1, <2>2, <2>3, <2>5, <2>6, <2>7 DEF ShapeOK, PassOK, Phases, Marks
  <1> QED
    BY <1>1, SpeedupInvHolds, PTL

\* I2 of docs/design.md, "at most one pre-built speedup", for any number of
\* parents, speedups and funding outputs: boost_if_stale and the CPFP for a batch
\* build only while no listed speedup is queued (any_to_dispatch), and no review,
\* retry, cascade or rebuild queues one that was never broadcast.  It is stated
\* up to the first fault: insert_speedup writes the record before the list, so a
\* crash between the two leaves a queued speedup that any_to_dispatch misses.
THEOREM OnePrebuiltHolds == Spec => [](faults = 0 => OnePrebuilt)
  <1>1. ASSUME SpeedupInv, faults = 0  PROVE OnePrebuilt
    <2> DEFINE Q == {s \in Speedups : db.rec[s].state = "ToDispatch" /\ db.rec[s].broadcast = 0}
    <2>1. PICK P \in SUBSET Speedups : AtMostOne(P) /\ db \in Good(Between("calm", P, DOMAIN snap))
      BY <1>1 DEF SpeedupInv, DbOK, Mode
    <2>2. Q \subseteq P
      BY <2>1 DEF Good, Calm, Fits, Between
    <2> HIDE DEF Q
    <2>3. Q = {} \/ \E s : Q = {s}
      BY <2>1, <2>2 DEF AtMostOne
    <2>4. Cardinality(Q) <= 1
      <3>1. Cardinality({}) = 0 /\ \A s : Cardinality({s}) = 1
        BY FS_EmptySet, FS_Singleton
      <3>2. Cardinality(Q) = 0 \/ Cardinality(Q) = 1
        BY <2>3, <3>1
      <3> QED  BY <3>2
    <2> QED  BY <2>4 DEF OnePrebuilt, Q
  <1> QED
    BY <1>1, SpeedupInvHolds, PTL
=============================================================================
