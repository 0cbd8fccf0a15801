---------------------------- MODULE FeeManagerProofs ----------------------------
(***************************************************************************)
(* The fee arithmetic and batch_by_weight for every input: sums and lists, *)
(* the rounding of fee.rs, compute_speedup_fee, and the loop of            *)
(* batch_by_weight with its invariant.                                     *)
(***************************************************************************)
EXTENDS FeeManager, FoldTheorems

\* The equation FoldLeft solves for SumOf.
SumEquation(g, seq) ==
    g = [s \in SUBSET (DOMAIN seq) |->
           IF s = {} THEN 0 ELSE g[s \ {Max(s)}] + seq[Max(s)]]

\* SumOf adds the numbers one by one: the partial sums, the last being its value.
LEMMA SumRuns ==
    ASSUME NEW seq \in Seq(Nat)
    PROVE  \E acc \in [0..Len(seq) -> Nat] :
             /\ acc[0] = 0
             /\ \A k \in 1..Len(seq) : acc[k] = acc[k - 1] + seq[k]
             /\ SumOf(seq) = acc[Len(seq)]
  <1> DEFINE n == Len(seq)
             step == [p \in Nat \X (1..n) |-> p[1] + seq[p[2]]]
             iter == CHOOSE g : SumEquation(g, seq)
  <1>1. n \in Nat /\ DOMAIN seq = 1..n
    OBVIOUS
  <1>2. step \in [Nat \X (1..n) -> Nat]
    OBVIOUS
  <1>3. SumOf(seq) = iter[DOMAIN seq]
    BY Zenon DEF SumOf, FoldLeft, MapThenFoldSet, SumEquation
  <1>4. ASSUME NEW a \in Nat, NEW k \in 1..n  PROVE step[<<a, k>>] = a + seq[k]
    OBVIOUS
  <1> HIDE DEF step, n
  <1>5. PICK g \in [SUBSET (1..n) -> Nat] : FoldEquation(g, n, 0, step)
    BY <1>1, <1>2, FoldExists
  <1>6. SumEquation(g, seq)
    <2>1. ASSUME NEW s \in SUBSET (1..n), s # {}
          PROVE  step[<<g[s \ {Max(s)}], Max(s)>>] = g[s \ {Max(s)}] + seq[Max(s)]
      <3>1. Max(s) \in s
        BY <1>1, <2>1, MaxExists
      <3>2. g[s \ {Max(s)}] \in Nat
        OBVIOUS
      <3> QED  BY <1>4, <3>1, <3>2
    <2> QED  BY <1>1, <1>5, <2>1 DEF SumEquation, FoldEquation
  <1>7. SumEquation(iter, seq)
    BY <1>6
  <1> HIDE DEF iter
  <1> DEFINE acc == [k \in 0..n |-> iter[1..k]]
  <1>8. iter[1..0] = 0
    <2>1. 1..0 = {}
      OBVIOUS
    <2> QED  BY <1>7, <2>1 DEF SumEquation
  <1>9. ASSUME NEW k \in 1..n  PROVE iter[1..k] = iter[1..(k - 1)] + seq[k]
    <2>1. /\ 1..k \in SUBSET (DOMAIN seq) /\ 1..k # {}
          /\ Max(1..k) = k /\ (1..k) \ {Max(1..k)} = 1..(k - 1)
      BY <1>1, IntervalUnfolds
    <2>2. iter[1..k] = iter[(1..k) \ {Max(1..k)}] + seq[Max(1..k)]
      BY <1>7, <2>1 DEF SumEquation
    <2> QED  BY <2>1, <2>2
  <1>10. acc[0] = 0 /\ (\A k \in 1..n : acc[k] = acc[k - 1] + seq[k]) /\ SumOf(seq) = acc[n]
    BY <1>1, <1>3, <1>8, <1>9
  <1>11. acc = [k \in 0..n |-> acc[k]]
    OBVIOUS
  <1> HIDE DEF acc
  <1>12. \A k \in 1..n : acc[k - 1] \in Nat => acc[k] \in Nat
    <2>1. \A k \in 1..n : seq[k] \in Nat
      BY <1>1
    <2> QED  BY <1>10, <2>1
  <1>13. \A k \in 0..n : acc[k] \in Nat
    <2> DEFINE D == {k \in 0..n : acc[k] \in Nat}
    <2>1. n \in Nat /\ 0 \in D /\ \A k \in 1..n : k - 1 \in D => k \in D
      BY <1>1, <1>10, <1>12
    <2> HIDE DEF D
    <2>2. 0..n \subseteq D
      BY <2>1, IndexInduction
    <2> QED  BY <2>2 DEF D
  <1>14. acc \in [0..n -> Nat]
    BY <1>11, <1>13
  <1> QED
    BY <1>10, <1>14 DEF n

\* A sum of naturals is a natural, at least as large as its last term.
LEMMA SumBounds ==
    ASSUME NEW seq \in Seq(Nat)
    PROVE  /\ SumOf(seq) \in Nat
           /\ seq # <<>> => SumOf(seq) >= seq[Len(seq)]
  <1>1. PICK acc \in [0..Len(seq) -> Nat] :
             /\ acc[0] = 0
             /\ \A k \in 1..Len(seq) : acc[k] = acc[k - 1] + seq[k]
             /\ SumOf(seq) = acc[Len(seq)]
    BY SumRuns
  <1>2. SumOf(seq) \in Nat
    BY <1>1
  <1>3. ASSUME seq # <<>>  PROVE SumOf(seq) >= seq[Len(seq)]
    <2>1. Len(seq) \in 1..Len(seq) /\ Len(seq) - 1 \in 0..Len(seq) /\ seq[Len(seq)] \in Nat
      BY <1>3
    <2>2. SumOf(seq) = acc[Len(seq) - 1] + seq[Len(seq)]
      BY <1>1, <2>1
    <2> QED  BY <1>1, <2>1, <2>2
  <1> QED  BY <1>2, <1>3

\* One more number adds itself to the sum.
LEMMA SumAppend ==
    ASSUME NEW seq \in Seq(Nat), NEW e \in Nat
    PROVE  SumOf(Append(seq, e)) = SumOf(seq) + e
  <1> DEFINE n == Len(seq)
             app == Append(seq, e)
  <1>0. n \in Nat
    OBVIOUS
  <1>1. /\ n \in Nat /\ app \in Seq(Nat) /\ Len(app) = n + 1
        /\ app[n + 1] = e /\ \A k \in 1..n : app[k] = seq[k]
    OBVIOUS
  <1>2. PICK a \in [0..n -> Nat] :
             /\ a[0] = 0
             /\ \A k \in 1..n : a[k] = a[k - 1] + seq[k]
             /\ SumOf(seq) = a[n]
    BY SumRuns
  <1> HIDE DEF app
  <1>3. PICK b \in [0..(n + 1) -> Nat] :
             /\ b[0] = 0
             /\ \A k \in 1..(n + 1) : b[k] = b[k - 1] + app[k]
             /\ SumOf(app) = b[n + 1]
    BY <1>1, SumRuns
  <1> HIDE DEF n
  <1>4. \A k \in 1..n : a[k - 1] = b[k - 1] => a[k] = b[k]
    BY <1>1, <1>2, <1>3
  <1>5. a[0] = b[0]
    BY <1>2, <1>3
  <1>6. \A k \in 0..n : a[k] = b[k]
    <2> DEFINE D == {k \in 0..n : a[k] = b[k]}
    <2>1. 0 \in D /\ \A k \in 1..n : k - 1 \in D => k \in D
      BY <1>0, <1>4, <1>5
    <2> HIDE DEF D
    <2>2. 0..n \subseteq D
      BY <1>0, <2>1, IndexInduction
    <2> QED  BY <2>2 DEF D
  <1>7. b[n + 1] = b[n] + app[n + 1] /\ a[n] = b[n]
    BY <1>1, <1>3, <1>6
  <1> QED
    BY <1>1, <1>2, <1>3, <1>7 DEF app

-----------------------------------------------------------------------------
\* The equation by which FlattenSeq is defined.
FlattenEquation(f, seqs) ==
    f = [i \in 1..Len(seqs) |-> IF i = 1 THEN seqs[i] ELSE f[i - 1] \o seqs[i]]

\* FlattenSeq concatenates the lists one by one.
LEMMA FlattenRuns ==
    ASSUME NEW X, NEW seqs \in Seq(Seq(X))
    PROVE  \E acc \in [0..Len(seqs) -> Seq(X)] :
             /\ acc[0] = <<>>
             /\ \A k \in 1..Len(seqs) : acc[k] = acc[k - 1] \o seqs[k]
             /\ FlattenSeq(seqs) = acc[Len(seqs)]
  <1> DEFINE n == Len(seqs)
             T == Seq(X)
             step == [p \in T \X (1..n) |-> IF p[2] = 1 THEN seqs[1] ELSE p[1] \o seqs[p[2]]]
             flatten == CHOOSE f : FlattenEquation(f, seqs)
  <1>1. n \in Nat /\ DOMAIN seqs = 1..n /\ (\A k \in 1..n : seqs[k] \in T) /\ <<>> \in T
    OBVIOUS
  <1>2. step \in [T \X (1..n) -> T]
    OBVIOUS
  <1>3. ASSUME NEW a \in T, NEW k \in 1..n
        PROVE  step[<<a, k>>] = IF k = 1 THEN seqs[1] ELSE a \o seqs[k]
    OBVIOUS
  <1>4. n = 0 => FlattenSeq(seqs) = <<>>
    BY DEF FlattenSeq
  <1>5. n # 0 => FlattenSeq(seqs) = flatten[n]
    BY Zenon DEF FlattenSeq, FlattenEquation
  <1> HIDE DEF step, T
  <1>6. PICK g \in [SUBSET (1..n) -> T] : FoldEquation(g, n, <<>>, step)
    BY <1>1, <1>2, FoldExists
  <1>7. \E f : FlattenEquation(f, seqs)
    <2> DEFINE f == [i \in 1..n |-> g[1..i]]
    <2>1. ASSUME NEW i \in 1..n
          PROVE  g[1..i] = IF i = 1 THEN seqs[i] ELSE g[1..(i - 1)] \o seqs[i]
      <3>1. /\ 1..i \in SUBSET (1..n) /\ 1..i # {}
            /\ Max(1..i) = i /\ (1..i) \ {Max(1..i)} = 1..(i - 1)
        BY <1>1, IntervalUnfolds
      <3>2. g[1..i] = step[<<g[1..(i - 1)], i>>]
        BY <1>6, <3>1 DEF FoldEquation
      <3>3. g[1..(i - 1)] \in T
        BY <3>1
      <3> QED  BY <1>3, <3>2, <3>3
    <2>2. f = [i \in 1..n |-> IF i = 1 THEN seqs[i] ELSE f[i - 1] \o seqs[i]]
      <3>1. ASSUME NEW i \in 1..n  PROVE f[i] = IF i = 1 THEN seqs[i] ELSE f[i - 1] \o seqs[i]
        BY <1>1, <2>1
      <3>2. f = [i \in 1..n |-> f[i]]
        OBVIOUS
      <3> HIDE DEF f
      <3> QED  BY <3>1, <3>2
    <2> QED
      BY <2>2 DEF FlattenEquation
  <1>8. FlattenEquation(flatten, seqs)
    BY <1>7
  <1> HIDE DEF flatten
  <1> DEFINE acc == [k \in 0..n |-> IF k = 0 THEN <<>> ELSE flatten[k]]
  <1>9. ASSUME NEW k \in 1..n
        PROVE  flatten[k] = IF k = 1 THEN seqs[1] ELSE flatten[k - 1] \o seqs[k]
    BY <1>8 DEF FlattenEquation
  <1>10. ASSUME NEW k \in 1..n  PROVE acc[k] = acc[k - 1] \o seqs[k]
    <2>1. seqs[k] \in Seq(X)
      OBVIOUS
    <2>2. CASE k = 1
      BY <1>1, <1>9, <2>1, <2>2
    <2>3. CASE k # 1
      <3>1. k - 1 \in 0..n /\ k \in 0..n /\ k - 1 # 0 /\ k # 0
        BY <1>1, <2>3
      <3>2. acc[k] = flatten[k] /\ acc[k - 1] = flatten[k - 1]
        BY <3>1
      <3> HIDE DEF acc
      <3> QED  BY <1>9, <2>3, <3>2
    <2> QED  BY <2>2, <2>3
  <1>11. acc[0] = <<>> /\ FlattenSeq(seqs) = acc[n]
    BY <1>1, <1>4, <1>5
  <1>12. acc = [k \in 0..n |-> acc[k]]
    OBVIOUS
  <1> HIDE DEF acc
  <1>13. \A k \in 0..n : acc[k] \in T
    <2>1. acc[0] \in T /\ n \in Nat
      BY <1>1, <1>11
    <2>2. ASSUME NEW k \in 1..n, acc[k - 1] \in T  PROVE acc[k] \in T
      <3>1. acc[k] = acc[k - 1] \o seqs[k] /\ seqs[k] \in Seq(X) /\ acc[k - 1] \in Seq(X)
        BY <1>1, <1>10, <2>2 DEF T
      <3> QED  BY <3>1 DEF T
    <2> DEFINE D == {k \in 0..n : acc[k] \in T}
    <2>3. 0 \in D /\ \A k \in 1..n : k - 1 \in D => k \in D
      BY <2>1, <2>2
    <2> HIDE DEF D
    <2>4. 0..n \subseteq D
      BY <2>1, <2>3, IndexInduction
    <2> QED  BY <2>4 DEF D
  <1>14. acc \in [0..n -> Seq(X)]
    BY <1>12, <1>13 DEF T
  <1> QED
    BY <1>10, <1>11, <1>14

\* One more list is concatenated at the end.
LEMMA FlattenAppend ==
    ASSUME NEW X, NEW seqs \in Seq(Seq(X)), NEW e \in Seq(X)
    PROVE  /\ FlattenSeq(seqs) \in Seq(X)
           /\ FlattenSeq(Append(seqs, e)) = FlattenSeq(seqs) \o e
  <1> DEFINE n == Len(seqs)
             app == Append(seqs, e)
  <1>0. n \in Nat
    OBVIOUS
  <1>1. /\ n \in Nat /\ app \in Seq(Seq(X)) /\ Len(app) = n + 1
        /\ app[n + 1] = e /\ \A k \in 1..n : app[k] = seqs[k]
    OBVIOUS
  <1>2. PICK a \in [0..n -> Seq(X)] :
             /\ a[0] = <<>>
             /\ \A k \in 1..n : a[k] = a[k - 1] \o seqs[k]
             /\ FlattenSeq(seqs) = a[n]
    BY FlattenRuns
  <1> HIDE DEF app
  <1>10. PICK b \in [0..Len(app) -> Seq(X)] :
             /\ b[0] = <<>>
             /\ \A k \in 1..Len(app) : b[k] = b[k - 1] \o app[k]
             /\ FlattenSeq(app) = b[Len(app)]
    BY <1>1, FlattenRuns
  <1>3. /\ b[0] = <<>>
        /\ \A k \in 1..(n + 1) : b[k] = b[k - 1] \o app[k]
        /\ FlattenSeq(app) = b[n + 1]
    BY <1>1, <1>10
  <1> HIDE DEF n
  <1>4. \A k \in 1..n : a[k - 1] = b[k - 1] => a[k] = b[k]
    <2>1. \A k \in 1..n : k \in 1..(n + 1)
      BY <1>1
    <2> QED  BY <1>1, <1>2, <1>3, <2>1, Zenon
  <1>5. a[0] = b[0]
    BY <1>2, <1>3
  <1>6. \A k \in 0..n : a[k] = b[k]
    <2> DEFINE D == {k \in 0..n : a[k] = b[k]}
    <2>1. 0 \in D /\ \A k \in 1..n : k - 1 \in D => k \in D
      BY <1>0, <1>4, <1>5
    <2> HIDE DEF D
    <2>2. 0..n \subseteq D
      BY <1>0, <2>1, IndexInduction
    <2> QED  BY <2>2 DEF D
  <1>7. n + 1 \in 1..(n + 1) /\ (n + 1) - 1 = n /\ n \in 0..n
    BY <1>0
  <1>8. b[n + 1] = a[n] \o e
    BY <1>1, <1>3, <1>6, <1>7
  <1>9. FlattenSeq(seqs) \in Seq(X)
    BY <1>2, <1>7
  <1> QED
    BY <1>2, <1>3, <1>8, <1>9 DEF app

\* Flattening nothing, or one list.
LEMMA FlattenSmall ==
    ASSUME NEW X
    PROVE  /\ FlattenSeq(<<>>) = <<>>
           /\ \A e \in Seq(X) : FlattenSeq(<<e>>) = e
  <1>1. FlattenSeq(<<>>) = <<>>
    BY DEF FlattenSeq
  <1>2. ASSUME NEW e \in Seq(X)  PROVE FlattenSeq(<<e>>) = e
    <2>1. <<>> \in Seq(Seq(X)) /\ <<e>> = Append(<<>>, e) /\ <<>> \o e = e
      OBVIOUS
    <2>2. FlattenSeq(Append(<<>>, e)) = FlattenSeq(<<>>) \o e
      BY <2>1, FlattenAppend
    <2> QED  BY <1>1, <2>1, <2>2
  <1> QED  BY <1>1, <1>2

\* Appending a batch leaves the earlier ones, and the lists up to them, alone.
LEMMA AppendKeeps ==
    ASSUME NEW bs \in Seq(Seq(Nat)), NEW e \in Seq(Nat)
    PROVE  /\ Append(bs, e) \in Seq(Seq(Nat)) /\ Len(Append(bs, e)) = Len(bs) + 1
           /\ DOMAIN Append(bs, e) = 1..(Len(bs) + 1)
           /\ Append(bs, e)[Len(bs) + 1] = e
           /\ SubSeq(Append(bs, e), 1, Len(bs) + 1) = Append(bs, e)
           /\ \A i \in 1..Len(bs) : /\ Append(bs, e)[i] = bs[i]
                                    /\ SubSeq(Append(bs, e), 1, i) = SubSeq(bs, 1, i)
  OBVIOUS

\* Concatenation and Append.
LEMMA ConcatAppend ==
    \A s \in Seq(Nat), t \in Seq(Nat), p \in Nat : s \o Append(t, p) = Append(s \o t, p)
  <1> SUFFICES ASSUME NEW s \in Seq(Nat), NEW t \in Seq(Nat), NEW p \in Nat
               PROVE  s \o Append(t, p) = Append(s \o t, p)
    OBVIOUS
  <1> DEFINE a == s \o Append(t, p)
             b == Append(s \o t, p)
  <1>1. a \in Seq(Nat) /\ b \in Seq(Nat)
    OBVIOUS
  <1>2. Len(a) = Len(b)
    OBVIOUS
  <1>3. ASSUME NEW i \in 1..Len(a)  PROVE a[i] = b[i]
    OBVIOUS
  <1> HIDE DEF a, b
  <1> QED
    BY <1>1, <1>2, <1>3

LEMMA AppendSmall ==
    ASSUME NEW s \in Seq(Nat), NEW p \in Nat
    PROVE  s \o <<p>> = Append(s, p) /\ Append(s, p) # <<>>
  <1>1. s \o <<p>> = Append(s, p) /\ Len(Append(s, p)) # 0
    OBVIOUS
  <1> QED
    BY <1>1

\* The prefixes of a list grow element by element.
LEMMA PrefixGrows ==
    ASSUME NEW X, NEW ps \in Seq(X), NEW k \in 1..Len(ps)
    PROVE  /\ SubSeq(ps, 1, k - 1) \in Seq(X) /\ Len(SubSeq(ps, 1, k - 1)) = k - 1
           /\ Append(SubSeq(ps, 1, k - 1), ps[k]) = SubSeq(ps, 1, k)
           /\ IsPrefix(SubSeq(ps, 1, k - 1), ps)
  BY DEF IsPrefix

\* Lists over a smaller set, lists of at most one element, lists without their last.
LEMMA SeqOfSubset ==
    ASSUME NEW A, NEW B, A \subseteq B, NEW s \in Seq(A)
    PROVE  s \in Seq(B)
  <1>1. \A i \in 1..Len(s) : s[i] \in B
    OBVIOUS
  <1>2. Len(s) \in Nat /\ s = [i \in 1..Len(s) |-> s[i]]
    OBVIOUS
  <1> QED
    BY <1>1, <1>2

LEMMA SmallLists ==
    ASSUME NEW X, NEW s \in Seq(X)
    PROVE  /\ Len(s) \in Nat
           /\ Len(s) = 0 => s = <<>>
           /\ Len(s) = 1 => s[1] \in X /\ s = <<s[1]>>
  OBVIOUS

LEMMA FrontIs ==
    ASSUME NEW X, NEW s \in Seq(X), s # <<>>
    PROVE  /\ Front(s) \in Seq(X) /\ Len(Front(s)) = Len(s) - 1
           /\ \A i \in 1..Len(Front(s)) : i \in 1..Len(s) /\ Front(s)[i] = s[i]
  <1>1. Len(s) \in Nat /\ Len(s) \in 1..Len(s)
    OBVIOUS
  <1>2. Front(s) \in Seq(X) /\ Len(Front(s)) = Len(s) - 1
    BY <1>1, PrefixGrows DEF Front
  <1>3. \A i \in 1..(Len(s) - 1) : i \in 1..Len(s) /\ SubSeq(s, 1, Len(s) - 1)[i] = s[i]
    BY <1>1
  <1> QED
    BY <1>2, <1>3 DEF Front

-----------------------------------------------------------------------------
\* The larger, and the smaller, of two numbers.
LEMMA MaxPair ==
    ASSUME NEW a \in Int, NEW b \in Int
    PROVE  Max({a, b}) = IF a >= b THEN a ELSE b
  <1>1. \E x \in {a, b} : \A y \in {a, b} : x >= y
    OBVIOUS
  <1>2. Max({a, b}) \in {a, b} /\ \A y \in {a, b} : Max({a, b}) >= y
    BY <1>1 DEF Max
  <1> QED
    BY <1>2

LEMMA MinPair ==
    ASSUME NEW a \in Int, NEW b \in Int
    PROVE  Min({a, b}) = IF a <= b THEN a ELSE b
  <1>1. \E x \in {a, b} : \A y \in {a, b} : x <= y
    OBVIOUS
  <1>2. Min({a, b}) \in {a, b} /\ \A y \in {a, b} : Min({a, b}) <= y
    BY <1>1 DEF Min
  <1> QED
    BY <1>2

\* saturating_sub.
LEMMA MonusIs ==
    ASSUME NEW a \in Nat, NEW b \in Nat
    PROVE  Monus(a, b) = (IF a >= b THEN a - b ELSE 0) /\ Monus(a, b) \in Nat
  BY MaxPair DEF Monus

\* Multiplication is monotone.
LEMMA Times ==
    ASSUME NEW a \in Nat, NEW b \in Nat, NEW c \in Nat, b >= c
    PROVE  a * b \in Nat /\ a * c \in Nat /\ a * b >= a * c
  OBVIOUS

\* What the integer divisions of fee.rs round down to.
LEMMA QuotientReaches ==
    ASSUME NEW a \in Nat, NEW d \in Nat \ {0}, NEW q \in Nat
    PROVE  /\ a \div d \in Nat
           /\ a >= q * d => a \div d >= q
           /\ a < (a \div d + 1) * d
  OBVIOUS

\* Positive multipliers.
Multipliers == (Nat \ {0}) \X (Nat \ {0})

\* A fee times a multiplier, rounded up, is never below the fee when the
\* multiplier is at least one.
LEMMA ScaleRoundsUp ==
    ASSUME NEW a \in Nat, NEW m \in Multipliers
    PROVE  Scale(a, m) \in Nat /\ (m[1] >= m[2] => Scale(a, m) >= a)
  <1>1. m[1] \in Nat \ {0} /\ m[2] \in Nat \ {0}
    BY DEF Multipliers
  <1>2. a * m[1] \in Nat /\ a * m[1] + m[2] - 1 \in Nat
    BY <1>1
  <1>3. ASSUME m[1] >= m[2]  PROVE a * m[1] + m[2] - 1 >= a * m[2]
    <2>1. a * m[1] >= a * m[2] /\ a * m[2] \in Nat
      BY <1>1, <1>3, Times
    <2> QED  BY <1>1, <1>2, <2>1
  <1> QED
    BY <1>1, <1>2, <1>3, QuotientReaches DEF Scale, Ceil

\* Bumping a multiplier of at least one keeps it at least one.
LEMMA MultiplyKeeps ==
    ASSUME NEW m \in Multipliers, NEW n \in Multipliers
    PROVE  /\ Multiply(m, n) \in Multipliers
           /\ m[1] >= m[2] /\ n[1] >= n[2] => Multiply(m, n)[1] >= Multiply(m, n)[2]
  <1>1. m[1] \in Nat \ {0} /\ m[2] \in Nat \ {0} /\ n[1] \in Nat \ {0} /\ n[2] \in Nat \ {0}
    BY DEF Multipliers
  <1>2. m[1] * n[1] \in Nat \ {0} /\ m[2] * n[2] \in Nat \ {0}
    BY <1>1
  <1>3. ASSUME m[1] >= m[2], n[1] >= n[2]  PROVE m[1] * n[1] >= m[2] * n[2]
    <2>1. m[1] * n[1] >= m[1] * n[2]
      BY <1>1, <1>3, Times
    <2>2. n[2] * m[1] >= n[2] * m[2]
      BY <1>1, <1>3, Times
    <2> QED  BY <1>1, <1>2, <2>1, <2>2
  <1> QED
    BY <1>2, <1>3 DEF Multiply, Multipliers

\* compute_speedup_fee, for every size, multiplier, rate and lift: the package never
\* pays more than the cap, pays it exactly when the cap is reported, and otherwise
\* pays the rate asked for and the lift on top.
LEMMA FeeFacts ==
    ASSUME NEW p \in Nat, NEW c \in Nat, NEW bump \in Multipliers, NEW rate \in Nat \ {0},
           NEW isRbf, NEW lift \in Nat
    PROVE  LET price == ComputeSpeedupFee(p, c, bump, rate, isRbf, lift)
           IN  /\ price.fee \in Nat
               /\ p + price.fee <= MaxFeeRate * (p + c)
               /\ price.capped => p + price.fee = MaxFeeRate * (p + c)
               /\ bump[1] >= bump[2] /\ ~price.capped => p + price.fee >= (p + c) * rate + lift
  <1> DEFINE package == Monus((p + c) * rate, p * MinRelayFeeRate)
             floor == IF isRbf THEN 2 * c * rate ELSE 0
             asked == Max({package, floor}) + lift
             fee == UncappedFee(p, c, bump, rate, isRbf, lift)
             cap == FeeCap(p, c)
  <1>1. MaxFeeRate \in Nat /\ MaxFeeRate >= 1
    BY FeeAssumption DEF Validate
  <1>2. p * MinRelayFeeRate = p
    BY DEF MinRelayFeeRate
  <1>3. (p + c) * rate \in Nat /\ (p + c) * rate >= p
    <2>1. (p + c) * rate \in Nat /\ (p + c) * rate >= (p + c) * 1
      BY Times
    <2> QED  BY <2>1
  <1>4. package = (p + c) * rate - p /\ package \in Nat
    BY <1>2, <1>3, MonusIs
  <1>5. MaxFeeRate * (p + c) \in Nat /\ MaxFeeRate * (p + c) >= p
    <2>1. (p + c) * MaxFeeRate \in Nat /\ (p + c) * MaxFeeRate >= (p + c) * 1
      BY <1>1, Times
    <2>2. (p + c) * MaxFeeRate = MaxFeeRate * (p + c)
      BY <1>1
    <2> QED  BY <2>1, <2>2
  <1>6. cap = MaxFeeRate * (p + c) - p /\ cap \in Nat
    BY <1>2, <1>5, MonusIs DEF FeeCap
  <1>7. floor \in Nat
    OBVIOUS
  <1> HIDE DEF package, floor
  <1>8. asked \in Nat /\ asked >= package + lift
    BY <1>4, <1>7, MaxPair
  <1>9. fee = Scale(asked, bump)
    BY DEF UncappedFee, package, floor
  <1> HIDE DEF asked, fee, cap
  <1>10. fee \in Nat /\ (bump[1] >= bump[2] => fee >= asked)
    BY <1>8, <1>9, ScaleRoundsUp
  <1>11. ComputeSpeedupFee(p, c, bump, rate, isRbf, lift) = [fee |-> Min({fee, cap}), capped |-> fee > cap]
    BY DEF ComputeSpeedupFee, fee, cap
  <1>12. Min({fee, cap}) = IF fee <= cap THEN fee ELSE cap
    BY <1>6, <1>10, MinPair
  <1> DEFINE q == [fee |-> Min({fee, cap}), capped |-> fee > cap]
  <1>13. q.fee = Min({fee, cap}) /\ (q.capped <=> fee > cap)
    BY Zenon
  <1> HIDE DEF q
  <1>14. \/ fee <= cap /\ q.fee = fee /\ ~q.capped
         \/ q.fee = cap /\ q.capped
    <2>1. CASE fee <= cap
      <3>1. ~(fee > cap) /\ Min({fee, cap}) = fee
        BY <1>6, <1>10, <1>12, <2>1
      <3> QED  BY <1>13, <2>1, <3>1, Zenon
    <2>2. CASE ~(fee <= cap)
      <3>1. fee > cap /\ Min({fee, cap}) = cap
        BY <1>6, <1>10, <1>12, <2>2
      <3> QED  BY <1>13, <3>1, Zenon
    <2> QED  BY <2>1, <2>2
  <1>15. CASE fee <= cap /\ q.fee = fee /\ ~q.capped
    <2>1. q.fee \in Nat /\ p + q.fee <= MaxFeeRate * (p + c)
      BY <1>5, <1>6, <1>10, <1>15
    <2>2. ASSUME bump[1] >= bump[2]  PROVE p + q.fee >= (p + c) * rate + lift
      <3>1. fee >= asked
        BY <1>10, <2>2
      <3> QED  BY <1>3, <1>4, <1>8, <1>10, <1>15, <3>1
    <2> QED  BY <1>11, <1>15, <2>1, <2>2 DEF q
  <1>16. CASE q.fee = cap /\ q.capped
    <2>1. q.fee \in Nat /\ p + q.fee = MaxFeeRate * (p + c) /\ p + q.fee <= MaxFeeRate * (p + c)
      BY <1>5, <1>6, <1>16
    <2> QED  BY <1>11, <1>16, <2>1 DEF q
  <1> QED
    BY <1>14, <1>15, <1>16

-----------------------------------------------------------------------------
\* The accumulators of batch_by_weight: none closed, none open; their type; one step
\* of its loop; what it returns of the last.
NoBatch == [closed |-> <<>>, open |-> <<>>]

Accumulators == [closed : Seq(Seq(Nat)), open : Seq(Nat)]

TakeParent(acc, parent, m) == IF Len(acc.closed) >= m THEN acc ELSE AddToBatch(acc, parent)

Result(acc, m) ==
    IF acc.open # <<>> /\ Len(acc.closed) < m THEN Append(acc.closed, acc.open) ELSE acc.closed

\* The equation FoldLeft solves for BatchByWeight.
BatchEquation(g, ps, m) ==
    g = [s \in SUBSET (DOMAIN ps) |->
           IF s = {} THEN NoBatch ELSE TakeParent(g[s \ {Max(s)}], ps[Max(s)], m)]

\* A step of the loop keeps the accumulator's shape.
LEMMA TakeTyped ==
    ASSUME NEW acc \in Accumulators, NEW p \in Nat, NEW m
    PROVE  TakeParent(acc, p, m) \in Accumulators
  <1>1. /\ acc.closed \in Seq(Seq(Nat)) /\ acc.open \in Seq(Nat)
        /\ Append(acc.closed, acc.open) \in Seq(Seq(Nat))
        /\ <<p>> \in Seq(Nat) /\ Append(acc.open, p) \in Seq(Nat)
    BY DEF Accumulators
  <1> QED
    BY <1>1 DEF TakeParent, AddToBatch, Accumulators

\* batch_by_weight takes the parents one by one.
LEMMA BatchRuns ==
    ASSUME NEW ps \in Seq(Nat), NEW m
    PROVE  \E acc :
             /\ acc[0] = NoBatch
             /\ \A k \in 1..Len(ps) : acc[k] = TakeParent(acc[k - 1], ps[k], m)
             /\ BatchByWeight(ps, m) = Result(acc[Len(ps)], m)
  <1> DEFINE n == Len(ps)
             T == Accumulators
             step == [p \in T \X (1..n) |-> TakeParent(p[1], ps[p[2]], m)]
             iter == CHOOSE g : BatchEquation(g, ps, m)
  <1>1. n \in Nat /\ DOMAIN ps = 1..n
    OBVIOUS
  <1>2. \A k \in 1..n : ps[k] \in Nat
    OBVIOUS
  <1>3. BatchByWeight(ps, m) = Result(iter[DOMAIN ps], m)
    BY Zenon DEF BatchByWeight, FoldLeft, MapThenFoldSet, BatchEquation, TakeParent, NoBatch, Result
  <1>4. NoBatch \in T
    BY DEF NoBatch, Accumulators
  <1> HIDE DEF T, n
  <1>5. ASSUME NEW a \in T, NEW k \in 1..n
        PROVE  TakeParent(a, ps[k], m) \in T
    BY <1>2, TakeTyped DEF T
  <1>6. step \in [T \X (1..n) -> T]
    BY <1>5
  <1>7. ASSUME NEW a \in T, NEW k \in 1..n
        PROVE  step[<<a, k>>] = TakeParent(a, ps[k], m)
    OBVIOUS
  <1> HIDE DEF step
  <1>8. PICK g \in [SUBSET (1..n) -> T] : FoldEquation(g, n, NoBatch, step)
    BY <1>1, <1>4, <1>6, FoldExists
  <1>9. BatchEquation(g, ps, m)
    <2>1. ASSUME NEW s \in SUBSET (1..n), s # {}
          PROVE  step[<<g[s \ {Max(s)}], Max(s)>>] = TakeParent(g[s \ {Max(s)}], ps[Max(s)], m)
      <3>1. Max(s) \in s
        BY <1>1, <2>1, MaxExists
      <3>2. g[s \ {Max(s)}] \in T
        OBVIOUS
      <3> QED  BY <1>7, <3>1, <3>2
    <2> QED  BY <1>1, <1>8, <2>1 DEF BatchEquation, FoldEquation
  <1>10. BatchEquation(iter, ps, m)
    BY <1>9
  <1> HIDE DEF iter
  <1> DEFINE acc == [k \in 0..n |-> iter[1..k]]
  <1>11. iter[1..0] = NoBatch
    <2>1. 1..0 = {}
      OBVIOUS
    <2> QED  BY <1>10, <2>1 DEF BatchEquation
  <1>12. ASSUME NEW k \in 1..n  PROVE iter[1..k] = TakeParent(iter[1..(k - 1)], ps[k], m)
    <2>1. /\ 1..k \in SUBSET (DOMAIN ps) /\ 1..k # {}
          /\ Max(1..k) = k /\ (1..k) \ {Max(1..k)} = 1..(k - 1)
      BY <1>1, IntervalUnfolds
    <2>2. iter[1..k] = TakeParent(iter[(1..k) \ {Max(1..k)}], ps[Max(1..k)], m)
      BY <1>10, <2>1 DEF BatchEquation
    <2> QED  BY <2>1, <2>2
  <1>13. acc[0] = NoBatch /\ acc[n] = iter[1..n]
    BY <1>1, <1>11
  <1>14. \A k \in 1..n : acc[k] = TakeParent(acc[k - 1], ps[k], m)
    <2>1. \A k \in 1..n : acc[k] = iter[1..k] /\ acc[k - 1] = iter[1..(k - 1)]
      BY <1>1
    <2> QED  BY <1>12, <2>1
  <1> HIDE DEF acc
  <1> QED
    BY <1>1, <1>3, <1>13, <1>14 DEF n

\* How many parents the first i batches hold.
UpTo(bs, i) == Len(FlattenSeq(SubSeq(bs, 1, i)))

\* Every closed batch was closed because the next parent did not fit.
GreedyClosed(bs, ps) ==
    \A i \in 1..Len(bs) :
       /\ bs[i] # <<>>
       /\ SumOf(bs[i]) <= MaxTxWeight \/ Len(bs[i]) = 1
       /\ UpTo(bs, i) < Len(ps)
       /\ SumOf(bs[i]) + ps[UpTo(bs, i) + 1] > MaxTxWeight

\* While there is room for a batch, the closed batches and the open one hold the
\* first k parents in order, and the open one fits.
OpenFits(acc, k, ps) ==
    /\ FlattenSeq(acc.closed) \o acc.open = SubSeq(ps, 1, k)
    /\ acc.open = <<>> => k = 0
    /\ acc.open # <<>> => SumOf(acc.open) <= MaxTxWeight \/ Len(acc.open) = 1

\* What holds after k parents: the invariant of batch_by_weight's loop.
BatchInv(acc, k, ps, m) ==
    /\ acc \in Accumulators
    /\ Len(acc.closed) <= m
    /\ GreedyClosed(acc.closed, ps)
    /\ Len(acc.closed) < m => OpenFits(acc, k, ps)
    /\ Len(acc.closed) = m => IsPrefix(FlattenSeq(acc.closed), ps)

\* Closing the open batch before parent k.
LEMMA GreedyAppend ==
    ASSUME NEW ps \in Seq(Nat), NEW bs \in Seq(Seq(Nat)), NEW e \in Seq(Nat),
           NEW k \in 1..Len(ps),
           GreedyClosed(bs, ps), e # <<>>, SumOf(e) <= MaxTxWeight \/ Len(e) = 1,
           Len(FlattenSeq(bs) \o e) = k - 1, SumOf(e) + ps[k] > MaxTxWeight
    PROVE  GreedyClosed(Append(bs, e), ps)
  <1> DEFINE app == Append(bs, e)
             n == Len(bs)
  <1>1. /\ Len(app) = n + 1 /\ app[n + 1] = e
        /\ SubSeq(app, 1, n + 1) = app
        /\ \A i \in 1..n : app[i] = bs[i] /\ SubSeq(app, 1, i) = SubSeq(bs, 1, i)
    BY AppendKeeps
  <1>8. n \in Nat
    OBVIOUS
  <1>2. FlattenSeq(app) = FlattenSeq(bs) \o e
    BY FlattenAppend
  <1> HIDE DEF app, n
  <1>3. UpTo(app, n + 1) = k - 1 /\ \A i \in 1..n : UpTo(app, i) = UpTo(bs, i)
    BY <1>1, <1>2 DEF UpTo
  <1>4. UpTo(app, n + 1) < Len(ps) /\ UpTo(app, n + 1) + 1 = k
    BY <1>3
  <1>5. \A i \in 1..(n + 1) : i \in 1..n \/ i = n + 1
    BY <1>8
  <1> SUFFICES ASSUME NEW i \in 1..(n + 1)
               PROVE  /\ app[i] # <<>>
                      /\ SumOf(app[i]) <= MaxTxWeight \/ Len(app[i]) = 1
                      /\ UpTo(app, i) < Len(ps)
                      /\ SumOf(app[i]) + ps[UpTo(app, i) + 1] > MaxTxWeight
    BY <1>1 DEF GreedyClosed, app
  <1>6. CASE i \in 1..n
    <2>1. app[i] = bs[i] /\ UpTo(app, i) = UpTo(bs, i)
      BY <1>1, <1>3, <1>6
    <2> QED  BY <1>6, <2>1, Zenon DEF GreedyClosed, n
  <1>7. CASE i = n + 1
    BY <1>1, <1>4, <1>7
  <1> QED
    BY <1>5, <1>6, <1>7

\* Each parent taken keeps the loop's invariant: too many batches already, the open
\* batch closed, or the parent added to it.
LEMMA TakeKeeps ==
    ASSUME NEW ps \in Seq(Nat), NEW m \in Nat \ {0}, NEW k \in 1..Len(ps), NEW acc,
           BatchInv(acc, k - 1, ps, m)
    PROVE  BatchInv(TakeParent(acc, ps[k], m), k, ps, m)
  <1> DEFINE bs == acc.closed
             open == acc.open
             p == ps[k]
             next == TakeParent(acc, p, m)
  <1>1. /\ acc \in Accumulators /\ bs \in Seq(Seq(Nat)) /\ open \in Seq(Nat) /\ p \in Nat
        /\ Len(bs) \in Nat
    BY DEF BatchInv, Accumulators
  <1>2. next \in Accumulators
    BY <1>1, TakeTyped
  <1> SUFFICES BatchInv(next, k, ps, m)
    OBVIOUS
  <1>3. CASE Len(bs) >= m
    BY <1>1, <1>3 DEF TakeParent, BatchInv
  <1>4. CASE Len(bs) < m /\ open # <<>> /\ SumOf(open) + p > MaxTxWeight
    <2>1. next.closed = Append(bs, open) /\ next.open = <<p>>
      <3>1. ~(Len(bs) >= m)
        BY <1>1, <1>4
      <3>2. next = AddToBatch(acc, p)
        BY <3>1, Zenon DEF TakeParent
      <3>3. AddToBatch(acc, p) = [closed |-> Append(bs, open), open |-> <<p>>]
        BY <1>4, Zenon DEF AddToBatch
      <3> HIDE DEF next, bs, open, p
      <3> QED  BY <3>2, <3>3
    <2>2. OpenFits(acc, k - 1, ps) /\ GreedyClosed(bs, ps)
      BY <1>4 DEF BatchInv
    <2>3. FlattenSeq(bs) \in Seq(Nat) /\ FlattenSeq(Append(bs, open)) = FlattenSeq(bs) \o open
      BY <1>1, FlattenAppend
    <2>4. FlattenSeq(Append(bs, open)) = SubSeq(ps, 1, k - 1)
      BY <2>2, <2>3 DEF OpenFits
    <2>5. /\ SubSeq(ps, 1, k - 1) \in Seq(Nat) /\ Len(SubSeq(ps, 1, k - 1)) = k - 1
          /\ SubSeq(ps, 1, k - 1) \o <<p>> = SubSeq(ps, 1, k)
          /\ IsPrefix(SubSeq(ps, 1, k - 1), ps)
      BY <1>1, PrefixGrows, AppendSmall
    <2>6. GreedyClosed(Append(bs, open), ps)
      BY <1>1, <1>4, <2>2, <2>3, <2>4, <2>5, GreedyAppend DEF OpenFits
    <2>7. Len(next.closed) = Len(bs) + 1
      BY <1>1, <2>1
    <2>8. SumOf(<<p>>) <= MaxTxWeight \/ Len(<<p>>) = 1
      OBVIOUS
    <2>9. OpenFits(next, k, ps)
      BY <2>1, <2>4, <2>5 DEF OpenFits
    <2>10. IsPrefix(FlattenSeq(next.closed), ps)
      BY <2>1, <2>4, <2>5
    <2> HIDE DEF next
    <2> QED
      BY <1>1, <1>2, <1>4, <2>1, <2>6, <2>7, <2>9, <2>10 DEF BatchInv
  <1>5. CASE Len(bs) < m /\ ~(open # <<>> /\ SumOf(open) + p > MaxTxWeight)
    <2>1. next.closed = bs /\ next.open = Append(open, p)
      <3>1. ~(Len(bs) >= m)
        BY <1>1, <1>5
      <3>2. next = AddToBatch(acc, p)
        BY <3>1, Zenon DEF TakeParent
      <3>3. AddToBatch(acc, p) = [closed |-> bs, open |-> Append(open, p)]
        BY <1>5, Zenon DEF AddToBatch
      <3> HIDE DEF next, bs, open, p
      <3> QED  BY <3>2, <3>3
    <2>2. OpenFits(acc, k - 1, ps) /\ GreedyClosed(bs, ps)
      BY <1>5 DEF BatchInv
    <2>3. FlattenSeq(bs) \in Seq(Nat)
      BY <1>1, FlattenAppend
    <2>4. FlattenSeq(bs) \o Append(open, p) = Append(FlattenSeq(bs) \o open, p)
      <3>1. open \in Seq(Nat) /\ p \in Nat
        BY <1>1
      <3> HIDE DEF open, p
      <3> QED  BY <2>3, <3>1, ConcatAppend, Zenon
    <2>5. Append(SubSeq(ps, 1, k - 1), p) = SubSeq(ps, 1, k)
      BY PrefixGrows
    <2>6. FlattenSeq(bs) \o Append(open, p) = SubSeq(ps, 1, k)
      BY <2>2, <2>4, <2>5 DEF OpenFits
    <2>7. SumOf(Append(open, p)) = SumOf(open) + p /\ SumOf(open) \in Nat
      BY <1>1, SumAppend, SumBounds
    <2>8. SumOf(Append(open, p)) <= MaxTxWeight \/ Len(Append(open, p)) = 1
      <3>1. CASE open = <<>>
        BY <1>1, <3>1
      <3>2. CASE open # <<>>
        BY <1>1, <1>5, <2>7, <3>2, FeeAssumption DEF Validate
      <3> QED  BY <3>1, <3>2
    <2>9. Append(open, p) # <<>>
      <3> HIDE DEF open, p
      <3> QED  BY <1>1, AppendSmall
    <2>10. OpenFits(next, k, ps)
      BY <2>1, <2>6, <2>8, <2>9 DEF OpenFits
    <2> HIDE DEF next
    <2> QED
      BY <1>1, <1>2, <1>5, <2>1, <2>2, <2>10 DEF BatchInv
  <1> QED
    BY <1>1, <1>3, <1>4, <1>5

\* What batch_by_weight promises, for every list of weights and every number of
\* batches: consecutive batches from the front of the list, at most as many as asked
\* for, none above max_tx_weight unless it is a single parent, each closed only
\* because the next parent did not fit, and no parent left out while a batch is free.
LEMMA BatchesGreedy ==
    ASSUME NEW ps \in Seq(Nat), NEW m \in Nat \ {0}
    PROVE  LET batches == BatchByWeight(ps, m)
               taken == Len(FlattenSeq(batches))
           IN  /\ batches \in Seq(Seq(Nat))
               /\ Len(batches) <= m
               /\ IsPrefix(FlattenSeq(batches), ps)
               /\ \A i \in 1..Len(batches) :
                    /\ batches[i] # <<>>
                    /\ SumOf(batches[i]) <= MaxTxWeight \/ Len(batches[i]) = 1
                    /\ UpTo(batches, i) < Len(ps) =>
                         SumOf(batches[i]) + ps[UpTo(batches, i) + 1] > MaxTxWeight
               /\ Len(batches) < m => taken = Len(ps)
  <1> DEFINE n == Len(ps)
  <1>1. n \in Nat /\ SubSeq(ps, 1, n) = ps
    OBVIOUS
  <1>2. PICK acc : /\ acc[0] = NoBatch
                   /\ \A k \in 1..n : acc[k] = TakeParent(acc[k - 1], ps[k], m)
                   /\ BatchByWeight(ps, m) = Result(acc[n], m)
    BY BatchRuns
  <1>3. BatchInv(acc[0], 0, ps, m)
    <2>1. NoBatch \in Accumulators /\ NoBatch.closed = <<>> /\ NoBatch.open = <<>>
      BY DEF NoBatch, Accumulators
    <2>2. Len(<<>>) = 0 /\ FlattenSeq(<<>>) = <<>> /\ <<>> \o <<>> = SubSeq(ps, 1, 0)
      BY FlattenSmall
    <2>3. GreedyClosed(<<>>, ps)
      BY DEF GreedyClosed
    <2>4. OpenFits(NoBatch, 0, ps)
      BY <2>1, <2>2 DEF OpenFits
    <2>5. 0 < m /\ 0 <= m /\ 0 # m
      OBVIOUS
    <2>6. BatchInv(NoBatch, 0, ps, m)
      BY <2>1, <2>2, <2>3, <2>4, <2>5, Zenon DEF BatchInv
    <2> QED  BY <1>2, <2>6
  <1>4. BatchInv(acc[n], n, ps, m)
    <2> DEFINE D == {k \in 0..n : BatchInv(acc[k], k, ps, m)}
    <2>1. 0 \in D
      BY <1>1, <1>3
    <2>2. ASSUME NEW k \in 1..n, k - 1 \in D  PROVE k \in D
      <3>1. BatchInv(acc[k - 1], k - 1, ps, m)
        BY <2>2
      <3>2. BatchInv(TakeParent(acc[k - 1], ps[k], m), k, ps, m)
        BY <3>1, TakeKeeps
      <3>3. k \in 0..n
        BY <1>1
      <3> QED  BY <1>2, <3>2, <3>3
    <2> HIDE DEF D, n
    <2>3. 0..n \subseteq D
      BY <1>1, <2>1, <2>2, IndexInduction
    <2> QED  BY <1>1, <2>3 DEF D
  <1> DEFINE end == acc[n]
             bs == end.closed
             open == end.open
  <1>5. /\ end \in Accumulators /\ bs \in Seq(Seq(Nat)) /\ open \in Seq(Nat)
        /\ Len(bs) \in Nat /\ Len(bs) <= m /\ GreedyClosed(bs, ps)
    BY <1>4 DEF BatchInv, Accumulators
  <1>6. CASE open # <<>> /\ Len(bs) < m
    <2> DEFINE app == Append(bs, open)
    <2>1. BatchByWeight(ps, m) = app
      BY <1>2, <1>6 DEF Result
    <2>2. OpenFits(end, n, ps)
      BY <1>4, <1>6 DEF BatchInv
    <2>3. FlattenSeq(app) = ps
      BY <1>1, <1>5, <2>2, FlattenAppend DEF OpenFits
    <2>4. /\ app \in Seq(Seq(Nat)) /\ Len(app) = Len(bs) + 1 /\ app[Len(bs) + 1] = open
          /\ SubSeq(app, 1, Len(bs) + 1) = app
          /\ \A i \in 1..Len(bs) : app[i] = bs[i] /\ SubSeq(app, 1, i) = SubSeq(bs, 1, i)
      BY <1>5, AppendKeeps
    <2>5. IsPrefix(ps, ps)
      BY DEF IsPrefix
    <2> HIDE DEF app, bs, open
    <2>6. ASSUME NEW i \in 1..Len(app)
          PROVE  /\ app[i] # <<>>
                 /\ SumOf(app[i]) <= MaxTxWeight \/ Len(app[i]) = 1
                 /\ UpTo(app, i) < Len(ps) =>
                      SumOf(app[i]) + ps[UpTo(app, i) + 1] > MaxTxWeight
      <3>1. CASE i \in 1..Len(bs)
        <4>1. app[i] = bs[i] /\ UpTo(app, i) = UpTo(bs, i)
          BY <2>4, <3>1 DEF UpTo
        <4> QED  BY <1>5, <3>1, <4>1, Zenon DEF GreedyClosed
      <3>2. CASE i = Len(bs) + 1
        <4>1. app[i] = open /\ UpTo(app, i) = n
          BY <2>3, <2>4, <3>2 DEF UpTo
        <4>2. open # <<>> /\ (SumOf(open) <= MaxTxWeight \/ Len(open) = 1)
          BY <1>6, <2>2 DEF OpenFits, open
        <4>3. ~(n < n)
          BY <1>1
        <4> QED  BY <4>1, <4>2, <4>3
      <3>3. i \in 1..Len(bs) \/ i = Len(bs) + 1
        BY <1>5, <2>4
      <3> QED  BY <3>1, <3>2, <3>3
    <2>7. Len(app) <= m
      BY <1>5, <1>6, <2>4
    <2> QED
      BY <2>1, <2>3, <2>4, <2>5, <2>6, <2>7
  <1>7. CASE ~(open # <<>> /\ Len(bs) < m)
    <2>1. BatchByWeight(ps, m) = bs
      BY <1>2, <1>7 DEF Result
    <2>2. Len(bs) < m => n = 0 /\ bs = <<>>
      <3> SUFFICES ASSUME Len(bs) < m  PROVE n = 0 /\ bs = <<>>
        OBVIOUS
      <3>1. n = 0
        BY <1>4, <1>7 DEF BatchInv, OpenFits
      <3>2. ~ \E i \in 1..Len(bs) : TRUE
        <4> SUFFICES ASSUME NEW i \in 1..Len(bs)  PROVE FALSE
          OBVIOUS
        <4>1. UpTo(bs, i) < 0
          BY <1>5, <3>1 DEF GreedyClosed
        <4>2. SubSeq(bs, 1, i) \in Seq(Seq(Nat))
          BY <1>5
        <4>3. FlattenSeq(SubSeq(bs, 1, i)) \in Seq(Nat)
          BY <4>2, FlattenAppend
        <4> QED  BY <4>1, <4>3 DEF UpTo
      <3> QED  BY <1>5, <3>1, <3>2
    <2>3. Len(bs) < m => FlattenSeq(bs) = ps
      BY <2>2, FlattenSmall
    <2>4. IsPrefix(FlattenSeq(bs), ps)
      <3>1. CASE Len(bs) < m
        BY <2>3, <3>1 DEF IsPrefix
      <3>2. CASE Len(bs) = m
        BY <1>4, <3>2 DEF BatchInv
      <3> QED  BY <1>5, <3>1, <3>2
    <2> HIDE DEF bs
    <2>5. \A i \in 1..Len(bs) :
             /\ bs[i] # <<>>
             /\ SumOf(bs[i]) <= MaxTxWeight \/ Len(bs[i]) = 1
             /\ UpTo(bs, i) < Len(ps) => SumOf(bs[i]) + ps[UpTo(bs, i) + 1] > MaxTxWeight
      BY <1>5, Zenon DEF GreedyClosed
    <2> QED
      BY <1>5, <2>1, <2>3, <2>4, <2>5
  <1> QED
    BY <1>6, <1>7
=================================================================================
