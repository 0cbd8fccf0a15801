----------------------------- MODULE FoldTheorems -----------------------------
(***************************************************************************)
(* What FoldLeft computes, for sequences of every length.  The provers     *)
(* cannot instantiate an induction theorem whose predicate is an operator, *)
(* so induction over Nat is stated for a SET of numbers, and the step of a *)
(* fold is a FUNCTION of the accumulator and the index.                    *)
(***************************************************************************)
EXTENDS Integers, FiniteSetsExt, WellFoundedInduction, TLAPS

LEMMA NatWellFounded == IsWellFoundedOn(OpToRel(<, Nat), Nat)
  BY NatLessThanWellFounded, Zenon

\* Induction over Nat, for a set: it holds every number when it holds 0 and the
\* successor of each of its members.
LEMMA SetInduction ==
    ASSUME NEW S, 0 \in S, \A n \in Nat : n \in S => n + 1 \in S
    PROVE  Nat \subseteq S
  <1> SUFFICES ASSUME NEW k \in Nat, k \notin S  PROVE FALSE
    OBVIOUS
  <1> DEFINE T == Nat \ S
  <1>1. T \subseteq Nat /\ T # {}
    OBVIOUS
  <1> HIDE DEF T
  <1>2. PICK x \in T : \A y \in Nat : <<y, x>> \in OpToRel(<, Nat) => ~(y \in T)
    BY <1>1, NatWellFounded, WFMin
  <1>3. \A y \in Nat : y < x => y \notin T
    BY <1>1, <1>2 DEF OpToRel
  <1>4. x \in Nat /\ x # 0 /\ x \notin S
    BY <1>1 DEF T
  <1>5. x - 1 \in Nat /\ x - 1 \in S
    BY <1>3, <1>4 DEF T
  <1> QED
    BY <1>4, <1>5

\* The largest index of a set, which is the one FoldLeft takes next.
LEMMA MaxOfSubset ==
    ASSUME NEW k \in Nat, NEW s \in SUBSET (1..k), k \in s
    PROVE  Max(s) = k
  <1>1. \A y \in s : k >= y
    OBVIOUS
  <1>2. \A x \in s : (\A y \in s : x >= y) => x = k
    OBVIOUS
  <1>3. /\ Max(s) \in s
        /\ \A y \in s : Max(s) >= y
    BY <1>1 DEF Max
  <1> QED
    BY <1>2, <1>3

LEMMA IntervalUnfolds ==
    ASSUME NEW n \in Nat, NEW k \in 1..n
    PROVE  /\ 1..k \in SUBSET (1..n) /\ 1..k # {}
           /\ Max(1..k) = k
           /\ (1..k) \ {Max(1..k)} = 1..(k - 1)
  <1>1. k \in 1..k /\ 1..k \subseteq 1..n
    OBVIOUS
  <1>2. Max(1..k) = k
    BY <1>1, MaxOfSubset
  <1>3. (1..k) \ {k} = 1..(k - 1)
    OBVIOUS
  <1> QED
    BY <1>1, <1>2, <1>3

\* Every nonempty subset of an interval has a largest member.
LEMMA MaxExists ==
    ASSUME NEW n \in Nat, NEW s \in SUBSET (1..n), s # {}
    PROVE  Max(s) \in s
  <1> DEFINE P(k) == \A t \in SUBSET (1..k) : t # {} => Max(t) \in t
             S == {k \in Nat : P(k)}
  <1>1. P(0)
    <2>1. 1..0 = {}
      OBVIOUS
    <2> QED  BY <2>1
  <1>2. ASSUME NEW k \in Nat, P(k)  PROVE P(k + 1)
    <2> SUFFICES ASSUME NEW t \in SUBSET (1..(k + 1)), t # {}  PROVE Max(t) \in t
      OBVIOUS
    <2>1. CASE k + 1 \in t
      BY <2>1, MaxOfSubset
    <2>2. CASE k + 1 \notin t
      <3>1. t \in SUBSET (1..k)
        BY <2>2
      <3> QED  BY <1>2, <3>1
    <2> QED  BY <2>1, <2>2
  <1> HIDE DEF P
  <1>3. 0 \in S /\ \A k \in Nat : k \in S => k + 1 \in S
    BY <1>1, <1>2
  <1> HIDE DEF S
  <1>4. n \in S
    BY <1>3, SetInduction
  <1>5. P(n) /\ n <= n
    BY <1>4 DEF S
  <1> QED
    BY <1>5 DEF P

-----------------------------------------------------------------------------
\* The equation by which FoldLeft is defined, its step being a function.
FoldEquation(g, n, base, step) ==
    g = [s \in SUBSET (1..n) |->
           IF s = {} THEN base ELSE step[<<g[s \ {Max(s)}], Max(s)>>]]

\* The equation has a solution, so what FoldLeft chooses satisfies it.
LEMMA FoldExists ==
    ASSUME NEW T, NEW n \in Nat, NEW base \in T, NEW step \in [T \X (1..n) -> T]
    PROVE  \E g \in [SUBSET (1..n) -> T] : FoldEquation(g, n, base, step)
  <1> DEFINE P(k) == k <= n => \E g \in [SUBSET (1..k) -> T] : FoldEquation(g, k, base, step)
             S == {k \in Nat : P(k)}
  <1>1. P(0)
    <2>1. SUBSET (1..0) = {{}}
      OBVIOUS
    <2> DEFINE g == [s \in SUBSET (1..0) |-> base]
    <2>2. g \in [SUBSET (1..0) -> T]
      OBVIOUS
    <2>3. FoldEquation(g, 0, base, step)
      BY <2>1 DEF FoldEquation
    <2> QED
      BY <2>2, <2>3
  <1>2. ASSUME NEW k \in Nat, P(k)  PROVE P(k + 1)
    <2> SUFFICES ASSUME k + 1 <= n
                 PROVE  \E g \in [SUBSET (1..(k + 1)) -> T] : FoldEquation(g, k + 1, base, step)
      OBVIOUS
    <2>0. k <= n
      OBVIOUS
    <2>1. PICK f \in [SUBSET (1..k) -> T] : FoldEquation(f, k, base, step)
      BY <1>2, <2>0
    <2> DEFINE g == [s \in SUBSET (1..(k + 1)) |->
                       IF k + 1 \in s THEN step[<<f[s \ {k + 1}], k + 1>>] ELSE f[s]]
    <2>2. ASSUME NEW s \in SUBSET (1..(k + 1))
          PROVE  /\ k + 1 \in s => s \ {k + 1} \in SUBSET (1..k)
                 /\ k + 1 \notin s => s \in SUBSET (1..k)
      OBVIOUS
    <2>3. ASSUME NEW s \in SUBSET (1..(k + 1))  PROVE g[s] \in T
      BY <2>2
    <2>4. ASSUME NEW s \in SUBSET (1..k)
          PROVE  s \in SUBSET (1..(k + 1)) /\ k + 1 \notin s /\ g[s] = f[s]
      OBVIOUS
    <2>5. ASSUME NEW s \in SUBSET (1..(k + 1))
          PROVE  g[s] = IF s = {} THEN base ELSE step[<<g[s \ {Max(s)}], Max(s)>>]
      <3>1. CASE k + 1 \in s
        <4>1. Max(s) = k + 1
          BY <3>1, MaxOfSubset
        <4>2. g[s \ {k + 1}] = f[s \ {k + 1}]
          BY <3>1, <2>2, <2>4
        <4>3. g[s] = step[<<f[s \ {k + 1}], k + 1>>]
          BY <3>1
        <4> HIDE DEF g
        <4> QED  BY <3>1, <4>1, <4>2, <4>3
      <3>2. CASE k + 1 \notin s /\ s # {}
        <4>1. s \in SUBSET (1..k) /\ g[s] = f[s]
          BY <3>2, <2>2, <2>4
        <4>2. Max(s) \in s
          BY <4>1, <3>2, MaxExists
        <4>3. s \ {Max(s)} \in SUBSET (1..k)
          BY <4>1
        <4>4. g[s \ {Max(s)}] = f[s \ {Max(s)}]
          BY <4>3, <2>4
        <4>5. f[s] = step[<<f[s \ {Max(s)}], Max(s)>>]
          BY <4>1, <3>2, <2>1 DEF FoldEquation
        <4> HIDE DEF g
        <4> QED  BY <3>2, <4>1, <4>4, <4>5
      <3>3. CASE s = {}
        <4>1. g[s] = f[{}]
          BY <3>3, <2>4
        <4>2. f[{}] = base
          BY <2>1 DEF FoldEquation
        <4> QED  BY <3>3, <4>1, <4>2
      <3> QED  BY <3>1, <3>2, <3>3
    <2>6. g \in [SUBSET (1..(k + 1)) -> T]
      BY <2>3
    <2>7. g = [s \in SUBSET (1..(k + 1)) |-> g[s]]
      OBVIOUS
    <2> HIDE DEF g
    <2>8. FoldEquation(g, k + 1, base, step)
      BY <2>5, <2>7 DEF FoldEquation
    <2> QED
      BY <2>6, <2>8
  <1> HIDE DEF P
  <1>3. 0 \in S /\ \A k \in Nat : k \in S => k + 1 \in S
    BY <1>1, <1>2
  <1> HIDE DEF S
  <1>4. n \in S
    BY <1>3, SetInduction
  <1>5. P(n) /\ n <= n
    BY <1>4 DEF S
  <1> QED
    BY <1>5 DEF P

\* Induction over the indices of a run.
LEMMA IndexInduction ==
    ASSUME NEW n \in Nat, NEW D, 0 \in D, \A k \in 1..n : k - 1 \in D => k \in D
    PROVE  0..n \subseteq D
  <1> DEFINE S == {k \in Nat : k <= n => k \in D}
  <1>1. 0 \in S
    OBVIOUS
  <1>2. ASSUME NEW k \in Nat, k \in S  PROVE k + 1 \in S
    <2> SUFFICES ASSUME k + 1 <= n  PROVE k + 1 \in D
      OBVIOUS
    <2>1. k + 1 \in 1..n /\ (k + 1) - 1 = k /\ k \in D
      BY <1>2
    <2> QED  BY <2>1
  <1> HIDE DEF S
  <1>3. Nat \subseteq S
    BY <1>1, <1>2, SetInduction
  <1> QED
    BY <1>3 DEF S

\* A run of n steps: the values a loop goes through.
IsRun(f, n, base, step) == f[0] = base /\ \A k \in 1..n : f[k] = step[<<f[k - 1], k>>]

LEMMA RunExists ==
    ASSUME NEW T, NEW n \in Nat, NEW base \in T, NEW step \in [T \X (1..n) -> T]
    PROVE  \E f \in [0..n -> T] : IsRun(f, n, base, step)
  <1>1. PICK g \in [SUBSET (1..n) -> T] : FoldEquation(g, n, base, step)
    BY FoldExists
  <1> DEFINE f == [k \in 0..n |-> g[1..k]]
  <1>2. \A k \in 0..n : 1..k \in SUBSET (1..n)
    OBVIOUS
  <1>3. f \in [0..n -> T]
    BY <1>2
  <1>4. f[0] = base
    <2>1. 1..0 = {}
      OBVIOUS
    <2> QED  BY <1>1, <2>1 DEF FoldEquation
  <1>5. ASSUME NEW k \in 1..n  PROVE f[k] = step[<<f[k - 1], k>>]
    <2>1. /\ 1..k \in SUBSET (1..n) /\ 1..k # {}
          /\ Max(1..k) = k /\ (1..k) \ {Max(1..k)} = 1..(k - 1)
      BY IntervalUnfolds
    <2>2. g[1..k] = step[<<g[(1..k) \ {Max(1..k)}], Max(1..k)>>]
      BY <1>1, <2>1 DEF FoldEquation
    <2>3. k \in 0..n /\ k - 1 \in 0..n
      OBVIOUS
    <2>4. f[k] = g[1..k] /\ f[k - 1] = g[1..(k - 1)]
      BY <2>3
    <2> HIDE DEF f
    <2> QED  BY <2>1, <2>2, <2>4
  <1> QED
    BY <1>3, <1>4, <1>5 DEF IsRun

\* A loop never leaves T when no step does; iter is a solution of its equation.
LEMMA LoopStays ==
    ASSUME NEW T, NEW n \in Nat, NEW iter, iter[{}] \in T,
           \A k \in 1..n : iter[1..(k - 1)] \in T => iter[1..k] \in T
    PROVE  iter[1..n] \in T
  <1> DEFINE D == {k \in 0..n : iter[1..k] \in T}
  <1>1. 1..0 = {}
    OBVIOUS
  <1>2. 0 \in D /\ \A k \in 1..n : k - 1 \in D => k \in D
    BY <1>1
  <1> HIDE DEF D
  <1>3. 0..n \subseteq D
    BY <1>2, IndexInduction
  <1> QED
    BY <1>3 DEF D
=============================================================================
