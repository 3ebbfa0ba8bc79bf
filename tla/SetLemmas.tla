----------------------------- MODULE SetLemmas ------------------------------
(***************************************************************************)
(* Facts about sets of naturals, and about functions defined by recursion  *)
(* on them, that the proofs of the components share.                       *)
(***************************************************************************)
EXTENDS Integers, FiniteSetsExt, FiniteSetTheorems, TLAPS

(* A set of naturals has a least element: CHOOSE finds one.                *)
LEMMA LeastOf ==
  ASSUME NEW S \in SUBSET Nat, S # {}
  PROVE  Min(S) \in S /\ \A y \in S : Min(S) <= y
  <1> DEFINE Below == {0..n : n \in S}
             R     == StrictSubsetOrdering(Nat)
  <1>1. \A n \in S : 0..n \in FiniteSubsetsOf(Nat)
    BY FS_Interval DEF FiniteSubsetsOf
  <1>2. \E x \in Below : \A y \in Below : <<y, x>> \notin R
    <2>1. Below \subseteq FiniteSubsetsOf(Nat) /\ Below # {}
      BY <1>1
    <2> HIDE DEF Below, R
    <2>2. IsWellFoundedOn(R, FiniteSubsetsOf(Nat))
      BY FS_StrictSubsetOrderingWellFounded DEF R
    <2> QED
      BY <2>1, <2>2, WFMin
  <1>3. PICK n \in S : \A m \in S : <<0..m, 0..n>> \notin R
    BY <1>2
  <1>4. ASSUME NEW m \in S, m < n PROVE FALSE
    <2>1. 0..m \subseteq 0..n /\ n \in 0..n /\ n \notin 0..m
      BY <1>4
    <2>2. <<0..m, 0..n>> \in R
      BY <2>1 DEF StrictSubsetOrdering
    <2> QED
      BY <1>3, <2>2
  <1>5. \A m \in S : n <= m
    BY <1>4
  <1> QED
    BY <1>5 DEF Min

(* A bounded one has a greatest element.                                   *)
LEMMA GreatestOf ==
  ASSUME NEW L \in Nat, NEW S \in SUBSET (0..L), S # {}
  PROVE  Max(S) \in S /\ \A y \in S : Max(S) >= y
  <1> DEFINE R == {L - x : x \in S}
  <1>1. \A x \in S : x \in Nat /\ x <= L
    OBVIOUS
  <1>2. R \in SUBSET Nat /\ R # {}
    <2>1. \A x \in S : L - x \in Nat
      BY <1>1
    <2> QED
      BY <2>1
  <1>3. PICK m \in R : \A y \in R : m <= y
    <2> HIDE DEF R
    <2> QED
      BY <1>2, LeastOf
  <1>4. PICK x \in S : m = L - x
    OBVIOUS
  <1>5. \A y \in S : x >= y
    <2> TAKE y \in S
    <2>1. L - y \in R
      OBVIOUS
    <2>2. m <= L - y
      BY <1>3, <2>1
    <2> QED
      BY <1>1, <1>4, <2>2
  <1> QED
    BY <1>5 DEF Max

(* What one value is, counted, and what two are.                           *)
LEMMA OneCounts ==
  ASSUME NEW a
  PROVE  IsFiniteSet({a}) /\ Cardinality({a}) <= 1
  BY SMTT(30), FS_Singleton

LEMMA PairCounts ==
  ASSUME NEW a, NEW b, a # b
  PROVE  IsFiniteSet({a, b}) /\ Cardinality({a, b}) = 2
  <1>1. IsFiniteSet({a}) /\ Cardinality({a}) = 1
    BY FS_Singleton
  <1>2. IsFiniteSet({a} \cup {b}) /\ Cardinality({a} \cup {b}) = Cardinality({a}) + 1
    BY <1>1, FS_AddElement
  <1>3. {a, b} = {a} \cup {b}
    OBVIOUS
  <1> QED
    BY <1>1, <1>2, <1>3

-----------------------------------------------------------------------------
(* Induction up to a bound, on a set of numbers.                           *)
LEMMA UpTo ==
  ASSUME NEW n \in Nat, NEW S, 0 \in S, \A p \in 0..(n - 1) : p \in S => p + 1 \in S
  PROVE  \A p \in 0..n : p \in S
  <1> DEFINE Bad == {p \in 0..n : p \notin S}
  <1>1. ASSUME Bad # {} PROVE FALSE
    <2>1. PICK m \in Bad : \A p \in Bad : m <= p
      <3>1. Bad \in SUBSET Nat
        OBVIOUS
      <3> HIDE DEF Bad
      <3> QED
        BY <1>1, <3>1, LeastOf
    <2>2. m - 1 \in 0..(n - 1) /\ m - 1 \in S
      BY <2>1
    <2> QED
      BY <2>1, <2>2
  <1> QED
    BY <1>1

(* A function defined from the value before exists.                        *)
Stepwise(f, n, V, v0, step) ==
  f \in [0..n -> V] /\ f[0] = v0 /\ \A p \in 1..n : f[p] = step[p - 1][f[p - 1]]

(* It is what a definition by recursion chooses.                           *)
LEMMA StepwiseFcn ==
  ASSUME NEW n \in Nat, NEW V, NEW v0 \in V, NEW step \in [0..n -> [V -> V]]
  PROVE  \E f : Stepwise(f, n, V, v0, step)
  <1> DEFINE Good(m, f) == f[0] = v0 /\ \A p \in 1..m : f[p] = step[p - 1][f[p - 1]]
             S == {m \in 0..n : \E f \in [0..m -> V] : Good(m, f)}
  <1>1. 0 \in S
    <2> DEFINE f == [p \in 0..0 |-> v0]
    <2>1. f \in [0..0 -> V] /\ Good(0, f)
      OBVIOUS
    <2> HIDE DEF f
    <2> QED
      BY <2>1
  <1>2. ASSUME NEW m \in 0..(n - 1), m \in S
        PROVE  m + 1 \in S
    <2>1. PICK f \in [0..m -> V] : Good(m, f)
      BY <1>2
    <2> DEFINE g == [p \in 0..(m + 1) |-> IF p = m + 1 THEN step[m][f[m]] ELSE f[p]]
    <2>2. step[m][f[m]] \in V
      <3>1. m \in 0..n /\ f[m] \in V
        OBVIOUS
      <3> QED
        BY <3>1
    <2>3. \A p \in 0..(m + 1) : p # m + 1 => p \in 0..m
      OBVIOUS
    <2>4. /\ g \in [0..(m + 1) -> V] /\ g[m + 1] = step[m][f[m]]
          /\ \A p \in 0..m : g[p] = f[p]
      BY <2>2, <2>3
    <2> HIDE DEF g
    <2>5. ASSUME NEW p \in 1..(m + 1)
          PROVE  g[p] = step[p - 1][g[p - 1]]
      <3>1. CASE p = m + 1
        <4>1. p - 1 = m /\ m \in 0..m
          BY <3>1
        <4> QED
          BY <2>4, <3>1, <4>1
      <3>2. CASE p # m + 1
        <4>1. p \in 1..m /\ p \in 0..m /\ p - 1 \in 0..m
          BY <3>2
        <4> QED
          BY <2>1, <2>4, <4>1
      <3> QED
        BY <3>1, <3>2
    <2>6. g[0] = v0
      BY <2>1, <2>4
    <2> QED
      BY <2>4, <2>5, <2>6
  <1>3. n \in S
    <2> HIDE DEF S
    <2>1. \A p \in 0..n : p \in S
      BY <1>1, <1>2, UpTo
    <2> QED
      BY <2>1
  <1> QED
    BY <1>3 DEF Stepwise
=============================================================================
