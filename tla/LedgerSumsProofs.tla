---------------------------- MODULE LedgerSumsProofs ---------------------------
(* Facts about the sum of a ledger: what one account's change does to it, and  *)
(* what a sum of zero says.  Ledgers are bounded by some M, which is how the   *)
(* set of their units is known to be finite.  And the least-number principle,  *)
(* which stands in for induction where a proof needs it.                       *)
EXTENDS LedgerSums, FiniteSetTheorems, FunctionTheorems, WellFoundedInduction, TLAPS

(* The units of a ledger, seen as pairs. *)
LEMMA UnitsMembership ==
    ASSUME NEW S, NEW M \in Nat, NEW f \in [S -> 0 .. M],
           NEW a \in S, NEW i \in Int
    PROVE  <<a, i>> \in UnitsOf(S, f) <=> i \in 1 .. f[a]
  BY DEF UnitsOf

(* Every unit is a pair of an account and a positive number. *)
LEMMA UnitsArePairs ==
    ASSUME NEW S, NEW M \in Nat, NEW f \in [S -> 0 .. M]
    PROVE  UnitsOf(S, f) \subseteq S \X (1 .. M)
  BY DEF UnitsOf

(* A bounded ledger over finitely many accounts has finitely many units. *)
LEMMA TotalType ==
    ASSUME NEW S, IsFiniteSet(S), NEW M \in Nat, NEW f \in [S -> 0 .. M]
    PROVE  IsFiniteSet(UnitsOf(S, f)) /\ Total(S, f) \in Nat
<1>1. IsFiniteSet(1 .. M)
  BY FS_Interval
<1>2. IsFiniteSet(S \X (1 .. M))
  BY <1>1, FS_Product
<1>3. IsFiniteSet(UnitsOf(S, f))
  BY <1>2, UnitsArePairs, FS_Subset
<1> QED
  BY <1>3, FS_CardinalityType DEF Total

(* Pairing the numbers of an interval with one account counts them. *)
LEMMA PairedInterval ==
    ASSUME NEW a, NEW m \in Nat, NEW n \in Nat, m <= n
    PROVE  /\ IsFiniteSet({a} \X (m + 1 .. n))
           /\ Cardinality({a} \X (m + 1 .. n)) = n - m
<1> DEFINE I == m + 1 .. n
           D == {a} \X I
           pair == [i \in I |-> <<a, i>>]
<1>1. IsFiniteSet(I) /\ Cardinality(I) = n - m
  <2>1. m + 1 \in Int /\ n \in Int
    OBVIOUS
  <2>2. /\ IsFiniteSet(I)
        /\ Cardinality(I) = IF m + 1 > n THEN 0 ELSE n - (m + 1) + 1
    BY <2>1, FS_Interval
  <2> QED
    BY <2>2
<1>2. pair \in Bijection(I, D)
  <2>1. pair \in [I -> D]
    OBVIOUS
  <2>2. \A i, j \in I : pair[i] = pair[j] => i = j
    OBVIOUS
  <2>3. \A d \in D : \E i \in I : pair[i] = d
    OBVIOUS
  <2> QED
    BY <2>1, <2>2, <2>3 DEF Bijection, Injection, Surjection, IsInjective
<1>3. ExistsBijection(I, D)
  BY <1>2 DEF ExistsBijection
<1> QED
  BY <1>1, <1>3, FS_Bijection

(* When one account grows, the sum grows by as much. *)
LEMMA TotalGrows ==
    ASSUME NEW S, IsFiniteSet(S), NEW M \in Nat,
           NEW f \in [S -> 0 .. M], NEW g \in [S -> 0 .. M], NEW a \in S,
           \A b \in S \ {a} : g[b] = f[b], f[a] <= g[a]
    PROVE  Total(S, g) = Total(S, f) + (g[a] - f[a])
<1> DEFINE D == {a} \X (f[a] + 1 .. g[a])
<1>1. IsFiniteSet(D) /\ Cardinality(D) = g[a] - f[a]
  <2>1. f[a] \in Nat /\ g[a] \in Nat
    OBVIOUS
  <2> QED
    BY <2>1, PairedInterval
<1>2. UnitsOf(S, g) = UnitsOf(S, f) \cup D
  <2>1. ASSUME NEW u \in S \X (1 .. M)
        PROVE  u \in UnitsOf(S, g) <=> u \in UnitsOf(S, f) \cup D
    <3>1. PICK b \in S, i \in 1 .. M : u = <<b, i>>
      OBVIOUS
    <3>2. u \in UnitsOf(S, g) <=> i \in 1 .. g[b]
      BY <3>1, UnitsMembership
    <3>3. u \in UnitsOf(S, f) <=> i \in 1 .. f[b]
      BY <3>1, UnitsMembership
    <3>4. u \in D <=> b = a /\ i \in f[a] + 1 .. g[a]
      BY <3>1
    <3> QED
      BY <3>2, <3>3, <3>4
  <2>2. D \subseteq S \X (1 .. M)
    OBVIOUS
  <2> QED
    BY <2>1, <2>2, UnitsArePairs
<1>3. UnitsOf(S, f) \cap D = {}
  <2>1. ASSUME NEW u \in D
        PROVE  u \notin UnitsOf(S, f)
    <3>1. PICK i \in f[a] + 1 .. g[a] : u = <<a, i>>
      OBVIOUS
    <3> QED
      BY <3>1, UnitsMembership
  <2> QED
    BY <2>1
<1>4. IsFiniteSet(UnitsOf(S, f)) /\ Total(S, f) \in Nat
  BY TotalType
<1>5. Cardinality(UnitsOf(S, f) \cup D)
        = Cardinality(UnitsOf(S, f)) + Cardinality(D)
            - Cardinality(UnitsOf(S, f) \cap D)
  BY <1>1, <1>4, FS_Union
<1>6. Cardinality(UnitsOf(S, f) \cap D) = 0
  BY <1>3, FS_EmptySet
<1> QED
  BY <1>1, <1>2, <1>4, <1>5, <1>6 DEF Total

(* Setting one account moves the sum by the difference, up or down. *)
LEMMA TotalChange ==
    ASSUME NEW S, IsFiniteSet(S), NEW M \in Nat,
           NEW f \in [S -> 0 .. M], NEW g \in [S -> 0 .. M], NEW a \in S,
           \A b \in S \ {a} : g[b] = f[b]
    PROVE  Total(S, g) = Total(S, f) + g[a] - f[a]
<1>1. Total(S, f) \in Nat /\ Total(S, g) \in Nat
  BY TotalType
<1>2. CASE f[a] <= g[a]
  BY <1>1, <1>2, TotalGrows
<1>3. CASE g[a] <= f[a]
  <2>1. Total(S, f) = Total(S, g) + (f[a] - g[a])
    BY <1>3, TotalGrows
  <2> QED
    BY <1>1, <2>1
<1> QED
  BY <1>2, <1>3

(* A sum of zero means that every account is empty, and conversely. *)
LEMMA TotalZero ==
    ASSUME NEW S, IsFiniteSet(S), NEW M \in Nat, NEW f \in [S -> 0 .. M]
    PROVE  Total(S, f) = 0 <=> \A a \in S : f[a] = 0
<1>1. Total(S, f) = 0 <=> UnitsOf(S, f) = {}
  BY TotalType, FS_EmptySet DEF Total
<1>2. ASSUME NEW a \in S, f[a] # 0
      PROVE  UnitsOf(S, f) # {}
  <2>1. <<a, 1>> \in UnitsOf(S, f)
    BY <1>2, UnitsMembership
  <2> QED
    BY <2>1
<1>3. ASSUME \A a \in S : f[a] = 0
      PROVE  UnitsOf(S, f) = {}
  BY <1>3 DEF UnitsOf
<1> QED
  BY <1>1, <1>2, <1>3

(* No account holds more than the sum. *)
LEMMA TotalBounds ==
    ASSUME NEW S, IsFiniteSet(S), NEW M \in Nat, NEW f \in [S -> 0 .. M],
           NEW a \in S
    PROVE  f[a] <= Total(S, f)
<1> DEFINE g == [f EXCEPT ![a] = 0]
<1>1. g \in [S -> 0 .. M] /\ g[a] = 0 /\ \A b \in S \ {a} : g[b] = f[b]
  OBVIOUS
<1> HIDE DEF g
<1>2. Total(S, g) = Total(S, f) + g[a] - f[a]
  BY <1>1, TotalChange
<1>3. Total(S, f) \in Nat /\ Total(S, g) \in Nat
  BY <1>1, TotalType
<1> QED
  BY <1>1, <1>2, <1>3

-------------------------------------------------------------------------------
(* Least and greatest *)

(* The least-number principle, for a set of naturals. *)
LEMMA LeastElement ==
    ASSUME NEW S \in SUBSET Nat, S # {}
    PROVE  \E x \in S : \A y \in S : x <= y
<1> DEFINE LessThan == OpToRel(<, Nat)
<1>1. \A x, y \in Nat : x < y => <<x, y>> \in LessThan
  BY DEF OpToRel
<1>2. PICK x \in S : \A y \in S : <<y, x>> \notin LessThan
  <2>1. IsWellFoundedOn(LessThan, Nat)
    BY NatLessThanWellFounded
  <2> HIDE DEF LessThan
  <2> QED
    BY <2>1, WFMin
<1>3. ASSUME NEW y \in S PROVE x <= y
  <2>1. ~ (y < x)
    BY <1>1, <1>2
  <2> QED
    BY <2>1
<1> QED
  BY <1>3

(* A bounded set of naturals has a greatest. *)
LEMMA GreatestElement ==
    ASSUME NEW n \in Nat, NEW S \in SUBSET (0 .. n), S # {}
    PROVE  \E x \in S : \A y \in S : y <= x
<1> DEFINE T == {m \in Nat : n - m \in S}
<1>1. T \in SUBSET Nat /\ T # {}
  <2>1. PICK x \in S : TRUE
    OBVIOUS
  <2>2. x \in 0 .. n
    OBVIOUS
  <2>3. n - x \in Nat /\ n - (n - x) = x
    BY <2>2
  <2> QED
    BY <2>3
<1>2. PICK t \in T : \A u \in T : t <= u
  <2> HIDE DEF T
  <2> QED
    BY <1>1, LeastElement
<1>3. ASSUME NEW y \in S PROVE y <= n - t
  <2>1. y \in 0 .. n
    OBVIOUS
  <2>2. n - y \in T
    <3>1. n - y \in Nat /\ n - (n - y) = y
      BY <2>1
    <3> QED
      BY <3>1
  <2>3. t <= n - y /\ t \in Nat
    BY <1>2, <2>2
  <2> QED
    BY <2>1, <2>3
<1> QED
  BY <1>3
===============================================================================
