------------------------------ MODULE NatLemmas ------------------------------
(***************************************************************************)
(* Facts the proofs of the power engine keep needing: extrema of sets of   *)
(* numbers and of positions of a sequence, products against quotients,     *)
(* induction on numbers and on finite sets, and what SumFunction computes. *)
(*                                                                         *)
(* Induction is for a set (of numbers, of sets), not for an operator: the  *)
(* least element of those outside it would be preceded by one inside.      *)
(* SumFunction folds a set in an order of CHOOSE; its partial sums are a   *)
(* function on the subsets, and by induction the order does not matter.    *)
(***************************************************************************)
EXTENDS FiniteSetsExt, Sequences, FiniteSetTheorems, TLAPS

(* A non-empty set of naturals has a least element.                        *)
LEMMA NatMin ==
  ASSUME NEW S \in SUBSET Nat, S # {}
  PROVE  \E m \in S : \A k \in S : m <= k
<1> DEFINE R == {ss \in Nat \X Nat : ss[1] < ss[2]}
<1>1. IsWellFoundedOn(R, Nat)
  BY NatLessThanWellFounded DEF OpToRel
<1>2. ASSUME NEW k \in Nat, NEW m \in Nat, k < m
      PROVE  <<k, m>> \in R
  BY <1>2
<1> HIDE DEF R
<1>3. PICK m \in S : \A k \in S : ~(<<k, m>> \in R)
  BY <1>1, WFMin, Zenon
<1>4. \A k \in S : ~(k < m)
  BY <1>2, <1>3, Zenon
<1> QED BY <1>4

(* A non-empty set of times has a greatest one, and Max is it.             *)
LEMMA BoundedMax ==
  ASSUME NEW n \in Nat, NEW S \in SUBSET (0 .. n), S # {}
  PROVE  /\ Max(S) \in S
         /\ \A k \in S : k <= Max(S)
<1> DEFINE D == {d \in Nat : \E k \in S : d = n - k}
<1>1. D # {}
  <2>1. PICK k \in S : TRUE
    OBVIOUS
  <2>2. n - k \in D
    OBVIOUS
  <2> QED BY <2>2
<1>2. PICK d \in D : \A e \in D : d <= e
  <2>1. D \in SUBSET Nat
    OBVIOUS
  <2> HIDE DEF D
  <2> QED BY <1>1, <2>1, NatMin
<1>3. PICK m \in S : d = n - m
  OBVIOUS
<1>4. ASSUME NEW k \in S
      PROVE  m >= k
  <2>1. n - k \in D
    OBVIOUS
  <2> QED BY <2>1, <1>2, <1>3
<1>5. Max(S) \in S /\ \A y \in S : Max(S) >= y
  BY <1>4 DEF Max
<1> QED BY <1>5

(* The same of positions.                                                  *)
LEMMA NatMax ==
  ASSUME NEW n \in Nat, NEW S \in SUBSET (1 .. n), S # {}
  PROVE  /\ Max(S) \in S
         /\ \A k \in S : Max(S) >= k
<1>1. S \in SUBSET (0 .. n)
  OBVIOUS
<1>2. Max(S) \in S /\ \A k \in S : k <= Max(S)
  BY <1>1, BoundedMax
<1> QED BY <1>2

(* A member no other one exceeds is the maximum.                           *)
LEMMA MaxIs ==
  ASSUME NEW S \in SUBSET Nat, NEW m \in S, \A k \in S : k <= m
  PROVE  Max(S) = m
<1>1. \A y \in S : m >= y
  OBVIOUS
<1>2. Max(S) \in S /\ \A y \in S : Max(S) >= y
  BY <1>1 DEF Max
<1>3. Max(S) \in Nat /\ m \in Nat /\ Max(S) <= m /\ Max(S) >= m
  BY <1>2
<1> QED BY <1>3

(* A member that exceeds no other one is the minimum.                      *)
LEMMA MinIs ==
  ASSUME NEW S \in SUBSET Nat, NEW m \in S, \A k \in S : m <= k
  PROVE  Min(S) = m
<1>1. Min(S) \in S /\ \A y \in S : Min(S) <= y
  BY DEF Min
<1>2. Min(S) \in Nat /\ m \in Nat /\ Min(S) <= m /\ m <= Min(S)
  BY <1>1
<1> QED BY <1>2

-----------------------------------------------------------------------------
(* A division of times by the period, or of gates by threads, has a        *)
(* quotient and a remainder.                                               *)
LEMMA DivMod ==
  ASSUME NEW n \in Nat, NEW p \in Nat \ {0}
  PROVE  /\ n \div p \in Nat /\ n % p \in 0 .. p - 1
         /\ n = p * (n \div p) + (n % p)
OBVIOUS

(* Cycle lines are in the order of their cycles.                           *)
LEMMA MulLeq ==
  ASSUME NEW p \in Nat, NEW a \in Nat, NEW b \in Nat, a <= b
  PROVE  a * p <= b * p
OBVIOUS

(* Different cycles have different lines.                                  *)
LEMMA MulLess ==
  ASSUME NEW p \in Nat \ {0}, NEW a \in Nat, NEW b \in Nat, a < b
  PROVE  a * p < b * p
OBVIOUS

(* A cycle line is in the cycle it begins.                                 *)
LEMMA MulDiv ==
  ASSUME NEW p \in Nat \ {0}, NEW a \in Nat
  PROVE  (a * p) \div p = a
OBVIOUS

(* The next line is one period on.                                         *)
LEMMA MulSucc ==
  ASSUME NEW p \in Nat, NEW a \in Nat
  PROVE  a * p \in Nat /\ (a + 1) * p = a * p + p
OBVIOUS

-----------------------------------------------------------------------------
(* Two disjoint finite sets together have the sum of their sizes.          *)
LEMMA DisjointUnion ==
  ASSUME NEW S, NEW T, IsFiniteSet(S), IsFiniteSet(T), S \cap T = {}
  PROVE  /\ IsFiniteSet(S \cup T)
         /\ Cardinality(S \cup T) = Cardinality(S) + Cardinality(T)
         /\ Cardinality(S) \in Nat /\ Cardinality(T) \in Nat
<1>1. Cardinality(S) \in Nat /\ Cardinality(T) \in Nat /\ Cardinality(S \cap T) = 0
  BY FS_CardinalityType, FS_EmptySet
<1>2. /\ IsFiniteSet(S \cup T)
      /\ Cardinality(S \cup T) = Cardinality(S) + Cardinality(T) - Cardinality(S \cap T)
  BY FS_Union
<1> QED BY <1>1, <1>2

(* A set has as many pairs with a given first component as elements.       *)
LEMMA PairsWith ==
  ASSUME NEW v, NEW S, IsFiniteSet(S)
  PROVE  IsFiniteSet({v} \X S) /\ Cardinality({v} \X S) = Cardinality(S)
<1> DEFINE f == [x \in S |-> <<v, x>>]
<1>1. f \in Bijection(S, {v} \X S)
  <2>1. f \in [S -> {v} \X S]
    OBVIOUS
  <2>2. \A a, b \in DOMAIN f : f[a] = f[b] => a = b
    OBVIOUS
  <2>3. \A t \in {v} \X S : \E x \in S : f[x] = t
    OBVIOUS
  <2> QED BY <2>1, <2>2, <2>3, Zenon DEF Bijection, Injection, Surjection, IsInjective
<1>2. ExistsBijection(S, {v} \X S)
  BY <1>1 DEF ExistsBijection
<1> QED BY <1>2, FS_Bijection

-----------------------------------------------------------------------------
(* Induction on the numbers up to n, for a set of numbers.                 *)
LEMMA NumberInduction ==
  ASSUME NEW n \in Nat, NEW P,
         0 \in P,
         \A m \in 0 .. n - 1 : m \in P => m + 1 \in P
  PROVE  \A m \in 0 .. n : m \in P
<1> DEFINE Bad == {m \in 0 .. n : m \notin P}
<1>1. SUFFICES ASSUME Bad # {} PROVE FALSE
  OBVIOUS
<1>2. PICK m \in Bad : \A k \in Bad : m <= k
  <2>1. Bad \in SUBSET Nat
    OBVIOUS
  <2> HIDE DEF Bad
  <2> QED BY <1>1, <2>1, NatMin
<1>3. m \in 1 .. n
  OBVIOUS
<1>4. m - 1 \in P
  BY <1>2, <1>3
<1>5. m - 1 \in 0 .. n - 1 /\ (m - 1) + 1 = m
  BY <1>3
<1> QED BY <1>2, <1>4, <1>5

(* Induction on the subsets of a finite set, for a set of them.            *)
LEMMA SubsetInduction ==
  ASSUME NEW S, IsFiniteSet(S), NEW P,
         {} \in P,
         \A T \in SUBSET S : \A x \in S \ T : T \in P => T \cup {x} \in P
  PROVE  \A T \in SUBSET S : T \in P
<1> DEFINE Q == {m \in Nat : \A T \in SUBSET S : Cardinality(T) = m => T \in P}
<1>1. \A T \in SUBSET S : IsFiniteSet(T) /\ Cardinality(T) \in 0 .. Cardinality(S)
  <2>1. \A T \in SUBSET S : IsFiniteSet(T) /\ Cardinality(T) <= Cardinality(S)
    BY FS_Subset
  <2>2. \A T \in SUBSET S : Cardinality(T) \in Nat
    BY <2>1, FS_CardinalityType
  <2> QED BY <2>1, <2>2, FS_CardinalityType
<1>2. 0 \in Q
  BY <1>1, FS_EmptySet
<1>3. ASSUME NEW m \in 0 .. Cardinality(S) - 1, m \in Q
      PROVE  m + 1 \in Q
  <2>1. SUFFICES ASSUME NEW T \in SUBSET S, Cardinality(T) = m + 1
                 PROVE  T \in P
    OBVIOUS
  <2> HIDE DEF Q
  <2>2. T # {}
    <3>1. Cardinality(T) # 0
      BY <2>1
    <3> QED BY <3>1, FS_EmptySet
  <2>3. PICK x \in T : TRUE
    BY <2>2
  <2>4. Cardinality(T \ {x}) = m
    <3>1. IsFiniteSet(T)
      BY <1>1
    <3>2. Cardinality(T \ {x}) = Cardinality(T) - 1
      BY <3>1, <2>3, FS_RemoveElement
    <3> QED BY <2>1, <3>2
  <2> USE DEF Q
  <2>5. T \ {x} \in P
    BY <1>3, <2>4
  <2>6. T = (T \ {x}) \cup {x}
    OBVIOUS
  <2> QED BY <2>5, <2>6
<1>4. Cardinality(S) \in Nat
  BY FS_CardinalityType
<1> HIDE DEF Q
<1>5. \A m \in 0 .. Cardinality(S) : m \in Q
  BY <1>2, <1>3, <1>4, NumberInduction
<1> USE DEF Q
<1> QED BY <1>1, <1>5

-----------------------------------------------------------------------------
(* One step of a sum taken apart in the order of CHOOSE.                   *)
Part(f, g, T) ==
  IF T = {} THEN 0 ELSE LET x == CHOOSE x \in T : TRUE IN f[x] + g[T \ {x}]

(* What SumFunction folds over a set, as a function on its subsets.        *)
Parts(f, S) == CHOOSE g : g = [T \in SUBSET S |-> Part(f, g, T)]

(* There is such a function: one for the subsets of each size, up to n,    *)
(* gives one for those up to n + 1.                                        *)
LEMMA PartsDefined ==
  ASSUME NEW S, IsFiniteSet(S), NEW f
  PROVE  \A T \in SUBSET S : Parts(f, S)[T] = Part(f, Parts(f, S), T)
<1> DEFINE Body(g, T) == Part(f, g, T)
           Upto(n) == {T \in SUBSET S : Cardinality(T) <= n}
           P == {n \in Nat : \E g : g = [T \in Upto(n) |-> Body(g, T)]}
<1>1. \A T \in SUBSET S : IsFiniteSet(T) /\ Cardinality(T) \in 0 .. Cardinality(S)
  <2>1. \A T \in SUBSET S : IsFiniteSet(T) /\ Cardinality(T) <= Cardinality(S)
    BY FS_Subset
  <2>2. \A T \in SUBSET S : Cardinality(T) \in Nat
    BY <2>1, FS_CardinalityType
  <2> QED BY <2>1, <2>2, FS_CardinalityType
<1>2. 0 \in P
  <2> DEFINE g == [T \in Upto(0) |-> 0]
  <2>1. \A T \in Upto(0) : T = {}
    BY <1>1, FS_EmptySet
  <2>2. g = [T \in Upto(0) |-> Body(g, T)]
    BY <2>1 DEF Part
  <2> QED BY <2>2
<1>3. ASSUME NEW n \in 0 .. Cardinality(S) - 1, n \in P
      PROVE  n + 1 \in P
  <2>1. PICK g : g = [T \in Upto(n) |-> Body(g, T)]
    BY <1>3
  <2> DEFINE h == [T \in Upto(n + 1) |-> Body(g, T)]
  <2>2. \A T \in Upto(n) : T \in Upto(n + 1) /\ h[T] = g[T]
    <3>1. \A T \in Upto(n) : T \in Upto(n + 1)
      BY <1>1
    <3>2. \A T \in Upto(n) : g[T] = Body(g, T)
      BY <2>1
    <3> QED BY <3>1, <3>2
  <2>3. ASSUME NEW T \in Upto(n + 1), T # {}
        PROVE  T \ {CHOOSE x \in T : TRUE} \in Upto(n)
    <3> DEFINE x == CHOOSE x \in T : TRUE
    <3>1. x \in T
      BY <2>3
    <3> HIDE DEF x
    <3>2. Cardinality(T \ {x}) = Cardinality(T) - 1
      BY <1>1, <3>1, FS_RemoveElement
    <3>3. T \ {x} \in Upto(n)
      BY <1>1, <3>2
    <3> QED BY <3>3 DEF x
  <2>4. \A T \in Upto(n + 1) : Body(h, T) = Body(g, T)
    <3> HIDE DEF h, Upto
    <3> QED BY <2>2, <2>3 DEF Part
  <2>5. h = [T \in Upto(n + 1) |-> Body(h, T)]
    <3> HIDE DEF Body
    <3> QED BY <2>4
  <2> HIDE DEF h, Body, Upto
  <2>6. \E g1 : g1 = [T \in Upto(n + 1) |-> Body(g1, T)]
    BY <2>5
  <2> QED BY <2>6
<1>4. Cardinality(S) \in Nat
  BY FS_CardinalityType
<1>5. Cardinality(S) \in P
  <2> HIDE DEF P
  <2> QED BY <1>2, <1>3, <1>4, NumberInduction
<1>6. Upto(Cardinality(S)) = SUBSET S
  BY <1>1
<1>7. \E g : g = [T \in SUBSET S |-> Body(g, T)]
  BY <1>5, <1>6
<1> DEFINE G == CHOOSE g : g = [T \in SUBSET S |-> Body(g, T)]
<1>8. G = [T \in SUBSET S |-> Body(G, T)]
  <2> HIDE DEF Body
  <2> QED BY <1>7
<1>9. G = Parts(f, S)
  BY DEF Parts
<1> HIDE DEF G, Body
<1>10. \A T \in SUBSET S : G[T] = Body(G, T)
  BY <1>8
<1> QED BY <1>9, <1>10 DEF Body

(* The equation of the partial sums.                                       *)
LEMMA PartsEquation ==
  ASSUME NEW S, IsFiniteSet(S), NEW f
  PROVE  /\ Parts(f, S)[{}] = 0
         /\ \A T \in SUBSET S : T # {} =>
              \E x \in T : /\ x = CHOOSE y \in T : TRUE
                           /\ Parts(f, S)[T] = f[x] + Parts(f, S)[T \ {x}]
<1>3. \A T \in SUBSET S : Parts(f, S)[T] = Part(f, Parts(f, S), T)
  BY PartsDefined
<1>4. Parts(f, S)[{}] = 0
  BY <1>3 DEF Part
<1>5. ASSUME NEW T \in SUBSET S, T # {}
      PROVE  \E x \in T : /\ x = CHOOSE y \in T : TRUE
                          /\ Parts(f, S)[T] = f[x] + Parts(f, S)[T \ {x}]
  <2> DEFINE x == CHOOSE y \in T : TRUE
  <2>1. x \in T
    BY <1>5
  <2>2. Parts(f, S)[T] = f[x] + Parts(f, S)[T \ {x}]
    BY <1>3, <1>5 DEF Part
  <2>3. x = CHOOSE y \in T : TRUE
    OBVIOUS
  <2> HIDE DEF x
  <2> QED BY <2>1, <2>2, <2>3
<1> QED BY <1>4, <1>5

(* Any element may be the first to be taken out.                           *)
LEMMA PartsAny ==
  ASSUME NEW S, IsFiniteSet(S), NEW f, \A x \in S : f[x] \in Int
  PROVE  \A T \in SUBSET S : /\ Parts(f, S)[T] \in Int
                             /\ \A x \in T : Parts(f, S)[T] = f[x] + Parts(f, S)[T \ {x}]
<1> DEFINE G == Parts(f, S)
           Claim(T) == /\ G[T] \in Int
                       /\ \A x \in T : G[T] = f[x] + G[T \ {x}]
           P == {n \in Nat : \A T \in SUBSET S : Cardinality(T) <= n => Claim(T)}
<1>1. \A T \in SUBSET S : IsFiniteSet(T) /\ Cardinality(T) \in 0 .. Cardinality(S)
  <2>1. \A T \in SUBSET S : IsFiniteSet(T) /\ Cardinality(T) <= Cardinality(S)
    BY FS_Subset
  <2>2. \A T \in SUBSET S : Cardinality(T) \in Nat
    BY <2>1, FS_CardinalityType
  <2> QED BY <2>1, <2>2, FS_CardinalityType
<1>2. G[{}] = 0
  BY PartsEquation
<1>3. \A T \in SUBSET S : T # {} =>
        \E x \in T : /\ x = CHOOSE y \in T : TRUE
                     /\ G[T] = f[x] + G[T \ {x}]
  BY PartsEquation
<1> HIDE DEF G
<1>4. 0 \in P
  <2>1. \A T \in SUBSET S : Cardinality(T) <= 0 => T = {}
    BY <1>1, FS_EmptySet
  <2>2. Claim({})
    BY <1>2
  <2>3. \A T \in SUBSET S : Cardinality(T) <= 0 => Claim(T)
    <3> HIDE DEF Claim
    <3> QED BY <2>1, <2>2
  <2> QED BY <2>3
<1>5. ASSUME NEW n \in 0 .. Cardinality(S) - 1, n \in P
      PROVE  n + 1 \in P
  <2>1. SUFFICES ASSUME NEW T \in SUBSET S, Cardinality(T) <= n + 1
                 PROVE  Claim(T)
    OBVIOUS
  <2>2. \A U \in SUBSET S : Cardinality(U) <= n => Claim(U)
    BY <1>5
  <2>3. \A x \in T : T \ {x} \in SUBSET S /\ Cardinality(T \ {x}) <= n
    <3>1. IsFiniteSet(T) /\ Cardinality(T) \in Nat
      BY <1>1
    <3> SUFFICES ASSUME NEW x \in T PROVE Cardinality(T \ {x}) <= n
      OBVIOUS
    <3>2. Cardinality(T \ {x}) = Cardinality(T) - 1
      BY <3>1, FS_RemoveElement
    <3> QED BY <2>1, <3>1, <3>2
  <2>4. CASE T = {}
    BY <1>2, <2>4
  <2>5. CASE T # {}
    <3>1. PICK p \in T : G[T] = f[p] + G[T \ {p}]
      BY <1>3, <2>5
    <3>2. Claim(T \ {p})
      BY <2>2, <2>3
    <3>3. G[T] \in Int
      BY <3>1, <3>2
    <3>4. ASSUME NEW x \in T, x # p
          PROVE  G[T] = f[x] + G[T \ {x}]
      <4>1. G[T \ {p}] = f[x] + G[(T \ {p}) \ {x}]
        BY <3>2, <3>4
      <4>2. Claim(T \ {x})
        BY <2>2, <2>3
      <4>3. G[T \ {x}] = f[p] + G[(T \ {x}) \ {p}]
        BY <3>4, <4>2
      <4>4. (T \ {x}) \ {p} = (T \ {p}) \ {x}
        OBVIOUS
      <4>5. G[(T \ {p}) \ {x}] \in Int
        <5>1. Cardinality((T \ {p}) \ {x}) <= n
          <6>1. (T \ {p}) \ {x} \in SUBSET (T \ {p}) /\ IsFiniteSet(T \ {p})
            BY <1>1
          <6>2. Cardinality((T \ {p}) \ {x}) <= Cardinality(T \ {p})
            BY <6>1, FS_Subset
          <6>3. Cardinality((T \ {p}) \ {x}) \in Nat /\ Cardinality(T \ {p}) \in Nat
            BY <1>1
          <6> QED BY <2>3, <6>2, <6>3
        <5> QED BY <2>2, <5>1
      <4>6. f[x] \in Int /\ f[p] \in Int
        OBVIOUS
      <4> DEFINE rest == G[(T \ {p}) \ {x}]
      <4>7. G[T \ {p}] = f[x] + rest /\ G[T \ {x}] = f[p] + rest /\ rest \in Int
        BY <4>1, <4>3, <4>4, <4>5
      <4> HIDE DEF rest
      <4> QED BY <3>1, <4>6, <4>7
    <3> QED BY <3>1, <3>3, <3>4
  <2> QED BY <2>4, <2>5
<1>6. Cardinality(S) \in Nat
  BY FS_CardinalityType
<1>7. Cardinality(S) \in P
  <2> HIDE DEF P
  <2> QED BY <1>4, <1>5, <1>6, NumberInduction
<1>8. \A T \in SUBSET S : Claim(T)
  BY <1>1, <1>7
<1> QED BY <1>8 DEF G

(* The same, of one element.                                               *)
LEMMA PartsTake ==
  ASSUME NEW S, IsFiniteSet(S), NEW f, \A x \in S : f[x] \in Int,
         NEW T \in SUBSET S, NEW x \in T, NEW U, U = T \ {x}
  PROVE  /\ Parts(f, S)[T] = f[x] + Parts(f, S)[U]
         /\ Parts(f, S)[U] \in Int
<1>1. U \in SUBSET S
  OBVIOUS
<1>2. Parts(f, S)[T] = f[x] + Parts(f, S)[T \ {x}]
  BY PartsAny
<1>3. Parts(f, S)[U] \in Int
  BY <1>1, PartsAny
<1> QED BY <1>2, <1>3

(* Partial sums do not depend on the set they are parts of.                *)
LEMMA PartsLocal ==
  ASSUME NEW S, IsFiniteSet(S), NEW T \in SUBSET S, NEW f, NEW h,
         \A x \in T : f[x] = h[x]
  PROVE  Parts(f, S)[T] = Parts(h, T)[T]
<1> DEFINE P == {n \in Nat : \A U \in SUBSET T : Cardinality(U) <= n => Parts(f, S)[U] = Parts(h, T)[U]}
<1>1. IsFiniteSet(T)
  BY FS_Subset
<1>2. \A U \in SUBSET T : IsFiniteSet(U) /\ Cardinality(U) \in 0 .. Cardinality(T)
  <2>1. \A U \in SUBSET T : IsFiniteSet(U) /\ Cardinality(U) <= Cardinality(T)
    BY <1>1, FS_Subset
  <2>2. \A U \in SUBSET T : Cardinality(U) \in Nat
    BY <2>1, FS_CardinalityType
  <2> QED BY <1>1, <2>1, <2>2, FS_CardinalityType
<1>3. 0 \in P
  <2>1. \A U \in SUBSET T : Cardinality(U) <= 0 => U = {}
    BY <1>2, FS_EmptySet
  <2>2. Parts(f, S)[{}] = 0 /\ Parts(h, T)[{}] = 0
    BY <1>1, PartsEquation
  <2> QED BY <2>1, <2>2
<1>4. ASSUME NEW n \in 0 .. Cardinality(T) - 1, n \in P
      PROVE  n + 1 \in P
  <2>1. SUFFICES ASSUME NEW U \in SUBSET T, Cardinality(U) <= n + 1, U # {}
                 PROVE  Parts(f, S)[U] = Parts(h, T)[U]
    <3>1. Parts(f, S)[{}] = Parts(h, T)[{}]
      <4>1. Parts(f, S)[{}] = 0
        BY PartsEquation
      <4>2. Parts(h, T)[{}] = 0
        BY <1>1, PartsEquation
      <4> QED BY <4>1, <4>2
    <3>2. n + 1 \in Nat
      OBVIOUS
    <3> QED BY <3>1, <3>2
  <2>2. PICK x \in U : /\ x = CHOOSE y \in U : TRUE
                       /\ Parts(f, S)[U] = f[x] + Parts(f, S)[U \ {x}]
    BY <2>1, PartsEquation
  <2>3. PICK z \in U : /\ z = CHOOSE y \in U : TRUE
                       /\ Parts(h, T)[U] = h[z] + Parts(h, T)[U \ {z}]
    BY <1>1, <2>1, PartsEquation
  <2>4. Cardinality(U \ {x}) <= n
    <3>1. IsFiniteSet(U) /\ Cardinality(U) \in Nat
      BY <1>2
    <3>2. Cardinality(U \ {x}) = Cardinality(U) - 1
      BY <3>1, FS_RemoveElement
    <3> QED BY <2>1, <3>1, <3>2
  <2>5. Parts(f, S)[U \ {x}] = Parts(h, T)[U \ {x}]
    BY <1>4, <2>4
  <2> QED BY <2>2, <2>3, <2>5
<1>5. Cardinality(T) \in Nat
  BY <1>1, FS_CardinalityType
<1>6. Cardinality(T) \in P
  <2> HIDE DEF P
  <2> QED BY <1>3, <1>4, <1>5, NumberInduction
<1> QED BY <1>2, <1>6

(* A sum is the last of its partial sums.                                  *)
LEMMA SumParts ==
  ASSUME NEW f
  PROVE  SumFunction(f) = Parts(f, DOMAIN f)[DOMAIN f]
BY DEF SumFunction, SumFunctionOnSet, Parts, Part, FoldFunction, FoldFunctionOnSet, MapThenFoldSet

(* Integers add up to an integer.                                          *)
LEMMA SumType ==
  ASSUME NEW f, IsFiniteSet(DOMAIN f), \A x \in DOMAIN f : f[x] \in Int
  PROVE  SumFunction(f) \in Int
<1>1. \A T \in SUBSET (DOMAIN f) : Parts(f, DOMAIN f)[T] \in Int
  BY PartsAny
<1> QED BY <1>1, SumParts

(* Nothing adds up to nothing.                                             *)
LEMMA SumEmpty ==
  ASSUME NEW f, DOMAIN f = {}
  PROVE  SumFunction(f) = 0
<1>1. IsFiniteSet({})
  BY FS_EmptySet
<1>2. Parts(f, {})[{}] = 0
  BY <1>1, PartsEquation
<1> QED BY <1>2, SumParts

(* A sum depends on the values only.                                       *)
LEMMA SumEqual ==
  ASSUME NEW f, NEW h, IsFiniteSet(DOMAIN f), DOMAIN h = DOMAIN f,
         \A x \in DOMAIN f : f[x] = h[x]
  PROVE  SumFunction(f) = SumFunction(h)
<1> DEFINE S == DOMAIN f
<1>1. Parts(f, S)[S] = Parts(h, S)[S]
  <2> S \in SUBSET S
    OBVIOUS
  <2> HIDE DEF S
  <2> SUFFICES \A x \in S : f[x] = h[x]
    BY PartsLocal DEF S
  <2> QED BY DEF S
<1> QED BY <1>1, SumParts

(* One element apart from the others.                                      *)
LEMMA SumRemove ==
  ASSUME NEW f, IsFiniteSet(DOMAIN f), \A x \in DOMAIN f : f[x] \in Int,
         NEW x \in DOMAIN f, NEW h, DOMAIN h = DOMAIN f \ {x},
         \A y \in DOMAIN h : h[y] = f[y]
  PROVE  SumFunction(f) = f[x] + SumFunction(h)
<1> DEFINE S == DOMAIN f
           T == DOMAIN h
<1>1. Parts(f, S)[S] = f[x] + Parts(f, S)[T]
  <2>1. S \in SUBSET S /\ x \in S /\ T = S \ {x} /\ IsFiniteSet(S) /\ \A y \in S : f[y] \in Int
    OBVIOUS
  <2> HIDE DEF S, T
  <2> QED BY <2>1, PartsTake
<1>2. Parts(f, S)[T] = Parts(h, T)[T]
  <2>1. T \in SUBSET S /\ \A y \in T : f[y] = h[y]
    OBVIOUS
  <2> HIDE DEF S, T
  <2>2. IsFiniteSet(S)
    BY DEF S
  <2> QED BY <2>1, <2>2, PartsLocal
<1> QED BY <1>1, <1>2, SumParts

(* One element more.                                                       *)
LEMMA SumAdd ==
  ASSUME NEW T, IsFiniteSet(T), NEW x, x \notin T, NEW c, NEW d,
         DOMAIN c = T, DOMAIN d = T \cup {x}, d[x] \in Int,
         \A z \in T : c[z] = d[z] /\ d[z] \in Int
  PROVE  SumFunction(d) = d[x] + SumFunction(c) /\ SumFunction(c) \in Int
<1>1. IsFiniteSet(DOMAIN d)
  BY FS_AddElement
<1>2. x \in DOMAIN d /\ DOMAIN c = DOMAIN d \ {x}
  OBVIOUS
<1>3. \A z \in DOMAIN d : d[z] \in Int
  OBVIOUS
<1>4. \A z \in DOMAIN c : c[z] = d[z]
  OBVIOUS
<1>5. SumFunction(d) = d[x] + SumFunction(c)
  BY <1>1, <1>2, <1>3, <1>4, SumRemove
<1>6. \A z \in DOMAIN c : c[z] \in Int
  OBVIOUS
<1>7. SumFunction(c) \in Int
  BY <1>6, SumType
<1> QED BY <1>5, <1>7

(* The sum of sums.                                                        *)
LEMMA SumPlus ==
  ASSUME NEW f, NEW g, NEW h, IsFiniteSet(DOMAIN h),
         DOMAIN f = DOMAIN h, DOMAIN g = DOMAIN h,
         \A x \in DOMAIN h : f[x] \in Int /\ g[x] \in Int /\ h[x] = f[x] + g[x]
  PROVE  SumFunction(h) = SumFunction(f) + SumFunction(g)
<1> DEFINE S == DOMAIN h
           P == {T \in SUBSET S : Parts(h, S)[T] = Parts(f, S)[T] + Parts(g, S)[T]}
<1>1. {} \in P
  <2>1. Parts(h, S)[{}] = 0 /\ Parts(f, S)[{}] = 0 /\ Parts(g, S)[{}] = 0
    BY PartsEquation
  <2> QED BY <2>1
<1>2. ASSUME NEW T \in SUBSET S, NEW x \in S \ T, T \in P
      PROVE  T \cup {x} \in P
  <2> DEFINE U == T \cup {x}
  <2>1. U \in SUBSET S /\ x \in U /\ U \ {x} = T
    OBVIOUS
  <2>2. \A y \in S : h[y] \in Int
    OBVIOUS
  <2> HIDE DEF U, S
  <2>9. IsFiniteSet(S) /\ (\A y \in S : f[y] \in Int) /\ (\A y \in S : g[y] \in Int)
    BY DEF S
  <2>3. Parts(h, S)[U] = h[x] + Parts(h, S)[T]
    BY <2>1, <2>2, <2>9, PartsTake
  <2>4. Parts(f, S)[U] = f[x] + Parts(f, S)[T] /\ Parts(f, S)[T] \in Int
    <3>1. \A y \in S : f[y] \in Int
      BY <2>9
    <3>2. Parts(f, S)[U] = f[x] + Parts(f, S)[T]
      BY <2>1, <2>9, <3>1, PartsTake
    <3>3. Parts(f, S)[T] \in Int
      BY <2>9, <3>1, PartsAny
    <3> QED BY <3>2, <3>3
  <2>5. Parts(g, S)[U] = g[x] + Parts(g, S)[T] /\ Parts(g, S)[T] \in Int
    <3>1. \A y \in S : g[y] \in Int
      BY <2>9
    <3>2. Parts(g, S)[U] = g[x] + Parts(g, S)[T]
      BY <2>1, <2>9, <3>1, PartsTake
    <3>3. Parts(g, S)[T] \in Int
      BY <2>9, <3>1, PartsAny
    <3> QED BY <3>2, <3>3
  <2>6. Parts(h, S)[T] = Parts(f, S)[T] + Parts(g, S)[T]
    BY <1>2
  <2>7. h[x] = f[x] + g[x] /\ f[x] \in Int /\ g[x] \in Int
    BY DEF S
  <2>8. Parts(h, S)[U] = Parts(f, S)[U] + Parts(g, S)[U]
    BY <2>3, <2>4, <2>5, <2>6, <2>7
  <2> QED BY <2>1, <2>8 DEF U
<1>3. S \in P
  <2> HIDE DEF P
  <2>1. IsFiniteSet(S) /\ S \in SUBSET S
    OBVIOUS
  <2> HIDE DEF S
  <2> QED BY <1>1, <1>2, <2>1, SubsetInduction
<1> QED BY <1>3, SumParts

(* Equal summands.                                                         *)
LEMMA SumConst ==
  ASSUME NEW f, IsFiniteSet(DOMAIN f), NEW c \in Int, \A x \in DOMAIN f : f[x] = c
  PROVE  SumFunction(f) = c * Cardinality(DOMAIN f)
<1> DEFINE S == DOMAIN f
           P == {T \in SUBSET S : Parts(f, S)[T] = c * Cardinality(T)}
<1>1. {} \in P
  <2>1. Parts(f, S)[{}] = 0 /\ Cardinality({}) = 0
    BY PartsEquation, FS_EmptySet
  <2> QED BY <2>1
<1>2. ASSUME NEW T \in SUBSET S, NEW x \in S \ T, T \in P
      PROVE  T \cup {x} \in P
  <2> DEFINE U == T \cup {x}
  <2>1. U \in SUBSET S /\ x \in U /\ U \ {x} = T
    OBVIOUS
  <2>2. IsFiniteSet(T) /\ Cardinality(T) \in Nat
    BY FS_Subset, FS_CardinalityType
  <2>3. Cardinality(U) = Cardinality(T) + 1
    BY <2>2, FS_AddElement
  <2> HIDE DEF U, S
  <2>9. IsFiniteSet(S) /\ \A y \in S : f[y] \in Int
    BY DEF S
  <2>4. Parts(f, S)[U] = f[x] + Parts(f, S)[T]
    BY <2>1, <2>9, PartsTake
  <2>5. Parts(f, S)[T] = c * Cardinality(T)
    BY <1>2
  <2>6. f[x] = c
    BY DEF S
  <2>7. c + c * Cardinality(T) = c * (Cardinality(T) + 1)
    BY <2>2
  <2>8. Parts(f, S)[U] = c * Cardinality(U)
    BY <2>3, <2>4, <2>5, <2>6, <2>7
  <2> QED BY <2>1, <2>8 DEF U
<1>3. S \in P
  <2> HIDE DEF P
  <2>1. IsFiniteSet(S) /\ S \in SUBSET S
    OBVIOUS
  <2> HIDE DEF S
  <2> QED BY <1>1, <1>2, <2>1, SubsetInduction
<1> QED BY <1>3, SumParts

(* Zeros.                                                                  *)
LEMMA SumZero ==
  ASSUME NEW f, IsFiniteSet(DOMAIN f), \A x \in DOMAIN f : f[x] = 0
  PROVE  SumFunction(f) = 0
<1>1. SumFunction(f) = 0 * Cardinality(DOMAIN f)
  BY SumConst
<1>2. Cardinality(DOMAIN f) \in Nat
  BY FS_CardinalityType
<1> QED BY <1>1, <1>2

(* The sum over two sets that have nothing in common.                      *)
LEMMA SumUnion ==
  ASSUME NEW f, NEW g, NEW h, IsFiniteSet(DOMAIN h),
         \A x \in DOMAIN h : h[x] \in Int,
         DOMAIN h = DOMAIN f \cup DOMAIN g, DOMAIN f \cap DOMAIN g = {},
         \A x \in DOMAIN f : f[x] = h[x], \A x \in DOMAIN g : g[x] = h[x]
  PROVE  SumFunction(h) = SumFunction(f) + SumFunction(g)
<1> DEFINE S == DOMAIN h
           A == DOMAIN f
           B == DOMAIN g
           P == {T \in SUBSET B : Parts(h, S)[A \cup T] = Parts(h, S)[A] + Parts(h, S)[T]}
<1>1. {} \in P
  <2>1. Parts(h, S)[{}] = 0 /\ Parts(h, S)[A] \in Int
    BY PartsEquation, PartsAny
  <2>2. A \cup {} = A
    OBVIOUS
  <2> QED BY <2>1, <2>2
<1>2. ASSUME NEW T \in SUBSET B, NEW x \in B \ T, T \in P
      PROVE  T \cup {x} \in P
  <2> DEFINE U == T \cup {x}
             V == A \cup U
             W == A \cup T
  <2>1. U \in SUBSET S /\ x \in U /\ U \ {x} = T
    OBVIOUS
  <2>2. V \in SUBSET S /\ x \in V /\ V \ {x} = W
    OBVIOUS
  <2>3. A \in SUBSET S /\ T \in SUBSET S
    OBVIOUS
  <2>4. Parts(h, S)[W] = Parts(h, S)[A] + Parts(h, S)[T]
    BY <1>2
  <2>5. U \in SUBSET B
    OBVIOUS
  <2> HIDE DEF U, V, W, A, S
  <2>6. \A y \in S : h[y] \in Int
    BY DEF S
  <2>7. IsFiniteSet(S)
    BY DEF S
  <2>8. Parts(h, S)[V] = h[x] + Parts(h, S)[W]
    BY <2>2, <2>6, <2>7, PartsTake
  <2>9. Parts(h, S)[U] = h[x] + Parts(h, S)[T]
    BY <2>1, <2>6, <2>7, PartsTake
  <2>10. h[x] \in Int /\ Parts(h, S)[A] \in Int /\ Parts(h, S)[T] \in Int
    BY <2>1, <2>3, <2>6, <2>7, PartsAny
  <2>11. Parts(h, S)[V] = Parts(h, S)[A] + Parts(h, S)[U]
    BY <2>4, <2>8, <2>9, <2>10
  <2> QED BY <2>5, <2>11 DEF U, V
<1>3. IsFiniteSet(B)
  BY FS_Subset
<1>4. B \in P
  <2> HIDE DEF P
  <2>1. B \in SUBSET B
    OBVIOUS
  <2> HIDE DEF B
  <2> QED BY <1>1, <1>2, <1>3, <2>1, SubsetInduction
<1>5. Parts(h, S)[A] = Parts(f, A)[A] /\ Parts(h, S)[B] = Parts(g, B)[B]
  <2>1. A \in SUBSET S /\ B \in SUBSET S
    OBVIOUS
  <2>2. (\A x \in A : h[x] = f[x]) /\ (\A x \in B : h[x] = g[x])
    OBVIOUS
  <2> HIDE DEF A, B, S
  <2>3. IsFiniteSet(S)
    BY DEF S
  <2> QED BY <2>1, <2>2, <2>3, PartsLocal
<1>6. Parts(h, S)[S] = Parts(h, S)[A] + Parts(h, S)[B]
  BY <1>4
<1> QED BY <1>5, <1>6, SumParts

(* b takes each summand of f to one of h, and to all of them once.         *)
Reindexes(b, f, h) ==
  /\ \A x \in DOMAIN f : b[x] \in DOMAIN h /\ h[b[x]] = f[x]
  /\ \A x, y \in DOMAIN f : b[x] = b[y] => x = y
  /\ \A z \in DOMAIN h : \E x \in DOMAIN f : b[x] = z

(* A sum over an index that runs through the same elements in another way. *)
LEMMA SumReindex ==
  ASSUME NEW f, NEW h, NEW b, IsFiniteSet(DOMAIN f), IsFiniteSet(DOMAIN h),
         \A x \in DOMAIN f : f[x] \in Int, Reindexes(b, f, h)
  PROVE  SumFunction(f) = SumFunction(h)
<1> USE DEF Reindexes
<1> DEFINE S == DOMAIN f
           R == DOMAIN h
           Img(T) == {b[x] : x \in T}
           P == {T \in SUBSET S : Parts(f, S)[T] = Parts(h, R)[Img(T)]}
<1>1. {} \in P
  <2>1. Parts(f, S)[{}] = 0 /\ Parts(h, R)[{}] = 0
    BY PartsEquation
  <2>2. Img({}) = {}
    OBVIOUS
  <2> QED BY <2>1, <2>2
<1>2. \A z \in R : h[z] \in Int
  OBVIOUS
<1>3. ASSUME NEW T \in SUBSET S, NEW x \in S \ T, T \in P
      PROVE  T \cup {x} \in P
  <2> DEFINE U == T \cup {x}
             V == Img(U)
             W == Img(T)
  <2>1. U \in SUBSET S /\ x \in U /\ T = U \ {x}
    OBVIOUS
  <2>2. b[x] \in V /\ V \in SUBSET R /\ W = V \ {b[x]}
    <3>1. b[x] \notin W
      OBVIOUS
    <3>2. V = W \cup {b[x]}
      OBVIOUS
    <3>3. V \in SUBSET R
      OBVIOUS
    <3> HIDE DEF V, W
    <3> QED BY <3>1, <3>2, <3>3
  <2>3. Parts(f, S)[T] = Parts(h, R)[W]
    BY <1>3
  <2>4. h[b[x]] = f[x]
    OBVIOUS
  <2>5. IsFiniteSet(S) /\ IsFiniteSet(R) /\ (\A y \in S : f[y] \in Int)
    OBVIOUS
  <2> HIDE DEF U, V, W, S, R
  <2>6. Parts(f, S)[U] = f[x] + Parts(f, S)[T]
    BY <2>1, <2>5, PartsTake
  <2>7. Parts(h, R)[V] = h[b[x]] + Parts(h, R)[W]
    BY <1>2, <2>2, <2>5, PartsTake
  <2>8. Parts(f, S)[U] = Parts(h, R)[V]
    BY <2>3, <2>4, <2>6, <2>7
  <2> QED BY <2>1, <2>8 DEF U, V
<1>4. S \in P
  <2> HIDE DEF P
  <2>1. IsFiniteSet(S) /\ S \in SUBSET S
    OBVIOUS
  <2> HIDE DEF S
  <2> QED BY <1>1, <1>3, <2>1, SubsetInduction
<1>5. Img(S) = R
  OBVIOUS
<1>6. Parts(f, S)[S] = Parts(h, R)[R]
  BY <1>4, <1>5
<1> QED BY <1>6, SumParts

(* Zeros may be left out.                                                  *)
LEMMA SumSupport ==
  ASSUME NEW f, NEW h, IsFiniteSet(DOMAIN h), \A x \in DOMAIN h : h[x] \in Int,
         DOMAIN f \in SUBSET (DOMAIN h),
         \A x \in DOMAIN f : f[x] = h[x],
         \A x \in DOMAIN h \ DOMAIN f : h[x] = 0
  PROVE  SumFunction(f) = SumFunction(h)
<1> DEFINE g == [x \in DOMAIN h \ DOMAIN f |-> 0]
<1>1. DOMAIN g = DOMAIN h \ DOMAIN f /\ \A x \in DOMAIN g : g[x] = h[x] /\ g[x] = 0
  OBVIOUS
<1> HIDE DEF g
<1>2. SumFunction(h) = SumFunction(f) + SumFunction(g)
  <2>1. DOMAIN h = DOMAIN f \cup DOMAIN g /\ DOMAIN f \cap DOMAIN g = {}
    BY <1>1
  <2> QED BY <1>1, <2>1, SumUnion
<1>3. IsFiniteSet(DOMAIN g) /\ IsFiniteSet(DOMAIN f)
  <2>1. DOMAIN g \in SUBSET (DOMAIN h)
    BY <1>1
  <2> QED BY <2>1, FS_Subset
<1>4. SumFunction(g) = 0
  BY <1>1, <1>3, SumZero
<1>5. SumFunction(f) \in Int
  BY <1>3, SumType
<1> QED BY <1>2, <1>4, <1>5

(* One summand grows.                                                      *)
LEMMA SumUpdate ==
  ASSUME NEW f, NEW h, IsFiniteSet(DOMAIN f), \A y \in DOMAIN f : f[y] \in Int,
         DOMAIN h = DOMAIN f, NEW x \in DOMAIN f, NEW d \in Int, h[x] = f[x] + d,
         \A y \in DOMAIN f \ {x} : h[y] = f[y]
  PROVE  SumFunction(h) = SumFunction(f) + d
<1> DEFINE r == [y \in DOMAIN f \ {x} |-> f[y]]
<1>1. DOMAIN r = DOMAIN f \ {x} /\ \A y \in DOMAIN r : r[y] = f[y] /\ r[y] = h[y] /\ r[y] \in Int
  OBVIOUS
<1> HIDE DEF r
<1>2. SumFunction(f) = f[x] + SumFunction(r)
  BY <1>1, SumRemove
<1>3. SumFunction(h) = h[x] + SumFunction(r)
  <2>1. \A y \in DOMAIN h : h[y] \in Int
    OBVIOUS
  <2> QED BY <1>1, <2>1, SumRemove
<1>4. SumFunction(r) \in Int
  <2>1. IsFiniteSet(DOMAIN r)
    BY <1>1, FS_RemoveElement
  <2> QED BY <1>1, <2>1, SumType
<1> QED BY <1>2, <1>3, <1>4

(* A common factor.                                                        *)
LEMMA SumScale ==
  ASSUME NEW f, NEW h, NEW c \in Int, IsFiniteSet(DOMAIN f), DOMAIN h = DOMAIN f,
         \A x \in DOMAIN f : f[x] \in Int /\ h[x] = c * f[x]
  PROVE  SumFunction(h) = c * SumFunction(f)
<1> DEFINE S == DOMAIN f
           P == {T \in SUBSET S : Parts(h, S)[T] = c * Parts(f, S)[T]}
<1>1. {} \in P
  <2>1. Parts(h, S)[{}] = 0 /\ Parts(f, S)[{}] = 0
    BY PartsEquation
  <2> QED BY <2>1
<1>2. ASSUME NEW T \in SUBSET S, NEW x \in S \ T, T \in P
      PROVE  T \cup {x} \in P
  <2> DEFINE U == T \cup {x}
  <2>1. U \in SUBSET S /\ x \in U /\ T = U \ {x}
    OBVIOUS
  <2>2. Parts(h, S)[T] = c * Parts(f, S)[T] /\ h[x] = c * f[x] /\ f[x] \in Int
    BY <1>2
  <2>3. IsFiniteSet(S) /\ (\A y \in S : f[y] \in Int) /\ (\A y \in S : h[y] \in Int)
    OBVIOUS
  <2> HIDE DEF U, S
  <2>4. Parts(f, S)[U] = f[x] + Parts(f, S)[T]
    BY <2>1, <2>3, PartsTake
  <2>5. Parts(f, S)[T] \in Int
    BY <2>1, <2>3, PartsTake
  <2>6. Parts(h, S)[U] = h[x] + Parts(h, S)[T]
    BY <2>1, <2>3, PartsTake
  <2>7. Parts(h, S)[U] = c * Parts(f, S)[U]
    BY <2>2, <2>4, <2>5, <2>6
  <2> QED BY <2>1, <2>7 DEF U
<1>3. S \in P
  <2> HIDE DEF P
  <2>1. IsFiniteSet(S) /\ S \in SUBSET S
    OBVIOUS
  <2> HIDE DEF S
  <2> QED BY <1>1, <1>2, <2>1, SubsetInduction
<1> QED BY <1>3, SumParts

(* Naturals add up to a natural.                                           *)
LEMMA SumNat ==
  ASSUME NEW f, IsFiniteSet(DOMAIN f), \A x \in DOMAIN f : f[x] \in Nat
  PROVE  SumFunction(f) \in Nat
<1> DEFINE S == DOMAIN f
           P == {T \in SUBSET S : Parts(f, S)[T] \in Nat}
<1>1. {} \in P
  <2>1. Parts(f, S)[{}] = 0
    BY PartsEquation
  <2> QED BY <2>1
<1>2. ASSUME NEW T \in SUBSET S, NEW x \in S \ T, T \in P
      PROVE  T \cup {x} \in P
  <2> DEFINE U == T \cup {x}
  <2>1. U \in SUBSET S /\ x \in U /\ T = U \ {x}
    OBVIOUS
  <2>2. Parts(f, S)[T] \in Nat /\ f[x] \in Nat
    BY <1>2
  <2>3. IsFiniteSet(S) /\ \A y \in S : f[y] \in Int
    OBVIOUS
  <2> HIDE DEF U, S
  <2>4. Parts(f, S)[U] = f[x] + Parts(f, S)[T]
    BY <2>1, <2>3, PartsTake
  <2>5. Parts(f, S)[U] \in Nat
    BY <2>2, <2>4
  <2> QED BY <2>1, <2>5 DEF U
<1>3. S \in P
  <2> HIDE DEF P
  <2>1. IsFiniteSet(S) /\ S \in SUBSET S
    OBVIOUS
  <2> HIDE DEF S
  <2> QED BY <1>1, <1>2, <2>1, SubsetInduction
<1> QED BY <1>3, SumParts

(* A sum is monotonic, and strictly so where one summand is less.          *)
LEMMA SumLess ==
  ASSUME NEW f, NEW h, IsFiniteSet(DOMAIN f), DOMAIN h = DOMAIN f,
         \A x \in DOMAIN f : f[x] \in Int /\ h[x] \in Int /\ f[x] <= h[x],
         NEW x \in DOMAIN f, f[x] < h[x]
  PROVE  SumFunction(f) < SumFunction(h)
<1> DEFINE S == DOMAIN f
           d == [y \in S |-> h[y] - f[y]]
           r == [y \in S \ {x} |-> d[y]]
<1>1. DOMAIN d = S /\ \A y \in S : d[y] \in Nat /\ h[y] = f[y] + d[y]
  OBVIOUS
<1>2. d[x] > 0 /\ d[x] \in Nat
  OBVIOUS
<1>3. DOMAIN r = S \ {x} /\ \A y \in DOMAIN r : r[y] = d[y] /\ r[y] \in Nat
  OBVIOUS
<1> HIDE DEF d, r
<1>4. SumFunction(h) = SumFunction(f) + SumFunction(d)
  BY <1>1, SumPlus
<1>5. SumFunction(d) = d[x] + SumFunction(r)
  <2>1. \A y \in DOMAIN d : d[y] \in Int
    BY <1>1
  <2> QED BY <1>1, <1>3, <2>1, SumRemove
<1>6. SumFunction(r) \in Nat
  <2>1. IsFiniteSet(DOMAIN r)
    BY <1>3, FS_RemoveElement
  <2> QED BY <1>3, <2>1, SumNat
<1>7. SumFunction(f) \in Int
  BY SumType
<1> QED BY <1>2, <1>4, <1>5, <1>6, <1>7

(* A table of integers, and the sums of its rows and of its columns.       *)
IsTable(h, A, B) == \A x \in A : \A y \in B : h[x][y] \in Int
SumsRows(F, h, A, B) ==
  DOMAIN F = A /\ \A x \in A : F[x] = SumFunction([y \in B |-> h[x][y]])
SumsColumns(G, h, A, B) ==
  DOMAIN G = B /\ \A y \in B : G[y] = SumFunction([x \in A |-> h[x][y]])

(* The sums of the rows of a table add up to what those of its columns do. *)
LEMMA SumExchange ==
  ASSUME NEW A, NEW B, IsFiniteSet(A), IsFiniteSet(B),
         NEW h, IsTable(h, A, B), NEW F, SumsRows(F, h, A, B), NEW G, SumsColumns(G, h, A, B)
  PROVE  SumFunction(F) = SumFunction(G)
<1> USE DEF IsTable, SumsRows, SumsColumns
<1> DEFINE Col(T) == [y \in B |-> SumFunction([x \in T |-> h[x][y]])]
           P == {T \in SUBSET A : Parts(F, A)[T] = SumFunction(Col(T))}
<1>1. {} \in P
  <2>1. Parts(F, A)[{}] = 0
    BY PartsEquation
  <2>2. \A y \in B : SumFunction([x \in {} |-> h[x][y]]) = 0
    <3> SUFFICES ASSUME NEW y \in B PROVE SumFunction([x \in {} |-> h[x][y]]) = 0
      OBVIOUS
    <3> DEFINE e == [x \in {} |-> h[x][y]]
    <3>1. DOMAIN e = {}
      OBVIOUS
    <3> HIDE DEF e
    <3>2. SumFunction(e) = 0
      BY <3>1, SumEmpty
    <3> QED BY <3>2 DEF e
  <2> DEFINE C == Col({})
  <2>3. DOMAIN C = B /\ \A y \in DOMAIN C : C[y] = 0
    BY <2>2
  <2> HIDE DEF C
  <2>4. SumFunction(C) = 0
    BY <2>3, SumZero
  <2> QED BY <2>1, <2>4 DEF C
<1>2. ASSUME NEW T \in SUBSET A, NEW x \in A \ T, T \in P
      PROVE  T \cup {x} \in P
  <2> DEFINE U == T \cup {x}
             row == [y \in B |-> h[x][y]]
             C == Col(T)
             D == Col(U)
  <2>1. U \in SUBSET A /\ x \in U /\ T = U \ {x} /\ IsFiniteSet(U) /\ IsFiniteSet(T)
    <3>1. U \in SUBSET A /\ x \in U /\ T = U \ {x}
      OBVIOUS
    <3> HIDE DEF U
    <3> QED BY <3>1, FS_Subset
  <2>2. \A z \in A : F[z] \in Int
    <3> SUFFICES ASSUME NEW z \in A PROVE F[z] \in Int
      OBVIOUS
    <3> DEFINE q == [y \in B |-> h[z][y]]
    <3>1. DOMAIN q = B /\ \A y \in DOMAIN q : q[y] \in Int
      OBVIOUS
    <3>2. F[z] = SumFunction(q)
      OBVIOUS
    <3> HIDE DEF q
    <3> QED BY <3>1, <3>2, SumType
  <2>3. ASSUME NEW y \in B
        PROVE  row[y] \in Int /\ C[y] \in Int /\ D[y] = C[y] + row[y]
    <3> DEFINE d == [z \in U |-> h[z][y]]
               c == [z \in T |-> h[z][y]]
    <3>1. D[y] = SumFunction(d) /\ C[y] = SumFunction(c) /\ row[y] = h[x][y] /\ row[y] \in Int
      OBVIOUS
    <3>2. /\ DOMAIN d = U /\ DOMAIN c = T /\ d[x] = h[x][y]
          /\ \A z \in DOMAIN d : d[z] \in Int
          /\ \A z \in DOMAIN c : c[z] = d[z] /\ c[z] \in Int
      OBVIOUS
    <3> HIDE DEF c, d, C, D, row, U
    <3>3. x \notin T /\ DOMAIN d = T \cup {x} /\ d[x] \in Int
      BY <2>1, <3>2
    <3>4. \A z \in T : c[z] = d[z] /\ d[z] \in Int
      BY <3>2
    <3>5. SumFunction(d) = d[x] + SumFunction(c) /\ SumFunction(c) \in Int
      BY <2>1, <3>2, <3>3, <3>4, SumAdd
    <3> QED BY <3>1, <3>2, <3>5
  <2>4. F[x] = SumFunction(row)
    OBVIOUS
  <2>5. Parts(F, A)[T] = SumFunction(C)
    BY <1>2
  <2>6. DOMAIN C = B /\ DOMAIN D = B /\ DOMAIN row = B
    OBVIOUS
  <2> HIDE DEF U, C, D, row
  <2>7. SumFunction(D) = SumFunction(C) + SumFunction(row)
    <3>1. \A y \in DOMAIN D : C[y] \in Int /\ row[y] \in Int /\ D[y] = C[y] + row[y]
      BY <2>3, <2>6
    <3> QED BY <2>6, <3>1, SumPlus
  <2>8. Parts(F, A)[U] = F[x] + Parts(F, A)[T]
    BY <2>1, <2>2, PartsTake
  <2>9. SumFunction(C) \in Int /\ SumFunction(row) \in Int
    <3>1. \A y \in DOMAIN C : C[y] \in Int
      BY <2>3, <2>6
    <3>2. \A y \in DOMAIN row : row[y] \in Int
      BY <2>3, <2>6
    <3> QED BY <2>6, <3>1, <3>2, SumType
  <2>10. Parts(F, A)[U] = SumFunction(D)
    BY <2>4, <2>5, <2>7, <2>8, <2>9
  <2> QED BY <2>1, <2>10 DEF U, D
<1>3. A \in P
  <2> HIDE DEF P
  <2>1. A \in SUBSET A
    OBVIOUS
  <2> QED BY <1>1, <1>2, <2>1, SubsetInduction
<1>4. SumFunction(F) = SumFunction(Col(A))
  BY <1>3, SumParts
<1> DEFINE C == Col(A)
<1>5. DOMAIN C = B /\ \A y \in B : C[y] = G[y]
  OBVIOUS
<1> HIDE DEF C
<1>6. SumFunction(C) = SumFunction(G)
  BY <1>5, SumEqual
<1> QED BY <1>4, <1>6 DEF C
=============================================================================
