------------------------- MODULE tBigInteger_proofs -------------------------
(***************************************************************************)
(* The object is always exactly the integer that it should be              *)
(* (tBigInteger.Exact), for every word size and every length, not only for *)
(* the small words that TLC can enumerate.                                 *)
(*                                                                         *)
(* The invariant is Held: the object is a sign and an array of words       *)
(* without zeros above (Signeds), and its integer is val. The comparisons  *)
(* that Exact adds follow from it (HeldIsExact), and every operation keeps *)
(* it (StepHeld), one lemma per operation: each says that the operation of *)
(* a signed number gives a signed number of the integer that TLA+'s own    *)
(* arithmetic gives.                                                       *)
(*                                                                         *)
(* Under those, V(d, n) is the value of the first n words of d from the    *)
(* lowest, W the same for digits of any width. What the model computes     *)
(* from a recursive function is unfolded once (the lemmas named            *)
(* ...Unfolds, or a step Is(f)): the function exists by Recursion, or,     *)
(* where the argument shrinks by a measure as in Euclid's algorithm, by    *)
(* MeasuredRecursion; what its values are then follows by induction over a *)
(* set of numbers (NatSetInduction).                                       *)
(***************************************************************************)
EXTENDS tBigInteger, FiniteSetTheorems, WellFoundedInduction, FunctionTheorems, SequenceTheorems, TLAPS
-----------------------------------------------------------------------------
(* Numbers. The provers do induction over natural numbers as a set of them *)
(* that has 0 and each next one. With it: functions that are defined from  *)
(* their values at smaller arguments exist, powers of 2 add up, and a      *)
(* sequence of digits has a value.                                         *)

(* The prover's induction over numbers is over a set of them.              *)
LEMMA NatSetInduction ==
  ASSUME NEW T, 0 \in T, \A n \in Nat : n \in T => n + 1 \in T
  PROVE  \A n \in Nat : n \in T
<1> DEFINE R == OpToRel(<, Nat)
<1>1. IsWellFoundedOn(R, Nat) BY NatLessThanWellFounded
<1>2. \A i, j \in Nat : i < j => <<i, j>> \in R BY DEF OpToRel
<1> DEFINE U == Nat \ T
<1> HIDE DEF R
<1>3. SUFFICES ASSUME U # {} PROVE FALSE OBVIOUS
<1>4. PICK i \in U : \A j \in U : ~(<<j, i>> \in R)
  <2>1. U \subseteq Nat OBVIOUS
  <2> HIDE DEF U
  <2> QED BY <1>1, <1>3, <2>1, WFMin
<1>5. i \in Nat /\ i \notin T /\ i # 0 BY <1>4
<1>6. i - 1 \in Nat /\ i - 1 < i /\ (i - 1) + 1 = i BY <1>5
<1>7. i - 1 \in U BY <1>5, <1>6
<1> QED BY <1>2, <1>4, <1>5, <1>6, <1>7

(* The same from all the smaller numbers.                                  *)
LEMMA NatSetStrongInduction ==
  ASSUME NEW T, \A n \in Nat : (\A m \in 0..n - 1 : m \in T) => n \in T
  PROVE  \A n \in Nat : n \in T
<1> DEFINE U == {n \in Nat : \A m \in 0..n : m \in T}
<1>1. 0 \in U
  <2>1. \A m \in 0..0 - 1 : m \in T OBVIOUS
  <2>2. 0 \in T BY <2>1
  <2> QED BY <2>2
<1>2. ASSUME NEW n \in Nat, n \in U PROVE n + 1 \in U
  <2>1. \A m \in 0..n : m \in T BY <1>2
  <2>2. (n + 1) - 1 = n /\ n + 1 \in Nat OBVIOUS
  <2>3. n + 1 \in T BY <2>1, <2>2
  <2>4. \A m \in 0..n + 1 : m \in 0..n \/ m = n + 1 OBVIOUS
  <2> QED BY <2>1, <2>2, <2>3, <2>4
<1> HIDE DEF U
<1>3. \A n \in Nat : n \in U BY <1>1, <1>2, NatSetInduction
<1> QED BY <1>3 DEF U

(* A function defined by what it is at 0 and by each value from the last.  *)
Recursive(f, D, base, F) == f = [i \in D |-> IF i = 0 THEN base ELSE F[<<i, f[i - 1]>>]]

(* Such a function exists on 0..m.                                         *)
LEMMA Recursion ==
  ASSUME NEW V, NEW base \in V, NEW m \in Nat, NEW F, \A i \in 1..m, e \in V : F[<<i, e>>] \in V
  PROVE  \E f \in [0..m -> V] : Recursive(f, 0..m, base, F)
<1> DEFINE T == {k \in Nat : k <= m => \E f \in [0..k -> V] : Recursive(f, 0..k, base, F)}
<1>1. 0 \in T
  <2> DEFINE f == [i \in 0..0 |-> base]
  <2>1. f \in [0..0 -> V] OBVIOUS
  <2>2. Recursive(f, 0..0, base, F) BY DEF Recursive
  <2> QED BY <2>1, <2>2
<1>2. ASSUME NEW k \in Nat, k \in T PROVE k + 1 \in T
  <2>1. SUFFICES ASSUME k + 1 <= m
                 PROVE  \E g \in [0..k + 1 -> V] : Recursive(g, 0..k + 1, base, F)
    OBVIOUS
  <2>2. PICK f \in [0..k -> V] : Recursive(f, 0..k, base, F)
    BY <1>2, <2>1
  <2> DEFINE g == [i \in 0..k + 1 |-> IF i = k + 1 THEN F[<<k + 1, f[k]>>] ELSE f[i]]
  <2>3. k + 1 \in 1..m /\ k \in 0..k /\ (k + 1) - 1 = k BY <2>1
  <2>4. F[<<k + 1, f[k]>>] \in V BY <2>2, <2>3
  <2>5. \A i \in 0..k + 1 : i = k + 1 \/ i \in 0..k OBVIOUS
  <2>6. g \in [0..k + 1 -> V] BY <2>2, <2>4, <2>5
  <2>7. \A i \in 0..k + 1 : g[i] = IF i = 0 THEN base ELSE F[<<i, g[i - 1]>>]
    <3> TAKE i \in 0..k + 1
    <3>1. CASE i = k + 1
      <4>1. i # 0 /\ i - 1 = k /\ k # k + 1 /\ k \in 0..k + 1 BY <3>1
      <4> QED BY <3>1, <4>1
    <3>2. CASE i # k + 1
      <4>1. i \in 0..k /\ g[i] = f[i] BY <3>2
      <4>2. i # 0 => i - 1 \in 0..k + 1 /\ i - 1 # k + 1 BY <3>2
      <4>3. i # 0 => g[i - 1] = f[i - 1] BY <4>2
      <4>4. f[i] = IF i = 0 THEN base ELSE F[<<i, f[i - 1]>>] BY <2>2, <4>1 DEF Recursive
      <4> QED BY <4>1, <4>3, <4>4
    <3> QED BY <3>1, <3>2
  <2> HIDE DEF g
  <2>8. g = [i \in 0..k + 1 |-> g[i]] BY <2>6
  <2>9. Recursive(g, 0..k + 1, base, F) BY <2>7, <2>8 DEF Recursive
  <2> QED BY <2>6, <2>9
<1> HIDE DEF T
<1>3. m \in T BY <1>1, <1>2, NatSetInduction
<1> QED BY <1>3 DEF T

(* The same of a function of all the numbers, which agrees with those of   *)
(* the first ones.                                                         *)
LEMMA OnlyOne ==
  ASSUME NEW base, NEW F, NEW m \in Nat, NEW n \in Nat, m <= n,
         NEW f, Recursive(f, 0..m, base, F), NEW g, Recursive(g, 0..n, base, F)
  PROVE  \A i \in 0..m : f[i] = g[i]
<1> DEFINE T == {i \in Nat : i <= m => f[i] = g[i]}
<1>1. 0 \in T BY DEF Recursive
<1>2. ASSUME NEW k \in Nat, k \in T PROVE k + 1 \in T
  <2>1. SUFFICES ASSUME k + 1 <= m PROVE f[k + 1] = g[k + 1] OBVIOUS
  <2>2. k + 1 \in 0..m /\ k + 1 \in 0..n /\ k + 1 # 0 /\ (k + 1) - 1 = k /\ k <= m BY <2>1
  <2>3. f[k] = g[k] BY <1>2, <2>2
  <2>4. f[k + 1] = F[<<k + 1, f[k]>>] BY <2>2 DEF Recursive
  <2>5. g[k + 1] = F[<<k + 1, g[k]>>] BY <2>2 DEF Recursive
  <2> QED BY <2>3, <2>4, <2>5
<1> HIDE DEF T
<1>3. \A i \in Nat : i \in T BY <1>1, <1>2, NatSetInduction
<1>4. \A i \in 0..m : i \in Nat /\ i <= m OBVIOUS
<1> QED BY <1>3, <1>4 DEF T

(* And on all the numbers.                                                 *)
LEMMA NatRecursion ==
  ASSUME NEW V, NEW base \in V, NEW F, \A i \in Nat \ {0}, e \in V : F[<<i, e>>] \in V
  PROVE  \E f \in [Nat -> V] : Recursive(f, Nat, base, F)
<1> DEFINE c == [m \in Nat |-> CHOOSE f \in [0..m -> V] : Recursive(f, 0..m, base, F)]
           h == [i \in Nat |-> c[i][i]]
<1>1. ASSUME NEW m \in Nat PROVE c[m] \in [0..m -> V] /\ Recursive(c[m], 0..m, base, F)
  <2>1. \A i \in 1..m, e \in V : F[<<i, e>>] \in V
    <3>1. \A i \in 1..m : i \in Nat \ {0} OBVIOUS
    <3> QED BY <3>1
  <2>2. \E f \in [0..m -> V] : Recursive(f, 0..m, base, F) BY <2>1, Recursion
  <2>3. c[m] = CHOOSE u \in [0..m -> V] : Recursive(u, 0..m, base, F) OBVIOUS
  <2> QED BY <2>2, <2>3
<1>2. h \in [Nat -> V]
  <2> HIDE DEF c
  <2>1. \A i \in Nat : i \in 0..i OBVIOUS
  <2> QED BY <1>1, <2>1
<1>3. \A i \in Nat : h[i] = IF i = 0 THEN base ELSE F[<<i, h[i - 1]>>]
  <2> HIDE DEF c
  <2> TAKE i \in Nat
  <2>1. c[i][i] = IF i = 0 THEN base ELSE F[<<i, c[i][i - 1]>>]
    <3>1. Recursive(c[i], 0..i, base, F) /\ i \in 0..i BY <1>1
    <3> QED BY <3>1 DEF Recursive
  <2>2. ASSUME i # 0 PROVE c[i][i - 1] = c[i - 1][i - 1]
    <3>1. i - 1 \in Nat /\ i - 1 <= i /\ i - 1 \in 0..i - 1 BY <2>2
    <3>2. Recursive(c[i - 1], 0..i - 1, base, F) /\ Recursive(c[i], 0..i, base, F) BY <1>1, <3>1
    <3>3. PICK j \in Nat : j = i - 1 BY <3>1
    <3>4. j <= i /\ Recursive(c[j], 0..j, base, F) BY <3>1, <3>2, <3>3
    <3>5. ASSUME NEW f, f = c[j], NEW g, g = c[i] PROVE \A k \in 0..j : f[k] = g[k]
      <4>1. Recursive(f, 0..j, base, F) /\ Recursive(g, 0..i, base, F) BY <3>2, <3>4, <3>5
      <4> QED BY <3>4, <4>1, OnlyOne
    <3> QED BY <3>1, <3>3, <3>5
  <2>3. i # 0 => i - 1 \in Nat OBVIOUS
  <2> QED BY <2>1, <2>2, <2>3
<1> HIDE DEF h
<1>4. h = [i \in Nat |-> h[i]] BY <1>2
<1> QED BY <1>2, <1>3, <1>4 DEF Recursive
(* The prover knows of powers of 2 that they count subsets.                *)
LEMMA PowerCounts ==
  ASSUME NEW n \in Nat
  PROVE  2 ^ n \in Nat /\ 2 ^ n = Cardinality(SUBSET (1..n)) /\ IsFiniteSet(SUBSET (1..n))
<1>1. IsFiniteSet(1..n) /\ Cardinality(1..n) = n BY FS_Interval
<1>2. IsFiniteSet(SUBSET (1..n)) /\ Cardinality(SUBSET (1..n)) = 2 ^ n BY <1>1, FS_SUBSET
<1> QED BY <1>2, FS_CardinalityType

(* The subsets of 1..n + 1 are those of 1..n, with and without n + 1.      *)
LEMMA PowerNext ==
  ASSUME NEW n \in Nat
  PROVE  2 ^ (n + 1) = 2 * 2 ^ n
<1> DEFINE A == SUBSET (1..n)
           B == {s \in SUBSET (1..n + 1) : n + 1 \in s}
           f == [s \in A |-> s \cup {n + 1}]
<1>1. SUBSET (1..n + 1) = A \cup B
  <2>1. 1..n + 1 = (1..n) \cup {n + 1} OBVIOUS
  <2> QED BY <2>1
<1>2. n + 1 \notin 1..n OBVIOUS
<1>3. A \cap B = {} BY <1>2
<1>4. f \in Bijection(A, B)
  <2>1. 1..n + 1 = (1..n) \cup {n + 1} OBVIOUS
  <2>2. f \in [A -> B] BY <2>1
  <2>3. \A s, t \in A : f[s] = f[t] => s = t BY <1>2
  <2>4. \A t \in B : \E s \in A : f[s] = t
    <3> TAKE t \in B
    <3>1. t \ {n + 1} \in A BY <2>1
    <3>2. f[t \ {n + 1}] = t BY <3>1
    <3> QED BY <3>1, <3>2
  <2> HIDE DEF f
  <2> QED BY <2>2, <2>3, <2>4, Fun_IsBij
<1>5. IsFiniteSet(A) /\ Cardinality(A) = 2 ^ n /\ 2 ^ n \in Nat BY PowerCounts
<1>6. IsFiniteSet(B) /\ Cardinality(B) = Cardinality(A)
  <2>1. ExistsBijection(A, B) BY <1>4 DEF ExistsBijection
  <2> QED BY <1>5, <2>1, FS_Bijection
<1>7. 2 ^ (n + 1) = Cardinality(A \cup B) BY <1>1, PowerCounts
<1>8. Cardinality(A \cap B) = 0 BY <1>3, FS_EmptySet
<1> HIDE DEF A, B
<1>9. Cardinality(A \cup B) = Cardinality(A) + Cardinality(B) - 0 BY <1>5, <1>6, <1>8, FS_Union
<1> QED BY <1>5, <1>6, <1>7, <1>9

(* The first powers.                                                       *)
LEMMA PowerOne == 2 ^ 0 = 1 /\ 2 ^ 1 = 2
OBVIOUS

(* A power of 2 is a positive number.                                      *)
LEMMA PowerPositive ==
  ASSUME NEW n \in Nat
  PROVE  2 ^ n \in Nat \ {0}
<1> DEFINE T == {k \in Nat : 2 ^ k \in Nat \ {0}}
<1>1. 0 \in T BY PowerOne
<1>2. ASSUME NEW k \in Nat, k \in T PROVE k + 1 \in T BY <1>2, PowerNext
<1> HIDE DEF T
<1>3. n \in T BY <1>1, <1>2, NatSetInduction
<1> QED BY <1>3 DEF T

(* Powers of a sum.                                                        *)
LEMMA PowerSum ==
  ASSUME NEW m \in Nat, NEW n \in Nat
  PROVE  2 ^ (m + n) = 2 ^ m * 2 ^ n
<1> DEFINE T == {k \in Nat : 2 ^ (m + k) = 2 ^ m * 2 ^ k}
<1>1. 0 \in T
  <2>1. 2 ^ m \in Nat BY PowerPositive
  <2>2. m + 0 = m OBVIOUS
  <2> QED BY <2>1, <2>2, PowerOne
<1>2. ASSUME NEW k \in Nat, k \in T PROVE k + 1 \in T
  <2>1. m + (k + 1) = (m + k) + 1 /\ m + k \in Nat OBVIOUS
  <2>2. 2 ^ (m + (k + 1)) = 2 * 2 ^ (m + k) BY <2>1, PowerNext
  <2>3. 2 ^ (k + 1) = 2 * 2 ^ k BY PowerNext
  <2>4. 2 ^ (m + k) = 2 ^ m * 2 ^ k BY <1>2
  <2>5. 2 ^ m \in Nat /\ 2 ^ k \in Nat BY PowerPositive
  <2>6. \A a, b \in Nat : 2 * (a * b) = a * (2 * b) OBVIOUS
  <2>7. 2 * (2 ^ m * 2 ^ k) = 2 ^ m * (2 * 2 ^ k) BY <2>5, <2>6
  <2> QED BY <2>2, <2>3, <2>4, <2>7
<1> HIDE DEF T
<1>3. n \in T BY <1>1, <1>2, NatSetInduction
<1> QED BY <1>3 DEF T

(* Powers grow with their exponent.                                        *)
LEMMA PowerGrows ==
  ASSUME NEW m \in Nat, NEW n \in Nat, m <= n
  PROVE  2 ^ m <= 2 ^ n
<1>1. n - m \in Nat /\ m + (n - m) = n OBVIOUS
<1>2. 2 ^ n = 2 ^ m * 2 ^ (n - m) BY <1>1, PowerSum
<1>3. 2 ^ m \in Nat \ {0} /\ 2 ^ (n - m) \in Nat \ {0} BY <1>1, PowerPositive
<1>4. \A a, b \in Nat \ {0} : a <= a * b OBVIOUS
<1> QED BY <1>2, <1>3, <1>4
(* The number that has the digits d[1] to d[n], the lowest first, of w     *)
(* bits each; the digits may be any integers.                              *)
Pw(w, n) == 2 ^ (w * n)
Weighed(d, w) ==
    [p \in (Nat \ {0}) \X Int |-> p[2] + (IF d[p[1]] \in Int THEN d[p[1]] ELSE 0) * Pw(w, p[1] - 1)]
W(d, n, w) == (CHOOSE s \in [Nat -> Int] : Recursive(s, Nat, 0, Weighed(d, w)))[n]

(* The weight of digit n + 1, of w bits.                                   *)
LEMMA PwIs ==
  ASSUME NEW w \in Nat, NEW n \in Nat
  PROVE  /\ Pw(w, n) \in Nat \ {0} /\ Pw(w, 0) = 1 /\ Pw(w, 1) = 2 ^ w
         /\ Pw(w, n + 1) = 2 ^ w * Pw(w, n)
<1>1. w * n \in Nat /\ w * 0 = 0 /\ w * 1 = w /\ w * (n + 1) = w + w * n OBVIOUS
<1>2. 2 ^ (w * n) \in Nat \ {0} BY <1>1, PowerPositive
<1>3. 2 ^ (w + w * n) = 2 ^ w * 2 ^ (w * n) BY <1>1, PowerSum
<1> QED BY <1>1, <1>2, <1>3, PowerOne DEF Pw

(* Weights of a sum.                                                       *)
LEMMA PwSum ==
  ASSUME NEW w \in Nat, NEW m \in Nat, NEW n \in Nat
  PROVE  Pw(w, m + n) = Pw(w, m) * Pw(w, n)
<1>1. w * m \in Nat /\ w * n \in Nat /\ w * (m + n) = w * m + w * n OBVIOUS
<1> QED BY <1>1, PowerSum DEF Pw

(* Weights grow.                                                           *)
LEMMA PwGrows ==
  ASSUME NEW w \in Nat, NEW m \in Nat, NEW n \in Nat, m <= n
  PROVE  Pw(w, m) <= Pw(w, n)
<1>1. w * m \in Nat /\ w * n \in Nat /\ w * m <= w * n OBVIOUS
<1> QED BY <1>1, PowerGrows DEF Pw

(* A number's value from its first digits and the next one.                *)
LEMMA WIs ==
  ASSUME NEW d, NEW w \in Nat, NEW n \in Nat
  PROVE  /\ W(d, n, w) \in Int /\ W(d, 0, w) = 0
         /\ d[n + 1] \in Int => W(d, n + 1, w) = W(d, n, w) + d[n + 1] * Pw(w, n)
<1> DEFINE F == Weighed(d, w)
           s == CHOOSE f \in [Nat -> Int] : Recursive(f, Nat, 0, F)
<1>1. \A i \in Nat \ {0}, e \in Int : F[<<i, e>>] \in Int
  <2> TAKE i \in Nat \ {0}, e \in Int
  <2>1. i - 1 \in Nat OBVIOUS
  <2>2. Pw(w, i - 1) \in Int BY <2>1, PwIs
  <2>3. F[<<i, e>>] = e + (IF d[i] \in Int THEN d[i] ELSE 0) * Pw(w, i - 1) BY DEF Weighed
  <2>4. (IF d[i] \in Int THEN d[i] ELSE 0) \in Int OBVIOUS
  <2>5. \A a, b \in Int : e + a * b \in Int OBVIOUS
  <2> QED BY <2>2, <2>3, <2>4, <2>5
<1> HIDE DEF F
<1>2. \E f \in [Nat -> Int] : Recursive(f, Nat, 0, F)
  <2>1. 0 \in Int OBVIOUS
  <2> QED BY <1>1, <2>1, NatRecursion, Zenon
<1>3. s \in [Nat -> Int] /\ Recursive(s, Nat, 0, F) BY <1>2
<1>4. \A i \in Nat : W(d, i, w) = s[i] BY DEF W, F
<1> HIDE DEF s
<1>5. s[0] = 0 BY <1>3 DEF Recursive
<1>6. s[n + 1] = F[<<n + 1, s[n]>>]
  <2>1. n + 1 \in Nat /\ n + 1 # 0 /\ (n + 1) - 1 = n OBVIOUS
  <2> QED BY <1>3, <2>1 DEF Recursive
<1>7. d[n + 1] \in Int => F[<<n + 1, s[n]>>] = s[n] + d[n + 1] * Pw(w, n)
  <2>1. n + 1 \in Nat \ {0} /\ (n + 1) - 1 = n /\ s[n] \in Int BY <1>3
  <2> QED BY <2>1 DEF F, Weighed
<1> QED BY <1>3, <1>4, <1>5, <1>6, <1>7

(* What is most often needed of a weight,                                  *)
LEMMA PwType ==
  ASSUME NEW w \in Nat, NEW n \in Nat
  PROVE  Pw(w, n) \in Nat \ {0} /\ Pw(w, n) \in Int
BY PwIs

(* of a value,                                                             *)
LEMMA WType ==
  ASSUME NEW d, NEW w \in Nat, NEW n \in Nat
  PROVE  W(d, n, w) \in Int /\ W(d, 0, w) = 0
BY WIs

(* and of the next digit.                                                  *)
LEMMA WNext ==
  ASSUME NEW d, NEW w \in Nat, NEW n \in Nat, NEW m, m = n + 1, d[m] \in Int
  PROVE  W(d, m, w) = W(d, n, w) + d[m] * Pw(w, n)
BY WIs

(* The value depends on the first n digits only.                           *)
LEMMA WExt ==
  ASSUME NEW c, NEW d, NEW w \in Nat, NEW n \in Nat, \A i \in 1..n : c[i] = d[i] /\ c[i] \in Int
  PROVE  W(c, n, w) = W(d, n, w)
<1> DEFINE T == {k \in Nat : k <= n => W(c, k, w) = W(d, k, w)}
<1>1. 0 \in T BY WType
<1>2. ASSUME NEW k \in Nat, k \in T PROVE k + 1 \in T
  <2>1. SUFFICES ASSUME k + 1 <= n PROVE W(c, k + 1, w) = W(d, k + 1, w) OBVIOUS
  <2>2. k + 1 \in 1..n /\ k <= n BY <2>1
  <2>3. c[k + 1] = d[k + 1] /\ c[k + 1] \in Int BY <2>2
  <2> QED BY <1>2, <2>2, <2>3, WNext, WType
<1> HIDE DEF T
<1>3. n \in T BY <1>1, <1>2, NatSetInduction
<1> QED BY <1>3 DEF T

Sums(c, d, e, n) == \A i \in 1..n : c[i] \in Int /\ d[i] \in Int /\ e[i] = c[i] + d[i]
(* Digit sums have the sum of the values.                                  *)
LEMMA WSum ==
  ASSUME NEW c, NEW d, NEW e, NEW w \in Nat, NEW n \in Nat, Sums(c, d, e, n)
  PROVE  W(e, n, w) = W(c, n, w) + W(d, n, w)
<1> DEFINE T == {k \in Nat : k <= n => W(e, k, w) = W(c, k, w) + W(d, k, w)}
<1>1. 0 \in T BY WType
<1>2. ASSUME NEW k \in Nat, k \in T PROVE k + 1 \in T
  <2>1. SUFFICES ASSUME k + 1 <= n PROVE W(e, k + 1, w) = W(c, k + 1, w) + W(d, k + 1, w) OBVIOUS
  <2>2. k + 1 \in 1..n /\ k <= n BY <2>1
  <2>3. c[k + 1] \in Int /\ d[k + 1] \in Int /\ e[k + 1] = c[k + 1] + d[k + 1] BY <2>2 DEF Sums
  <2>4. /\ W(e, k + 1, w) = W(e, k, w) + e[k + 1] * Pw(w, k)
        /\ W(c, k + 1, w) = W(c, k, w) + c[k + 1] * Pw(w, k)
        /\ W(d, k + 1, w) = W(d, k, w) + d[k + 1] * Pw(w, k)
        /\ W(c, k, w) \in Int /\ W(d, k, w) \in Int /\ Pw(w, k) \in Int
    <3>1. W(e, k + 1, w) = W(e, k, w) + e[k + 1] * Pw(w, k) BY <2>3, WNext
    <3>2. W(c, k + 1, w) = W(c, k, w) + c[k + 1] * Pw(w, k) BY <2>3, WNext
    <3>3. W(d, k + 1, w) = W(d, k, w) + d[k + 1] * Pw(w, k) BY <2>3, WNext
    <3>4. W(c, k, w) \in Int BY WType
    <3>5. W(d, k, w) \in Int BY WType
    <3>6. Pw(w, k) \in Int BY PwType
    <3> QED BY <3>1, <3>2, <3>3, <3>4, <3>5, <3>6
  <2>5. \A a, b, p \in Int : (a + b) * p = a * p + b * p /\ a * p \in Int OBVIOUS
  <2>6. /\ e[k + 1] * Pw(w, k) = c[k + 1] * Pw(w, k) + d[k + 1] * Pw(w, k)
        /\ c[k + 1] * Pw(w, k) \in Int /\ d[k + 1] * Pw(w, k) \in Int
    BY <2>3, <2>4, <2>5
  <2>7. W(e, k, w) = W(c, k, w) + W(d, k, w) BY <1>2, <2>2
  <2> QED BY <2>4, <2>6, <2>7
<1> HIDE DEF T
<1>3. n \in T BY <1>1, <1>2, NatSetInduction
<1> QED BY <1>3 DEF T

Multiples(d, e, q, n) == \A i \in 1..n : d[i] \in Int /\ e[i] = q * d[i]
(* Digit multiples have the multiple of the value.                         *)
LEMMA WTimes ==
  ASSUME NEW d, NEW e, NEW q \in Int, NEW w \in Nat, NEW n \in Nat, Multiples(d, e, q, n)
  PROVE  W(e, n, w) = q * W(d, n, w)
<1> DEFINE T == {k \in Nat : k <= n => W(e, k, w) = q * W(d, k, w)}
<1>1. 0 \in T BY WType
<1>2. ASSUME NEW k \in Nat, k \in T PROVE k + 1 \in T
  <2>1. SUFFICES ASSUME k + 1 <= n PROVE W(e, k + 1, w) = q * W(d, k + 1, w) OBVIOUS
  <2>2. k + 1 \in 1..n /\ k <= n BY <2>1
  <2>3. d[k + 1] \in Int /\ e[k + 1] = q * d[k + 1] BY <2>2 DEF Multiples
  <2>4. e[k + 1] \in Int BY <2>3
  <2>5. /\ W(e, k + 1, w) = W(e, k, w) + e[k + 1] * Pw(w, k)
        /\ W(d, k + 1, w) = W(d, k, w) + d[k + 1] * Pw(w, k)
        /\ W(d, k, w) \in Int /\ Pw(w, k) \in Int
    <3>1. W(e, k + 1, w) = W(e, k, w) + e[k + 1] * Pw(w, k) BY <2>3, <2>4, WNext
    <3>2. W(d, k + 1, w) = W(d, k, w) + d[k + 1] * Pw(w, k) BY <2>3, <2>4, WNext
    <3>3. W(d, k, w) \in Int BY WType
    <3>4. Pw(w, k) \in Int BY PwType
    <3> QED BY <3>1, <3>2, <3>3, <3>4
  <2>6. \A a, b, p \in Int : q * (a + b * p) = q * a + (q * b) * p OBVIOUS
  <2>7. q * W(d, k + 1, w) = q * W(d, k, w) + (q * d[k + 1]) * Pw(w, k) BY <2>3, <2>5, <2>6
  <2>8. W(e, k, w) = q * W(d, k, w) BY <1>2, <2>2
  <2> QED BY <2>3, <2>5, <2>7, <2>8
<1> HIDE DEF T
<1>3. n \in T BY <1>1, <1>2, NatSetInduction
<1> QED BY <1>3 DEF T

(* Proper digits keep the value below the next weight.                     *)
LEMMA WBound ==
  ASSUME NEW d, NEW w \in Nat, NEW n \in Nat, \A i \in 1..n : d[i] \in 0..2 ^ w - 1
  PROVE  W(d, n, w) \in 0..Pw(w, n) - 1
<1> DEFINE T == {k \in Nat : k <= n => W(d, k, w) \in 0..Pw(w, k) - 1}
<1>1. 0 \in T BY WType, PwIs
<1>2. ASSUME NEW k \in Nat, k \in T PROVE k + 1 \in T
  <2>1. SUFFICES ASSUME k + 1 <= n PROVE W(d, k + 1, w) \in 0..Pw(w, k + 1) - 1 OBVIOUS
  <2>2. k + 1 \in 1..n /\ k <= n BY <2>1
  <2>3. 2 ^ w \in Nat \ {0} BY PowerPositive
  <2>4. d[k + 1] \in 0..2 ^ w - 1 /\ d[k + 1] \in Int BY <2>2, <2>3
  <2>5. /\ W(d, k + 1, w) = W(d, k, w) + d[k + 1] * Pw(w, k)
        /\ Pw(w, k) \in Nat \ {0} /\ Pw(w, k + 1) = 2 ^ w * Pw(w, k)
    <3>1. W(d, k + 1, w) = W(d, k, w) + d[k + 1] * Pw(w, k) BY <2>4, WNext
    <3>2. Pw(w, k) \in Nat \ {0} BY PwIs
    <3>3. Pw(w, k + 1) = 2 ^ w * Pw(w, k) BY PwIs
    <3> QED BY <3>1, <3>2, <3>3
  <2>6. W(d, k, w) \in 0..Pw(w, k) - 1 BY <1>2, <2>2
  <2>7. \A b, p \in Nat \ {0} : \A a \in 0..p - 1, e \in 0..b - 1 : a + e * p \in 0..b * p - 1
    <3> TAKE b, p \in Nat \ {0}
    <3> TAKE a \in 0..p - 1, e \in 0..b - 1
    <3>1. e + 1 <= b /\ (e + 1) * p <= b * p OBVIOUS
    <3>2. (e + 1) * p = e * p + p /\ e * p \in Nat OBVIOUS
    <3> QED BY <3>1, <3>2
  <2> QED BY <2>3, <2>4, <2>5, <2>6, <2>7
<1> HIDE DEF T
<1>3. n \in T BY <1>1, <1>2, NatSetInduction
<1> QED BY <1>3 DEF T

(* Zeros above change nothing.                                             *)
LEMMA WZeros ==
  ASSUME NEW d, NEW w \in Nat, NEW m \in Nat, NEW n \in Nat, m <= n, \A i \in m + 1..n : d[i] = 0
  PROVE  W(d, n, w) = W(d, m, w)
<1> DEFINE T == {k \in Nat : m + k <= n => W(d, m + k, w) = W(d, m, w)}
<1>1. 0 \in T BY WType
<1>2. ASSUME NEW k \in Nat, k \in T PROVE k + 1 \in T
  <2>1. SUFFICES ASSUME m + (k + 1) <= n PROVE W(d, m + (k + 1), w) = W(d, m, w) OBVIOUS
  <2>2. (m + k) + 1 \in m + 1..n /\ m + k <= n /\ m + (k + 1) = (m + k) + 1 /\ m + k \in Nat BY <2>1
  <2>3. d[(m + k) + 1] = 0 BY <2>2
  <2>4. W(d, (m + k) + 1, w) = W(d, m + k, w) + 0 * Pw(w, m + k) /\ W(d, m + k, w) \in Int
    <3>1. W(d, (m + k) + 1, w) = W(d, m + k, w) + 0 * Pw(w, m + k) BY <2>2, <2>3, WNext
    <3>2. W(d, m + k, w) \in Int BY <2>2, WType
    <3> QED BY <3>1, <3>2
  <2>5. 0 * Pw(w, m + k) = 0 BY <2>2, PwIs
  <2>6. W(d, m + k, w) = W(d, m, w) BY <1>2, <2>2
  <2> QED BY <2>2, <2>4, <2>5, <2>6
<1> HIDE DEF T
<1>3. n - m \in Nat /\ m + (n - m) = n OBVIOUS
<1>4. n - m \in T BY <1>1, <1>2, <1>3, NatSetInduction
<1> QED BY <1>3, <1>4 DEF T

(* A number is that of its low digits and that of the others.              *)
Follows(d, e, k, n) == \A i \in 1..n : e[k + i] = d[i] /\ d[i] \in Int
(* The value of the whole from those of its low part and the rest.         *)
LEMMA WSplit ==
  ASSUME NEW d, NEW e, NEW w \in Nat, NEW k \in Nat, NEW n \in Nat, Follows(d, e, k, n)
  PROVE  W(e, k + n, w) = W(e, k, w) + Pw(w, k) * W(d, n, w)
<1> DEFINE T == {m \in Nat : m <= n => W(e, k + m, w) = W(e, k, w) + Pw(w, k) * W(d, m, w)}
<1>1. 0 \in T
  <2>1. W(d, 0, w) = 0 /\ W(e, k, w) \in Int /\ Pw(w, k) \in Int /\ k + 0 = k
    <3>1. W(d, 0, w) = 0 BY WType
    <3>2. W(e, k, w) \in Int BY WType
    <3>3. Pw(w, k) \in Int BY PwType
    <3>4. k + 0 = k OBVIOUS
    <3> QED BY <3>1, <3>2, <3>3, <3>4
  <2> QED BY <2>1
<1>2. ASSUME NEW m \in Nat, m \in T PROVE m + 1 \in T
  <2>1. SUFFICES ASSUME m + 1 <= n
                 PROVE  W(e, k + (m + 1), w) = W(e, k, w) + Pw(w, k) * W(d, m + 1, w)
    OBVIOUS
  <2>2. m + 1 \in 1..n /\ m <= n /\ k + m \in Nat /\ k + (m + 1) = (k + m) + 1 BY <2>1
  <2>3. e[(k + m) + 1] = d[m + 1] /\ d[m + 1] \in Int BY <2>2 DEF Follows
  <2>4. /\ W(e, (k + m) + 1, w) = W(e, k + m, w) + d[m + 1] * Pw(w, k + m)
        /\ W(d, m + 1, w) = W(d, m, w) + d[m + 1] * Pw(w, m)
        /\ W(d, m, w) \in Int /\ W(e, k, w) \in Int
    <3>1. W(e, (k + m) + 1, w) = W(e, k + m, w) + d[m + 1] * Pw(w, k + m) BY <2>2, <2>3, WNext
    <3>2. W(d, m + 1, w) = W(d, m, w) + d[m + 1] * Pw(w, m) BY <2>2, <2>3, WNext
    <3>3. W(d, m, w) \in Int BY WType
    <3>4. W(e, k, w) \in Int BY WType
    <3> QED BY <3>1, <3>2, <3>3, <3>4
  <2>5. Pw(w, k + m) = Pw(w, k) * Pw(w, m) /\ Pw(w, k) \in Int /\ Pw(w, m) \in Int BY PwSum, PwType
  <2>6. W(e, k + m, w) = W(e, k, w) + Pw(w, k) * W(d, m, w) BY <1>2, <2>2
  <2>7. \A a, b, c, p, q \in Int : (a + p * b) + c * (p * q) = a + p * (b + c * q) OBVIOUS
  <2>8. (W(e, k, w) + Pw(w, k) * W(d, m, w)) + d[m + 1] * (Pw(w, k) * Pw(w, m))
          = W(e, k, w) + Pw(w, k) * (W(d, m, w) + d[m + 1] * Pw(w, m))
    BY <2>3, <2>4, <2>5, <2>7
  <2> QED BY <2>2, <2>4, <2>5, <2>6, <2>8
<1> HIDE DEF T
<1>3. n \in T BY <1>1, <1>2, NatSetInduction
<1> QED BY <1>3 DEF T

-----------------------------------------------------------------------------
(* Words. The same for words, and Value, which the model computes from the *)
(* highest word.                                                           *)

PB(n) == Pw(WordBits, n)
V(d, n) == W(d, n, WordBits)

(* The base is even, and more than 1.                                      *)
LEMMA BaseIs ==
  /\ WordBits \in Nat \ {0} /\ Base = 2 ^ WordBits /\ Base \in Nat \ {0, 1}
  /\ Base = 2 * 2 ^ (WordBits - 1)
<1>1. WordBits \in Nat \ {0} BY WordAssumption
<1>2. WordBits - 1 \in Nat /\ (WordBits - 1) + 1 = WordBits BY <1>1
<1>3. 2 ^ WordBits = 2 * 2 ^ (WordBits - 1) BY <1>2, PowerNext
<1>4. 2 ^ (WordBits - 1) \in Nat \ {0} BY <1>2, PowerPositive
<1> QED BY <1>1, <1>3, <1>4 DEF Base

(* The weights of words.                                                   *)
LEMMA PBIs ==
  ASSUME NEW n \in Nat
  PROVE  PB(n) \in Nat \ {0} /\ PB(0) = 1 /\ PB(1) = Base
BY PwIs, BaseIs DEF PB

(* The next weight.                                                        *)
LEMMA PBNext ==
  ASSUME NEW n \in Nat, NEW m, m = n + 1
  PROVE  PB(m) = Base * PB(n)
BY PwIs, BaseIs DEF PB

(* Weights of a sum.                                                       *)
LEMMA PBSum ==
  ASSUME NEW m \in Nat, NEW n \in Nat
  PROVE  PB(m + n) = PB(m) * PB(n)
BY PwSum, BaseIs DEF PB

(* Weights grow.                                                           *)
LEMMA PBGrows ==
  ASSUME NEW m \in Nat, NEW n \in Nat, m <= n
  PROVE  PB(m) <= PB(n)
BY PwGrows, BaseIs DEF PB

(* What W's lemmas say of words.                                           *)
LEMMA VType ==
  ASSUME NEW d, NEW n \in Nat
  PROVE  V(d, n) \in Int /\ V(d, 0) = 0
BY WType, BaseIs DEF V

(* The next word.                                                          *)
LEMMA VNext ==
  ASSUME NEW d, NEW n \in Nat, NEW m, m = n + 1, d[m] \in Int
  PROVE  V(d, m) = V(d, n) + d[m] * PB(n)
BY WNext, BaseIs DEF V, PB

(* The value depends on the first n words only.                            *)
LEMMA VExt ==
  ASSUME NEW c, NEW d, NEW n \in Nat, \A i \in 1..n : c[i] = d[i] /\ c[i] \in Int
  PROVE  V(c, n) = V(d, n)
BY WExt, BaseIs DEF V

(* Sums word by word.                                                      *)
LEMMA VSum ==
  ASSUME NEW c, NEW d, NEW e, NEW n \in Nat, Sums(c, d, e, n)
  PROVE  V(e, n) = V(c, n) + V(d, n)
BY WSum, BaseIs DEF V

(* Multiples word by word.                                                 *)
LEMMA VTimes ==
  ASSUME NEW d, NEW e, NEW q \in Int, NEW n \in Nat, Multiples(d, e, q, n)
  PROVE  V(e, n) = q * V(d, n)
BY WTimes, BaseIs DEF V

(* n words stay below the weight of word n + 1.                            *)
LEMMA VBound ==
  ASSUME NEW d, NEW n \in Nat, \A i \in 1..n : d[i] \in 0..Base - 1
  PROVE  V(d, n) \in 0..PB(n) - 1
BY WBound, BaseIs DEF V, PB

(* Zero words above change nothing.                                        *)
LEMMA VZeros ==
  ASSUME NEW d, NEW m \in Nat, NEW n \in Nat, m <= n, \A i \in m + 1..n : d[i] = 0
  PROVE  V(d, n) = V(d, m)
BY WZeros, BaseIs DEF V

(* Low words and the rest.                                                 *)
LEMMA VSplit ==
  ASSUME NEW d, NEW e, NEW k \in Nat, NEW n \in Nat, Follows(d, e, k, n)
  PROVE  V(e, k + n) = V(e, k) + PB(k) * V(d, n)
BY WSplit, BaseIs DEF V, PB

(* Value is computed from the highest word.                                *)
LEMMA ValueUnfolds ==
  ASSUME NEW v \in Seq(Int)
  PROVE  \E top \in [0..Len(v) -> Int] :
           /\ top[0] = 0 /\ Value(v) = top[Len(v)]
           /\ \A i \in 1..Len(v) : top[i] = top[i - 1] * Base + v[Len(v) + 1 - i]
<1> DEFINE n == Len(v)
           F == [p \in (1..n) \X Int |-> p[2] * Base + v[n + 1 - p[1]]]
           Is(top) == top = [i \in 0..Len(v) |-> IF i = 0 THEN 0
                                                 ELSE top[i - 1] * Base + v[Len(v) + 1 - i]]
           top == CHOOSE f : Is(f)
<1>1. n \in Nat /\ Base \in Int /\ \A i \in 1..n : n + 1 - i \in 1..n /\ v[n + 1 - i] \in Int
  BY BaseIs
<1>2. \A i \in 1..n, e \in Int : F[<<i, e>>] = e * Base + v[n + 1 - i] OBVIOUS
<1> HIDE DEF F
<1>3. \A i \in 1..n, e \in Int : F[<<i, e>>] \in Int
  <2> TAKE i \in 1..n, e \in Int
  <2>1. PICK b \in Int : b = Base BY <1>1
  <2>2. PICK g \in Int : g = v[n + 1 - i] BY <1>1
  <2>3. e * b + g \in Int OBVIOUS
  <2> QED BY <1>2, <2>1, <2>2, <2>3
<1>4. PICK f \in [0..n -> Int] : Recursive(f, 0..n, 0, F)
  <2>1. 0 \in Int OBVIOUS
  <2> QED BY <1>1, <1>3, <2>1, Recursion, Zenon
<1>5. Is(f)
  <2>1. \A i \in 0..n : i # 0 => i \in 1..n /\ i - 1 \in 0..n BY <1>1
  <2>2. \A i \in 0..n : f[i] = IF i = 0 THEN 0 ELSE f[i - 1] * Base + v[n + 1 - i]
    BY <1>2, <1>4, <2>1 DEF Recursive
  <2>3. f = [i \in 0..n |-> f[i]] BY <1>4
  <2> QED BY <2>2, <2>3
<1>6. Is(top) BY <1>5
<1>7. Value(v) = top[n] BY Zenon DEF Value
<1> HIDE DEF top
<1>8. top \in [0..n -> Int]
  <2> DEFINE T == {k \in Nat : k <= n => top[k] \in Int}
  <2>1. 0 \in T BY <1>1, <1>6
  <2>2. ASSUME NEW k \in Nat, k \in T PROVE k + 1 \in T
    <3>1. SUFFICES ASSUME k + 1 <= n PROVE top[k + 1] \in Int OBVIOUS
    <3>2. k + 1 \in 1..n /\ k + 1 \in 0..n /\ (k + 1) - 1 = k /\ k <= n /\ k + 1 # 0 BY <1>1, <3>1
    <3>3. top[k + 1] = top[k] * Base + v[n + 1 - (k + 1)] BY <1>6, <3>2
    <3>4. top[k] \in Int BY <2>2, <3>2
    <3>5. v[n + 1 - (k + 1)] \in Int BY <1>1, <3>2
    <3>6. \A a, b, c \in Int : a * b + c \in Int OBVIOUS
    <3> QED BY <1>1, <3>3, <3>4, <3>5, <3>6
  <2> HIDE DEF T
  <2>3. \A k \in Nat : k \in T BY <2>1, <2>2, NatSetInduction
  <2>4. \A k \in 0..n : k \in Nat /\ k <= n BY <1>1
  <2>5. \A k \in 0..n : top[k] \in Int BY <2>3, <2>4 DEF T
  <2>6. top = [k \in 0..n |-> top[k]] BY <1>6
  <2> QED BY <2>5, <2>6
<1>9. \A i \in 1..n : top[i] = top[i - 1] * Base + v[n + 1 - i]
  <2>1. \A i \in 1..n : i \in 0..n /\ i # 0 BY <1>1
  <2> QED BY <1>6, <2>1
<1>10. top[0] = 0 BY <1>1, <1>6
<1> QED BY <1>7, <1>8, <1>9, <1>10

(* Both ways to read an array give the same.                               *)
LEMMA ValueIs ==
  ASSUME NEW v \in Seq(Int)
  PROVE  Value(v) = V(v, Len(v))
<1> DEFINE n == Len(v)
<1>1. PICK top \in [0..n -> Int] :
           /\ top[0] = 0 /\ Value(v) = top[n]
           /\ \A i \in 1..n : top[i] = top[i - 1] * Base + v[n + 1 - i]
  BY ValueUnfolds
<1>2. n \in Nat /\ Base \in Int /\ \A i \in 1..n : v[i] \in Int BY BaseIs
<1> HIDE DEF n
<1> DEFINE T == {i \in Nat : i <= n => V(v, n) = V(v, n - i) + PB(n - i) * top[i]}
<1>3. 0 \in T
  <2>1. n - 0 = n /\ V(v, n) \in Int /\ PB(n) * 0 = 0 BY <1>2, VType, PBIs
  <2> QED BY <1>1, <2>1
<1>4. ASSUME NEW k \in Nat, k \in T PROVE k + 1 \in T
  <2>1. SUFFICES ASSUME k + 1 <= n
                 PROVE  V(v, n) = V(v, n - (k + 1)) + PB(n - (k + 1)) * top[k + 1]
    OBVIOUS
  <2>2. PICK m \in Nat : m = n - (k + 1) BY <1>2, <2>1
  <2>3. n - k = m + 1 /\ m + 1 \in 1..n /\ k \in 0..n /\ k <= n /\ k + 1 \in 1..n /\ (k + 1) - 1 = k
        /\ n + 1 - (k + 1) = m + 1
    BY <1>2, <2>1, <2>2
  <2>4. V(v, n) = V(v, m + 1) + PB(m + 1) * top[k] BY <1>4, <2>3
  <2>5. V(v, m + 1) = V(v, m) + v[m + 1] * PB(m) BY <1>2, <2>3, VNext
  <2>6. PB(m + 1) = Base * PB(m) BY PBNext
  <2>7. top[k + 1] = top[k] * Base + v[m + 1] BY <1>1, <2>3
  <2>8. PB(m) \in Int /\ top[k] \in Int /\ v[m + 1] \in Int /\ V(v, m) \in Int /\ Base \in Int
    <3>1. PB(m) \in Int BY PBIs
    <3>2. V(v, m) \in Int BY VType
    <3> QED BY <1>1, <1>2, <2>3, <3>1, <3>2
  <2> DEFINE t == top[k] e == v[m + 1] a == V(v, m) q == PB(m) b == Base
  <2> HIDE DEF t, e, a, q, b
  <2>11. t \in Int /\ e \in Int /\ a \in Int /\ q \in Int /\ b \in Int BY <2>8 DEF t, e, a, q, b
  <2>9. (a + e * q) + (b * q) * t = a + q * (t * b + e) BY <2>11
  <2>10. (V(v, m) + v[m + 1] * PB(m)) + (Base * PB(m)) * top[k]
           = V(v, m) + PB(m) * (top[k] * Base + v[m + 1])
    BY <2>9 DEF t, e, a, q, b
  <2> QED BY <2>2, <2>4, <2>5, <2>6, <2>7, <2>10
<1> HIDE DEF T
<1>5. n \in T BY <1>2, <1>3, <1>4, NatSetInduction
<1>6. V(v, n) = V(v, n - n) + PB(n - n) * top[n] BY <1>2, <1>5 DEF T
<1>7. n - n = 0 /\ V(v, 0) = 0 /\ PB(0) = 1 /\ top[n] \in Int BY <1>1, <1>2, VType, PBIs
<1>8. V(v, n) = top[n] BY <1>6, <1>7
<1> QED BY <1>1, <1>8 DEF n

-----------------------------------------------------------------------------
(* Arrays. Least and greatest elements, and arrays as functions.           *)

(* A set of numbers has a least element,                                   *)
LEMMA HasLeast ==
  ASSUME NEW S \in SUBSET Nat, S # {}
  PROVE  Min(S) \in S /\ \A s \in S : Min(S) <= s
<1>1. \E i \in S : \A s \in S : i <= s
  <2> DEFINE T == {n \in Nat : n \notin S}
  <2>1. SUFFICES ASSUME \A i \in S : \E s \in S : s < i PROVE FALSE OBVIOUS
  <2>2. \A n \in Nat : (\A m \in 0..n - 1 : m \in T) => n \in T
    <3> TAKE n \in Nat
    <3>1. SUFFICES ASSUME \A m \in 0..n - 1 : m \in T, n \in S PROVE FALSE OBVIOUS
    <3>2. PICK s \in S : s < n BY <2>1, <3>1
    <3>3. s \in 0..n - 1 BY <3>2
    <3> QED BY <3>1, <3>3
  <2> HIDE DEF T
  <2>3. \A n \in Nat : n \in T BY <2>2, NatSetStrongInduction
  <2> QED BY <2>3 DEF T
<1> QED BY <1>1 DEF Min

(* and a bounded one a greatest.                                           *)
LEMMA HasGreatest ==
  ASSUME NEW n \in Nat, NEW S \in SUBSET (0..n), S # {}
  PROVE  Max(S) \in S /\ \A s \in S : s <= Max(S)
<1> DEFINE U == {n - s : s \in S}
<1>1. U \in SUBSET Nat /\ U # {}
  <2>1. \A s \in S : n - s \in Nat OBVIOUS
  <2> QED BY <2>1
<1> HIDE DEF U
<1>2. Min(U) \in U /\ \A u \in U : Min(U) <= u BY <1>1, HasLeast
<1>3. PICK i \in S : Min(U) = n - i BY <1>2 DEF U
<1>4. \A s \in S : n - i <= n - s BY <1>2, <1>3 DEF U
<1>5. \A s \in S : i >= s BY <1>4
<1>6. \E j \in S : \A s \in S : j >= s BY <1>5
<1>7. Max(S) \in S /\ \A s \in S : Max(S) >= s BY <1>6 DEF Max
<1> QED BY <1>7

(* What holds at 0 and is handed on holds to the end.                      *)
LEMMA Stays ==
  ASSUME NEW T, NEW m \in Nat, NEW f, f[0] \in T, \A i \in 1..m : f[i - 1] \in T => f[i] \in T
  PROVE  \A i \in 0..m : f[i] \in T
<1> DEFINE U == {k \in Nat : k <= m => f[k] \in T}
<1>1. 0 \in U OBVIOUS
<1>2. ASSUME NEW k \in Nat, k \in U PROVE k + 1 \in U
  <2>1. SUFFICES ASSUME k + 1 <= m PROVE f[k + 1] \in T OBVIOUS
  <2>2. k + 1 \in 1..m /\ (k + 1) - 1 = k /\ k <= m BY <2>1
  <2> QED BY <1>2, <2>2
<1> HIDE DEF U
<1>3. \A k \in Nat : k \in U BY <1>1, <1>2, NatSetInduction
<1>4. \A k \in 0..m : k \in Nat /\ k <= m OBVIOUS
<1> QED BY <1>3, <1>4 DEF U

(* A sum leaves a word and a carry.                                        *)
LEMMA BaseDivides ==
  ASSUME NEW a \in Nat
  PROVE  /\ a \div Base \in Nat /\ a % Base \in 0..Base - 1
         /\ a = (a \div Base) * Base + (a % Base)
<1>1. Base \in Nat \ {0, 1} BY BaseIs
<1>2. a \div Base \in Nat /\ a % Base \in 0..Base - 1 BY <1>1
<1>3. a = (a \div Base) * Base + (a % Base) BY <1>1
<1> QED BY <1>2, <1>3
(* An array, as a function of its positions.                               *)
LEMMA ArraysAre ==
  ASSUME NEW v \in Arrays
  PROVE  /\ v \in Seq(Int) /\ v \in Seq(Nat) /\ Len(v) \in Nat /\ DOMAIN v = 1..Len(v)
         /\ v = [i \in 1..Len(v) |-> v[i]]
         /\ \A i \in 1..Len(v) : v[i] \in 0..Base - 1 /\ v[i] \in Int /\ v[i] \in Nat
<1>1. Base \in Nat BY BaseIs
<1>2. v \in Seq(0..Base - 1) BY DEF Arrays
<1>3. Len(v) \in Nat /\ DOMAIN v = 1..Len(v) /\ v = [i \in 1..Len(v) |-> v[i]] BY <1>2
<1>4. \A i \in 1..Len(v) : v[i] \in 0..Base - 1 BY <1>2, ElementOfSeq
<1>5. \A i \in 0..Base - 1 : i \in Int /\ i \in Nat BY <1>1
<1>6. v \in Seq(Int) /\ v \in Seq(Nat)
  <2>1. v \in [1..Len(v) -> Int] /\ v \in [1..Len(v) -> Nat] BY <1>3, <1>4, <1>5
  <2> QED BY <1>3, <2>1
<1> QED BY <1>3, <1>4, <1>5, <1>6

(* A function of 1..n to words is an array.                                *)
LEMMA ArrayMade ==
  ASSUME NEW n \in Nat, NEW v, v = [i \in 1..n |-> v[i]], \A i \in 1..n : v[i] \in 0..Base - 1
  PROVE  v \in Arrays /\ Len(v) = n
<1>1. v \in [1..n -> 0..Base - 1] OBVIOUS
<1>2. v \in Seq(0..Base - 1) /\ Len(v) = n BY <1>1
<1> QED BY <1>2 DEF Arrays

(* cleanup cuts zeros, keeps the value, and changes no number.             *)
LEMMA CleanupIs ==
  ASSUME NEW v \in Arrays
  PROVE  /\ cleanup(v) \in Numbers /\ Len(cleanup(v)) <= Len(v)
         /\ Value(cleanup(v)) = V(v, Len(v))
         /\ v \in Numbers => cleanup(v) = v
<1> DEFINE n == Len(v)
           S == {0} \cup {i \in DOMAIN v : v[i] # 0}
           k == Max(S)
           c == SubSeq(v, 1, k)
<1>1. /\ v \in Seq(Int) /\ n \in Nat /\ DOMAIN v = 1..n /\ v = [i \in 1..n |-> v[i]]
      /\ \A i \in 1..n : v[i] \in 0..Base - 1 /\ v[i] \in Int
  BY ArraysAre
<1> HIDE DEF n
<1>2. S \in SUBSET (0..n) /\ S # {} BY <1>1
<1>3. k \in S /\ \A s \in S : s <= k
  <2> HIDE DEF S
  <2> QED BY <1>1, <1>2, HasGreatest
<1>4. k \in 0..n /\ k \in Nat /\ k <= n BY <1>1, <1>2, <1>3
<1>5. \A i \in k + 1..n : v[i] = 0
  <2> TAKE i \in k + 1..n
  <2>1. i \in 1..n /\ ~(i <= k) BY <1>1, <1>4
  <2> QED BY <1>1, <1>3, <2>1
<1>6. k # 0 => v[k] # 0 BY <1>3
<1>7. cleanup(v) = c BY DEF cleanup
<1> HIDE DEF S, k
<1>8. /\ Len(c) = k /\ c = [i \in 1..k |-> c[i]] /\ \A i \in 1..k : c[i] = v[i] /\ i \in 1..n
  <2>1. \A i \in 1..k : i \in 1..n BY <1>1, <1>4
  <2>2. c = [i \in 1..k |-> v[i]] /\ Len(c) = k BY <1>1, <1>4, SubSeqProperties
  <2> HIDE DEF c
  <2> QED BY <2>1, <2>2
<1> HIDE DEF c
<1>9. c \in Arrays BY <1>1, <1>4, <1>8, ArrayMade
<1>10. c \in Numbers
  <2>1. CASE k = 0
    <3>1. c = <<>> BY <1>8, <1>9, <2>1 DEF Arrays
    <3> QED BY <1>9, <3>1 DEF Numbers
  <2>2. CASE k # 0
    <3>1. k \in 1..k BY <1>4, <2>2
    <3> QED BY <1>6, <1>8, <1>9, <2>2, <3>1 DEF Numbers
  <2> QED BY <2>1, <2>2
<1>11. Value(c) = V(v, n)
  <2>1. c \in Seq(Int) /\ Value(c) = V(c, k)
    <3>1. c \in Seq(Int) BY <1>9, ArraysAre
    <3> QED BY <1>8, <3>1, ValueIs
  <2>2. \A i \in 1..k : c[i] = v[i] /\ c[i] \in Int BY <1>1, <1>8
  <2>3. V(c, k) = V(v, k) BY <1>4, <2>2, VExt
  <2>4. V(v, n) = V(v, k) BY <1>1, <1>4, <1>5, VZeros
  <2> QED BY <2>1, <2>3, <2>4
<1>12. v \in Numbers => c = v
  <2>1. SUFFICES ASSUME v \in Numbers, k # n PROVE FALSE
    <3>1. k = n => c = v BY <1>1, <1>8
    <3> QED BY <3>1
  <2>2. n \in k + 1..n /\ n # 0 BY <1>1, <1>4, <2>1
  <2>3. v[n] = 0 BY <1>5, <2>2
  <2>4. v # <<>> BY <2>2, EmptySeq DEF n
  <2> QED BY <2>1, <2>3, <2>4 DEF Numbers, n
<1> QED BY <1>4, <1>7, <1>8, <1>10, <1>11, <1>12 DEF n

-----------------------------------------------------------------------------
(* Carries.                                                                *)

(* Sums of words, when their carries are handed on.                        *)
Sum1 == (Base - 1) * Base
(* A carry is a word: no sum of words overflows it.                        *)
LEMMA CarryFits ==
  ASSUME NEW a \in 0..Base - 1, NEW s \in 0..Sum1
  PROVE  (a + s) \div Base \in 0..Base - 1
<1>1. Base \in Nat \ {0, 1} BY BaseIs
<1>2. a + s \in Nat BY <1>1 DEF Sum1
<1> DEFINE q == (a + s) \div Base
<1>3. q \in Nat /\ (a + s) % Base \in Nat /\ a + s = q * Base + ((a + s) % Base)
  <2>1. PICK m \in Nat : m = a + s BY <1>2
  <2>2. m \div Base \in Nat /\ m % Base \in 0..Base - 1 /\ m = (m \div Base) * Base + (m % Base)
    BY BaseDivides
  <2> QED BY <1>1, <2>1, <2>2
<1> HIDE DEF q
<1>4. q * Base <= a + s BY <1>1, <1>2, <1>3
<1>5. a + s < Base * Base
  <2>1. (Base - 1) * Base + Base = Base * Base BY <1>1
  <2> QED BY <1>1, <2>1 DEF Sum1
<1>6. q >= Base => q * Base >= Base * Base BY <1>1, <1>3
<1>7. q < Base BY <1>1, <1>2, <1>3, <1>4, <1>5, <1>6
<1> QED BY <1>1, <1>3, <1>7 DEF q

(* The carries, one from the last.                                         *)
LEMMA CarriedUnfolds ==
  ASSUME NEW n \in Nat, NEW sums, Len(sums) = n, \A i \in 1..n : sums[i] \in 0..Sum1
  PROVE  \E carry \in [0..n -> 0..Base - 1] :
           /\ carry[0] = 0
           /\ \A i \in 1..n : carry[i] = (carry[i - 1] + sums[i]) \div Base
           /\ Carried(sums) = [i \in 1..n + 1 |-> IF i > n THEN carry[i - 1]
                                                  ELSE (carry[i - 1] + sums[i]) % Base]
<1> DEFINE D == 0..Base - 1
           F == [p \in (1..n) \X D |-> (p[2] + sums[p[1]]) \div Base]
           Is(f) == f = [i \in 0..Len(sums) |-> IF i = 0 THEN 0
                                                ELSE (f[i - 1] + sums[i]) \div Base]
           carry == CHOOSE f : Is(f)
<1>1. \A i \in 1..n, e \in D : F[<<i, e>>] = (e + sums[i]) \div Base OBVIOUS
<1>2. \A i \in 1..n, e \in D : (e + sums[i]) \div Base \in D BY CarryFits
<1>3. 0 \in D BY BaseIs
<1> HIDE DEF F, D
<1>4. PICK f \in [0..n -> D] : Recursive(f, 0..n, 0, F)
  <2>1. \A i \in 1..n, e \in D : F[<<i, e>>] \in D BY <1>1, <1>2
  <2> QED BY <1>3, <2>1, Recursion, Zenon
<1>5. Is(f)
  <2>1. \A i \in 0..n : i # 0 => i \in 1..n /\ i - 1 \in 0..n OBVIOUS
  <2>2. \A i \in 0..n : f[i] = IF i = 0 THEN 0 ELSE (f[i - 1] + sums[i]) \div Base
    BY <1>1, <1>4, <2>1 DEF Recursive
  <2>3. f = [i \in 0..n |-> f[i]] BY <1>4
  <2> QED BY <2>2, <2>3
<1>6. Is(carry) BY <1>5
<1>7. Carried(sums) = [i \in 1..Len(sums) + 1 |-> IF i > Len(sums) THEN carry[i - 1]
                                                  ELSE (carry[i - 1] + sums[i]) % Base]
  BY Zenon DEF Carried
<1> HIDE DEF carry
<1>8. carry[0] = 0 /\ \A i \in 1..n : carry[i] = (carry[i - 1] + sums[i]) \div Base
  BY <1>6
<1>9. carry \in [0..n -> D]
  <2>1. \A i \in 1..n : carry[i - 1] \in D => carry[i] \in D BY <1>2, <1>8
  <2>2. \A i \in 0..n : carry[i] \in D BY <1>3, <1>8, <2>1, Stays
  <2>3. carry = [i \in 0..n |-> carry[i]] BY <1>6
  <2> QED BY <2>2, <2>3
<1> QED BY <1>7, <1>8, <1>9 DEF D

(* Handing the carries on makes words of the sums and keeps the value.     *)
LEMMA CarriedIs ==
  ASSUME NEW n \in Nat, NEW sums, Len(sums) = n, \A i \in 1..n : sums[i] \in 0..Sum1
  PROVE  /\ Carried(sums) \in Arrays /\ Len(Carried(sums)) = n + 1
         /\ V(Carried(sums), n + 1) = V(sums, n)
<1> DEFINE c == Carried(sums)
<1>1. PICK carry \in [0..n -> 0..Base - 1] :
           /\ carry[0] = 0
           /\ \A i \in 1..n : carry[i] = (carry[i - 1] + sums[i]) \div Base
           /\ c = [i \in 1..n + 1 |-> IF i > n THEN carry[i - 1]
                                      ELSE (carry[i - 1] + sums[i]) % Base]
  BY CarriedUnfolds
<1> HIDE DEF c
<1>2. Base \in Nat \ {0, 1} /\ Sum1 \in Nat
  <2>1. Base \in Nat \ {0, 1} BY BaseIs
  <2>2. \A b \in Nat \ {0, 1} : (b - 1) * b \in Nat OBVIOUS
  <2> QED BY <2>1, <2>2 DEF Sum1
<1>3. \A i \in 1..n : /\ sums[i] \in Nat /\ carry[i] \in Nat /\ carry[i - 1] \in Nat
                      /\ c[i] = (carry[i - 1] + sums[i]) % Base /\ c[i] \in 0..Base - 1
                      /\ carry[i - 1] + sums[i] = carry[i] * Base + c[i]
  <2> TAKE i \in 1..n
  <2>1. i \in 0..n /\ i - 1 \in 0..n /\ i \in 1..n + 1 /\ ~(i > n) OBVIOUS
  <2>2. carry[i] \in Nat /\ carry[i - 1] \in Nat /\ sums[i] \in Nat
    <3>1. carry[i] \in 0..Base - 1 BY <1>1, <2>1
    <3>2. carry[i - 1] \in 0..Base - 1 BY <1>1, <2>1
    <3>3. sums[i] \in 0..Sum1 OBVIOUS
    <3> QED BY <1>2, <3>1, <3>2, <3>3
  <2>3. c[i] = (carry[i - 1] + sums[i]) % Base BY <1>1, <2>1
  <2>4. carry[i] = (carry[i - 1] + sums[i]) \div Base BY <1>1
  <2>5. carry[i - 1] + sums[i] \in Nat BY <2>2
  <2> QED BY <2>2, <2>3, <2>4, <2>5, BaseDivides
<1>4. c[n + 1] = carry[n] /\ carry[n] \in 0..Base - 1 /\ carry[n] \in Int
  <2>1. n + 1 \in 1..n + 1 /\ n + 1 > n /\ (n + 1) - 1 = n /\ n \in 0..n OBVIOUS
  <2> QED BY <1>1, <1>2, <2>1
<1>5. c \in Arrays /\ Len(c) = n + 1
  <2>1. c = [i \in 1..n + 1 |-> c[i]] BY <1>1
  <2>2. \A i \in 1..n + 1 : c[i] \in 0..Base - 1
    <3>1. \A i \in 1..n + 1 : i \in 1..n \/ i = n + 1 OBVIOUS
    <3> QED BY <1>3, <1>4, <3>1
  <2> QED BY <2>1, <2>2, ArrayMade
<1> DEFINE T == {k \in Nat : k <= n => V(c, k) + carry[k] * PB(k) = V(sums, k)}
<1>6. 0 \in T
  <2>1. V(c, 0) = 0 /\ V(sums, 0) = 0 BY VType
  <2>2. PB(0) = 1 BY PBIs
  <2> QED BY <1>1, <2>1, <2>2
<1>7. ASSUME NEW k \in Nat, k \in T PROVE k + 1 \in T
  <2>1. SUFFICES ASSUME k + 1 <= n PROVE V(c, k + 1) + carry[k + 1] * PB(k + 1) = V(sums, k + 1)
    OBVIOUS
  <2>2. k + 1 \in 1..n /\ k <= n /\ (k + 1) - 1 = k BY <2>1
  <2>3. /\ sums[k + 1] \in Int /\ carry[k + 1] \in Int /\ carry[k] \in Int /\ c[k + 1] \in Int
        /\ carry[k] + sums[k + 1] = carry[k + 1] * Base + c[k + 1]
    <3>1. sums[k + 1] \in Nat /\ carry[k + 1] \in Nat /\ carry[(k + 1) - 1] \in Nat
          /\ c[k + 1] \in 0..Base - 1
          /\ carry[(k + 1) - 1] + sums[k + 1] = carry[k + 1] * Base + c[k + 1]
      BY <1>3, <2>2
    <3> QED BY <1>2, <2>2, <3>1
  <2>4. V(c, k) + carry[k] * PB(k) = V(sums, k) BY <1>7, <2>2
  <2>5. V(c, k + 1) = V(c, k) + c[k + 1] * PB(k) BY <2>3, VNext
  <2>6. V(sums, k + 1) = V(sums, k) + sums[k + 1] * PB(k) BY <2>3, VNext
  <2>7. PB(k + 1) = Base * PB(k) BY PBNext
  <2>8. V(c, k) \in Int BY VType
  <2>9. PB(k) \in Int BY PBIs
  <2> DEFINE u == V(c, k) p == PB(k) d == carry[k + 1] g == carry[k] e == c[k + 1]
             s == sums[k + 1] b == Base
  <2>10. /\ u \in Int /\ p \in Int /\ d \in Int /\ g \in Int /\ e \in Int /\ s \in Int /\ b \in Int
         /\ g + s = d * b + e
    BY <1>2, <2>3, <2>8, <2>9
  <2> HIDE DEF u, p, d, g, e, s, b
  <2>11. (u + e * p) + d * (b * p) = (u + g * p) + s * p
    <3>1. (g + s) * p = (d * b + e) * p BY <2>10
    <3>2. (g + s) * p = g * p + s * p BY <2>10
    <3>3. (d * b + e) * p = d * (b * p) + e * p BY <2>10
    <3>4. g * p \in Int /\ s * p \in Int /\ e * p \in Int /\ d * (b * p) \in Int BY <2>10
    <3> QED BY <2>10, <3>1, <3>2, <3>3, <3>4
  <2> QED BY <2>4, <2>5, <2>6, <2>7, <2>11 DEF u, p, d, g, e, s, b
<1> HIDE DEF T
<1>8. n \in T BY <1>6, <1>7, NatSetInduction
<1>9. V(c, n) + carry[n] * PB(n) = V(sums, n) BY <1>8 DEF T
<1>10. V(c, n + 1) = V(c, n) + c[n + 1] * PB(n) BY <1>4, VNext
<1> QED BY <1>4, <1>5, <1>9, <1>10 DEF c

-----------------------------------------------------------------------------
(* Sums and order.                                                         *)

(* A number is an array whose value is a natural number.                   *)
LEMMA NumbersAre ==
  ASSUME NEW v \in Numbers
  PROVE  v \in Arrays /\ Len(v) \in Nat /\ Value(v) \in Nat /\ Value(v) = V(v, Len(v))
<1>1. v \in Arrays BY DEF Numbers
<1>2. v \in Seq(Int) /\ Len(v) \in Nat /\ \A i \in 1..Len(v) : v[i] \in 0..Base - 1
  BY <1>1, ArraysAre
<1>3. Value(v) = V(v, Len(v)) BY <1>2, ValueIs
<1>4. V(v, Len(v)) \in 0..PB(Len(v)) - 1 /\ PB(Len(v)) \in Nat BY <1>2, VBound, PBIs
<1> QED BY <1>1, <1>2, <1>3, <1>4

(* What an array is with zeros above.                                      *)
LEMMA PadIs ==
  ASSUME NEW a \in Arrays, NEW n \in Nat, Len(a) <= n, NEW d, \A i \in 1..n : d[i] = Word(a, i)
  PROVE  V(d, n) = V(a, Len(a)) /\ \A i \in 1..n : d[i] \in 0..Base - 1 /\ d[i] \in Int
<1>1. Len(a) \in Nat /\ DOMAIN a = 1..Len(a) /\ Base \in Nat \ {0, 1}
      /\ \A i \in 1..Len(a) : a[i] \in 0..Base - 1 /\ a[i] \in Int
  BY ArraysAre, BaseIs
<1>2. \A i \in 1..Len(a) : a[i] = d[i]
  <2>1. \A i \in 1..Len(a) : i \in 1..n BY <1>1
  <2> QED BY <1>1, <2>1 DEF Word
<1>3. \A i \in Len(a) + 1..n : d[i] = 0
  <2>1. \A i \in Len(a) + 1..n : i \in 1..n /\ i \notin 1..Len(a) BY <1>1
  <2> QED BY <1>1, <2>1 DEF Word
<1>4. V(d, n) = V(d, Len(a)) BY <1>1, <1>3, VZeros
<1>5. V(a, Len(a)) = V(d, Len(a)) BY <1>1, <1>2, VExt
<1>6. \A i \in 1..n : d[i] \in 0..Base - 1 /\ d[i] \in Int
  <2> TAKE i \in 1..n
  <2>1. i \in 1..Len(a) \/ i \in Len(a) + 1..n BY <1>1
  <2> QED BY <1>1, <1>2, <1>3, <2>1
<1> QED BY <1>4, <1>5, <1>6

(* An array put s words up has its value times the weight.                 *)
LEMMA ShiftIs ==
  ASSUME NEW b \in Arrays, NEW s \in Nat, NEW n \in Nat, s + Len(b) <= n,
         NEW d, \A i \in 1..n : d[i] = Word(b, i - s)
  PROVE  V(d, n) = PB(s) * V(b, Len(b)) /\ \A i \in 1..n : d[i] \in 0..Base - 1 /\ d[i] \in Int
<1>1. Len(b) \in Nat /\ DOMAIN b = 1..Len(b) /\ Base \in Nat \ {0, 1}
      /\ \A i \in 1..Len(b) : b[i] \in 0..Base - 1 /\ b[i] \in Int
  BY ArraysAre, BaseIs
<1>2. \A i \in 1..n : i - s \in 1..Len(b) => d[i] = b[i - s] BY <1>1 DEF Word
<1>3. \A i \in 1..n : i - s \notin 1..Len(b) => d[i] = 0 BY <1>1 DEF Word
<1>4. Follows(b, d, s, Len(b))
  <2>1. \A i \in 1..Len(b) : s + i \in 1..n /\ (s + i) - s = i BY <1>1
  <2> QED BY <1>1, <1>2, <2>1 DEF Follows
<1>5. V(d, s + Len(b)) = V(d, s) + PB(s) * V(b, Len(b)) BY <1>1, <1>4, VSplit
<1>6. V(d, s) = 0
  <2>1. \A i \in 0 + 1..s : d[i] = 0
    <3>1. \A i \in 0 + 1..s : i \in 1..n /\ i - s \notin 1..Len(b) BY <1>1
    <3> QED BY <1>3, <3>1
  <2>2. V(d, s) = V(d, 0) BY <2>1, VZeros
  <2> QED BY <2>2, VType
<1>7. V(d, n) = V(d, s + Len(b))
  <2>1. \A i \in s + Len(b) + 1..n : d[i] = 0
    <3>1. \A i \in s + Len(b) + 1..n : i \in 1..n /\ i - s \notin 1..Len(b) BY <1>1
    <3> QED BY <1>3, <3>1
  <2>2. s + Len(b) \in Nat BY <1>1
  <2> QED BY <2>1, <2>2, VZeros
<1>8. \A i \in 1..n : d[i] \in 0..Base - 1 /\ d[i] \in Int
  <2> TAKE i \in 1..n
  <2>1. CASE i - s \in 1..Len(b) BY <1>1, <1>2, <2>1
  <2>2. CASE i - s \notin 1..Len(b)
    <3>1. d[i] = 0 BY <1>3, <2>2
    <3> QED BY <1>1, <3>1
  <2> QED BY <2>1, <2>2
<1>9. PB(s) * V(b, Len(b)) \in Int
  <2>1. PB(s) \in Int BY PBIs
  <2>2. V(b, Len(b)) \in Int BY <1>1, VType
  <2> QED BY <2>1, <2>2
<1>10. V(d, n) = 0 + PB(s) * V(b, Len(b)) BY <1>5, <1>6, <1>7
<1> QED BY <1>8, <1>9, <1>10

(* The greater of two lengths.                                             *)
LEMMA MaxOfTwo ==
  ASSUME NEW m \in Nat, NEW n \in Nat
  PROVE  Max({m, n}) \in Nat /\ m <= Max({m, n}) /\ n <= Max({m, n}) /\ Max({m, n}) \in {m, n}
<1>1. \E k \in {m, n} : \A l \in {m, n} : k >= l
  <2>1. CASE m >= n BY <2>1
  <2>2. CASE n >= m BY <2>2
  <2> QED BY <2>1, <2>2
<1> QED BY <1>1 DEF Max

(* add is exact for any two numbers, whatever carries run through them and *)
(* wherever the second is put.                                             *)
THEOREM AddIs ==
  ASSUME NEW a \in Arrays, NEW b \in Arrays, NEW s \in Nat
  PROVE  /\ add(a, b, s) \in Numbers
         /\ Value(add(a, b, s)) = V(a, Len(a)) + PB(s) * V(b, Len(b))
<1> DEFINE n == Max({Len(a), Len(b) + s})
           c == [i \in 1..n |-> Word(a, i)]
           d == [i \in 1..n |-> Word(b, i - s)]
           e == [i \in 1..n |-> Word(a, i) + Word(b, i - s)]
<1>1. Len(a) \in Nat /\ Len(b) \in Nat /\ Len(b) + s \in Nat /\ Base \in Nat \ {0, 1}
  BY ArraysAre, BaseIs
<1>2. n \in Nat /\ Len(a) <= n /\ s + Len(b) <= n
  <2>1. n \in Nat /\ Len(a) <= n /\ Len(b) + s <= n BY <1>1, MaxOfTwo
  <2> QED BY <1>1, <2>1
<1>3. add(a, b, s) = cleanup(Carried(e)) BY DEF add
<1> HIDE DEF n
<1>4. \A i \in 1..n : c[i] = Word(a, i) /\ d[i] = Word(b, i - s) /\ e[i] = c[i] + d[i] OBVIOUS
<1>5. Len(e) = n BY <1>2
<1> HIDE DEF c, d, e
<1>6. V(c, n) = V(a, Len(a)) /\ \A i \in 1..n : c[i] \in 0..Base - 1 /\ c[i] \in Int
  BY <1>2, <1>4, PadIs
<1>7. V(d, n) = PB(s) * V(b, Len(b)) /\ \A i \in 1..n : d[i] \in 0..Base - 1 /\ d[i] \in Int
  BY <1>2, <1>4, ShiftIs
<1>8. V(e, n) = V(c, n) + V(d, n)
  <2>1. Sums(c, d, e, n) BY <1>4, <1>6, <1>7 DEF Sums
  <2> QED BY <1>2, <2>1, VSum
<1>9. \A i \in 1..n : e[i] \in 0..Sum1
  <2> TAKE i \in 1..n
  <2>1. e[i] \in Nat /\ e[i] <= (Base - 1) * 2 BY <1>1, <1>4, <1>6, <1>7
  <2>2. (Base - 1) * 2 <= (Base - 1) * Base /\ (Base - 1) * Base \in Nat BY <1>1
  <2> QED BY <1>1, <2>1, <2>2 DEF Sum1
<1>10. /\ Carried(e) \in Arrays /\ Len(Carried(e)) = n + 1
       /\ V(Carried(e), n + 1) = V(e, n)
  BY <1>2, <1>5, <1>9, CarriedIs
<1>11. cleanup(Carried(e)) \in Numbers /\ Value(cleanup(Carried(e))) = V(e, n)
  BY <1>10, CleanupIs
<1> QED BY <1>3, <1>6, <1>7, <1>8, <1>11
(* Order.                                                                  *)
LEMMA LessAt ==
  ASSUME NEW a \in Arrays, NEW b \in Arrays, Len(a) = Len(b),
         NEW i \in 1..Len(a), a[i] < b[i], \A j \in i + 1..Len(a) : a[j] = b[j]
  PROVE  V(a, Len(a)) < V(b, Len(a))
<1> DEFINE n == Len(a)
<1>1. n \in Nat /\ \A j \in 1..n : a[j] \in 0..Base - 1 /\ b[j] \in 0..Base - 1
                                   /\ a[j] \in Int /\ b[j] \in Int
  BY ArraysAre
<1> HIDE DEF n
<1>2. i \in 1..n /\ i - 1 \in Nat /\ i \in Nat /\ (i - 1) + 1 = i BY <1>1 DEF n
<1> DEFINE T == {k \in Nat : i + k <= n => V(a, i + k) < V(b, i + k)}
<1>3. 0 \in T
  <2>1. V(a, i) = V(a, i - 1) + a[i] * PB(i - 1) BY <1>1, <1>2, VNext
  <2>2. V(b, i) = V(b, i - 1) + b[i] * PB(i - 1) BY <1>1, <1>2, VNext
  <2>3. \A j \in 1..i - 1 : j \in 1..n BY <1>1, <1>2
  <2>4. V(a, i - 1) \in 0..PB(i - 1) - 1 BY <1>1, <1>2, <2>3, VBound
  <2>5. V(b, i - 1) \in 0..PB(i - 1) - 1 BY <1>1, <1>2, <2>3, VBound
  <2>6. PB(i - 1) \in Nat BY <1>2, PBIs
  <2> DEFINE u == V(a, i - 1) v == V(b, i - 1) p == PB(i - 1) g == a[i] h == b[i]
  <2>7. u \in 0..p - 1 /\ v \in 0..p - 1 /\ p \in Nat /\ g \in Int /\ h \in Int /\ g + 1 <= h
    BY <1>1, <1>2, <2>4, <2>5, <2>6
  <2> HIDE DEF u, v, p, g, h
  <2>8. u + g * p < v + h * p
    <3>1. (g + 1) * p <= h * p /\ (g + 1) * p = g * p + p /\ g * p \in Int /\ h * p \in Int BY <2>7
    <3> QED BY <2>7, <3>1
  <2>9. i + 0 = i BY <1>2
  <2> QED BY <2>1, <2>2, <2>8, <2>9 DEF u, v, p, g, h
<1>4. ASSUME NEW k \in Nat, k \in T PROVE k + 1 \in T
  <2>1. SUFFICES ASSUME i + (k + 1) <= n PROVE V(a, i + (k + 1)) < V(b, i + (k + 1)) OBVIOUS
  <2>2. PICK m \in Nat : m = i + k BY <1>2
  <2>3. i + (k + 1) = m + 1 /\ m + 1 \in 1..n /\ m + 1 \in i + 1..n /\ m <= n BY <1>1, <1>2, <2>1, <2>2
  <2>4. V(a, m) < V(b, m) BY <1>4, <2>2, <2>3
  <2>5. a[m + 1] = b[m + 1] /\ a[m + 1] \in Int BY <1>1, <2>3 DEF n
  <2>6. V(a, m + 1) = V(a, m) + a[m + 1] * PB(m) BY <2>5, VNext
  <2>7. V(b, m + 1) = V(b, m) + b[m + 1] * PB(m) BY <2>5, VNext
  <2>8. a[m + 1] * PB(m) \in Int
    <3>1. PB(m) \in Int BY PBIs
    <3> QED BY <2>5, <3>1
  <2>9. V(a, m) \in Int /\ V(b, m) \in Int BY VType
  <2>10. \A u, v, g \in Int : u < v => u + g < v + g OBVIOUS
  <2>11. V(a, m) + a[m + 1] * PB(m) < V(b, m) + a[m + 1] * PB(m) BY <2>4, <2>8, <2>9, <2>10
  <2>12. V(a, m + 1) < V(b, m + 1) BY <2>5, <2>6, <2>7, <2>11
  <2> QED BY <2>3, <2>12
<1> HIDE DEF T
<1>5. n - i \in Nat /\ i + (n - i) = n BY <1>1, <1>2
<1>6. n - i \in T BY <1>3, <1>4, <1>5, NatSetInduction
<1>7. V(a, n) < V(b, n) BY <1>1, <1>5, <1>6 DEF T
<1> QED BY <1>7 DEF n

(* A number of n words is below the weight of the next, not that of its    *)
(* last.                                                                   *)
LEMMA Bounds ==
  ASSUME NEW v \in Numbers
  PROVE  /\ Value(v) < PB(Len(v))
         /\ v = <<>> => Value(v) = 0
         /\ v # <<>> => Len(v) \in Nat \ {0} /\ PB(Len(v) - 1) <= Value(v) /\ Value(v) > 0
<1> DEFINE n == Len(v)
<1>1. v \in Arrays /\ n \in Nat /\ Value(v) \in Nat /\ Value(v) = V(v, n) BY NumbersAre
<1>2. \A i \in 1..n : v[i] \in 0..Base - 1 /\ v[i] \in Int BY <1>1, ArraysAre
<1>3. Value(v) < PB(n)
  <2>1. V(v, n) \in 0..PB(n) - 1 BY <1>1, <1>2, VBound
  <2>2. PB(n) \in Nat BY <1>1, PBIs
  <2> QED BY <1>1, <2>1, <2>2
<1>4. v = <<>> => Value(v) = 0
  <2>1. v = <<>> => n = 0 OBVIOUS
  <2> QED BY <1>1, <2>1, VType
<1>5. ASSUME v # <<>> PROVE n \in Nat \ {0} /\ PB(n - 1) <= Value(v) /\ Value(v) > 0
  <2>1. n # 0
    <3>1. v \in Seq(Int) BY <1>1, ArraysAre
    <3> QED BY <1>5, <3>1, EmptySeq
  <2>2. v[n] # 0 BY <1>5 DEF Numbers
  <2> HIDE DEF n
  <2>3. n - 1 \in Nat /\ n \in 1..n /\ (n - 1) + 1 = n BY <1>1, <2>1
  <2>4. v[n] \in Nat \ {0} /\ v[n] \in Int BY <1>2, <2>2, <2>3, BaseIs
  <2>5. V(v, n) = V(v, n - 1) + v[n] * PB(n - 1) BY <2>3, <2>4, VNext
  <2>6. V(v, n - 1) \in 0..PB(n - 1) - 1
    <3>1. \A i \in 1..n - 1 : i \in 1..n BY <1>1
    <3> QED BY <1>2, <2>3, <3>1, VBound
  <2>7. PB(n - 1) \in Nat \ {0} BY <2>3, PBIs
  <2>8. v[n] * PB(n - 1) >= PB(n - 1) BY <2>4, <2>7
  <2>9. v[n] * PB(n - 1) \in Int BY <2>4, <2>7
  <2> QED BY <1>1, <2>1, <2>5, <2>6, <2>7, <2>8, <2>9
<1> QED BY <1>3, <1>4, <1>5

(* Without zeros above, the longer number is the greater.                  *)
LEMMA LongerIsMore ==
  ASSUME NEW a \in Numbers, NEW b \in Numbers, Len(a) < Len(b)
  PROVE  Value(a) < Value(b)
<1>1. Len(a) \in Nat /\ Len(b) \in Nat /\ Value(a) \in Nat /\ Value(b) \in Nat BY NumbersAre
<1>2. b # <<>> BY <1>1
<1>3. Value(a) < PB(Len(a)) BY Bounds
<1>4. PB(Len(b) - 1) <= Value(b) BY <1>2, Bounds
<1>5. Len(b) - 1 \in Nat /\ Len(a) <= Len(b) - 1 BY <1>1
<1>6. PB(Len(a)) <= PB(Len(b) - 1) BY <1>1, <1>5, PBGrows
<1>7. PB(Len(a)) \in Nat BY <1>1, PBIs
<1>8. PB(Len(b) - 1) \in Nat BY <1>5, PBIs
<1> QED BY <1>1, <1>3, <1>4, <1>6, <1>7, <1>8

(* isLess orders numbers as their values, and numbers that differ have     *)
(* values that differ: the comparison of arrays word by word is that of    *)
(* integers.                                                               *)
THEOREM IsLessIs ==
  ASSUME NEW a \in Numbers, NEW b \in Numbers
  PROVE  /\ isLess(a, b) <=> Value(a) < Value(b)
         /\ a = b <=> Value(a) = Value(b)
<1> DEFINE n == Len(a)
<1>1. a \in Arrays /\ b \in Arrays /\ n \in Nat /\ Len(b) \in Nat BY NumbersAre
<1>2. Value(a) \in Nat /\ Value(b) \in Nat /\ Value(a) = V(a, n) /\ Value(b) = V(b, Len(b))
  BY NumbersAre
<1>3. CASE n # Len(b)
  <2>1. n < Len(b) => Value(a) < Value(b) BY LongerIsMore
  <2>2. Len(b) < n => Value(b) < Value(a) BY LongerIsMore
  <2>3. isLess(a, b) <=> n < Len(b) BY <1>3 DEF isLess
  <2>4. a # b BY <1>3
  <2> QED BY <1>1, <1>2, <1>3, <2>1, <2>2, <2>3, <2>4
<1>4. CASE n = Len(b)
  <2>1. /\ DOMAIN a = 1..n /\ a = [i \in 1..n |-> a[i]] /\ b = [i \in 1..n |-> b[i]]
        /\ \A i \in 1..n : a[i] \in Int /\ b[i] \in Int
    <3>1. DOMAIN a = 1..n /\ a = [i \in 1..n |-> a[i]] /\ \A i \in 1..n : a[i] \in Int
      BY <1>1, ArraysAre
    <3>2. b = [i \in 1..n |-> b[i]] /\ \A i \in 1..n : b[i] \in Int BY <1>1, <1>4, ArraysAre
    <3> QED BY <3>1, <3>2
  <2>2. isLess(a, b) <=> \E i \in 1..n : a[i] < b[i] /\ \A j \in i + 1..n : a[j] = b[j]
    BY <1>4, <2>1 DEF isLess
  <2>3. isLess(a, b) => Value(a) < Value(b)
    <3>1. ASSUME NEW i \in 1..n, a[i] < b[i], \A j \in i + 1..n : a[j] = b[j]
          PROVE  Value(a) < Value(b)
      <4>1. V(a, n) < V(b, n) BY <1>1, <1>4, <3>1, LessAt
      <4> QED BY <1>2, <1>4, <4>1
    <3> QED BY <2>2, <3>1
  <2>4. ASSUME a # b PROVE isLess(a, b) \/ Value(b) < Value(a)
    <3> DEFINE S == {i \in 1..n : a[i] # b[i]}
               k == Max(S)
    <3>1. S # {} BY <2>1, <2>4
    <3>2. S \in SUBSET (0..n) OBVIOUS
    <3>3. k \in S /\ \A s \in S : s <= k
      <4> HIDE DEF S
      <4> QED BY <1>1, <3>1, <3>2, HasGreatest
    <3> HIDE DEF k
    <3>4. k \in 1..n /\ a[k] # b[k] BY <3>3
    <3>5. \A j \in k + 1..n : a[j] = b[j]
      <4> TAKE j \in k + 1..n
      <4>1. j \in 1..n /\ ~(j <= k) BY <1>1, <3>4
      <4> QED BY <3>3, <4>1
    <3>6. CASE a[k] < b[k] BY <2>2, <3>4, <3>5, <3>6
    <3>7. CASE b[k] < a[k]
      <4>1. V(b, n) < V(a, n)
        <5>1. \A j \in k + 1..Len(b) : b[j] = a[j] BY <1>4, <3>5
        <5>2. k \in 1..Len(b) /\ Len(b) = Len(a) BY <1>4, <3>4
        <5>3. V(b, Len(b)) < V(a, Len(b)) BY <1>1, <3>7, <5>1, <5>2, LessAt
        <5> QED BY <1>4, <5>3
      <4> QED BY <1>2, <1>4, <4>1
    <3>8. a[k] \in Int /\ b[k] \in Int BY <2>1, <3>4
    <3> QED BY <3>4, <3>6, <3>7, <3>8
  <2>5. a = b => Value(a) = Value(b) OBVIOUS
  <2> QED BY <1>2, <2>3, <2>4, <2>5
<1> QED BY <1>3, <1>4

-----------------------------------------------------------------------------
(* Differences.                                                            *)

(* Arrays compare as their values, word by word.                           *)
LEMMA VMonotone ==
  ASSUME NEW d, NEW m \in Nat, NEW n \in Nat, m <= n, \A i \in 1..n : d[i] \in Nat
  PROVE  V(d, m) <= V(d, n)
<1> DEFINE T == {k \in Nat : m + k <= n => V(d, m) <= V(d, m + k)}
<1>1. 0 \in T BY VType
<1>2. ASSUME NEW k \in Nat, k \in T PROVE k + 1 \in T
  <2>1. SUFFICES ASSUME m + (k + 1) <= n PROVE V(d, m) <= V(d, m + (k + 1)) OBVIOUS
  <2>2. PICK l \in Nat : l = m + k OBVIOUS
  <2>3. m + (k + 1) = l + 1 /\ l + 1 \in 1..n /\ m + k <= n BY <2>1, <2>2
  <2>4. V(d, m) <= V(d, l) BY <1>2, <2>2, <2>3
  <2>5. d[l + 1] \in Nat /\ d[l + 1] \in Int BY <2>3
  <2>6. V(d, l + 1) = V(d, l) + d[l + 1] * PB(l) BY <2>5, VNext
  <2>7. PB(l) \in Nat BY PBIs
  <2>8. d[l + 1] * PB(l) \in Nat BY <2>5, <2>7
  <2>9. V(d, m) \in Int /\ V(d, l) \in Int BY VType
  <2>10. V(d, m) <= V(d, l + 1) BY <2>4, <2>6, <2>8, <2>9
  <2> QED BY <2>3, <2>10
<1> HIDE DEF T
<1>3. n - m \in Nat /\ m + (n - m) = n OBVIOUS
<1>4. n - m \in T BY <1>1, <1>2, <1>3, NatSetInduction
<1> QED BY <1>3, <1>4 DEF T

(* One word less: the borrow finds a word that is not 0, and the value     *)
(* comes down by the word's weight.                                        *)
LEMMA MinusWordIs ==
  ASSUME NEW n \in Nat, NEW a \in [1..n -> 0..Base - 1], NEW i \in 1..n, NEW w \in 0..Base - 1,
         w * PB(i - 1) <= V(a, n)
  PROVE  /\ MinusWord(a, i, w) \in [1..n -> 0..Base - 1]
         /\ V(MinusWord(a, i, w), n) = V(a, n) - w * PB(i - 1)
<1> DEFINE c == MinusWord(a, i, w)
           S == {k \in i + 1..n : a[k] # 0}
           j == Min(S)
           d == [k \in 1..n |-> c[k] - a[k]]
<1>1. Base \in Nat \ {0, 1} /\ DOMAIN a = 1..n /\ w \in Int
      /\ \A k \in 1..n : a[k] \in 0..Base - 1 /\ a[k] \in Int
  BY BaseIs
<1>2. i \in Nat /\ i - 1 \in Nat /\ (i - 1) + 1 = i /\ i <= n OBVIOUS
<1>3. PB(i - 1) \in Nat \ {0} BY <1>2, PBIs
<1>4. Len(a) = n
  <2>1. a = [k \in 1..n |-> a[k]] /\ \A k \in 1..n : a[k] \in 0..Base - 1 OBVIOUS
  <2> QED BY <2>1, ArrayMade
<1>5. ASSUME c \in [1..n -> 0..Base - 1], V(d, n) = -(w * PB(i - 1))
      PROVE  V(c, n) = V(a, n) - w * PB(i - 1)
  <2> HIDE DEF c
  <2>1. \A k \in 1..n : c[k] \in 0..Base - 1 BY <1>5
  <2>2. \A k \in 1..n : c[k] \in Int /\ d[k] \in Int /\ c[k] = a[k] + d[k] BY <1>1, <2>1
  <2> HIDE DEF d
  <2>3. Sums(a, d, c, n) BY <1>1, <2>2 DEF Sums
  <2>4. V(c, n) = V(a, n) + V(d, n) BY <2>3, VSum
  <2>5. V(a, n) \in Int BY VType
  <2>6. w * PB(i - 1) \in Int BY <1>1, <1>3
  <2> QED BY <1>5, <2>4, <2>5, <2>6
<1>6. CASE a[i] >= w
  <2>1. c = [k \in 1..n |-> IF k = i THEN a[k] - w ELSE a[k]] BY <1>1, <1>6 DEF MinusWord
  <2> HIDE DEF c
  <2>2. c \in [1..n -> 0..Base - 1]
    <3>1. a[i] - w \in 0..Base - 1 BY <1>1, <1>6
    <3> QED BY <1>1, <2>1, <3>1
  <2>3. \A k \in 1..n : d[k] = IF k = i THEN -w ELSE 0
    <3> TAKE k \in 1..n
    <3>1. c[k] = IF k = i THEN a[k] - w ELSE a[k] BY <2>1
    <3>2. d[k] = c[k] - a[k] OBVIOUS
    <3> HIDE DEF d
    <3> QED BY <1>1, <3>1, <3>2
  <2> HIDE DEF d
  <2>4. V(d, n) = V(d, i)
    <3>1. \A k \in i + 1..n : d[k] = 0 BY <1>2, <2>3
    <3> QED BY <1>2, <3>1, VZeros
  <2>5. d[i] = -w /\ d[i] \in Int BY <1>1, <2>3
  <2>6. V(d, i) = V(d, i - 1) + d[i] * PB(i - 1) BY <1>2, <2>5, VNext
  <2>7. V(d, i - 1) = 0
    <3>1. \A k \in 0 + 1..i - 1 : d[k] = 0 BY <1>2, <2>3
    <3>2. V(d, i - 1) = V(d, 0) BY <1>2, <3>1, VZeros
    <3> QED BY <3>2, VType
  <2>8. (-w) * PB(i - 1) = -(w * PB(i - 1)) /\ w * PB(i - 1) \in Int BY <1>1, <1>3
  <2>9. V(d, n) = -(w * PB(i - 1)) BY <2>4, <2>5, <2>6, <2>7, <2>8
  <2> QED BY <1>5, <2>2, <2>9 DEF c, d
<1>7. CASE a[i] < w
  <2>1. S # {}
    <3>1. SUFFICES ASSUME S = {} PROVE FALSE OBVIOUS
    <3>2. \A k \in i + 1..n : a[k] = 0 BY <3>1
    <3>3. V(a, n) = V(a, i) BY <1>2, <3>2, VZeros
    <3>4. V(a, i) = V(a, i - 1) + a[i] * PB(i - 1) BY <1>1, <1>2, VNext
    <3>5. V(a, i - 1) \in 0..PB(i - 1) - 1
      <4>1. \A k \in 1..i - 1 : k \in 1..n BY <1>2
      <4>2. \A k \in 1..i - 1 : a[k] \in 0..Base - 1 BY <1>1, <4>1
      <4> QED BY <1>2, <4>2, VBound
    <3> DEFINE p == PB(i - 1) u == V(a, i - 1) g == a[i]
    <3>6. p \in Nat \ {0} /\ u \in 0..p - 1 /\ g \in Nat /\ w \in Nat /\ g + 1 <= w /\ w * p <= u + g * p
      BY <1>1, <1>3, <1>7, <3>3, <3>4, <3>5
    <3> HIDE DEF p, u, g
    <3>7. (g + 1) * p <= w * p /\ (g + 1) * p = g * p + p /\ g * p \in Int BY <3>6
    <3> QED BY <3>6, <3>7
  <2>2. j \in S /\ \A s \in S : j <= s
    <3>1. S \in SUBSET Nat BY <1>2
    <3> HIDE DEF S
    <3> QED BY <2>1, <3>1, HasLeast
  <2> HIDE DEF j
  <2>3. j \in i + 1..n /\ a[j] # 0 /\ j \in Nat BY <1>2, <2>2
  <2>4. \A k \in i + 1..j - 1 : a[k] = 0 /\ k \in 1..n
    <3> TAKE k \in i + 1..j - 1
    <3>1. k \in i + 1..n /\ ~(j <= k) /\ k \in 1..n BY <1>2, <2>3
    <3> QED BY <2>2, <3>1
  <2>5. c = [k \in 1..n |-> IF k = i THEN a[k] + Base - w
                            ELSE IF k = j THEN a[k] - 1
                            ELSE IF k \in i + 1..j THEN Base - 1 ELSE a[k]]
    <3>1. ~(a[i] >= w) BY <1>1, <1>7
    <3> QED BY <1>1, <1>4, <3>1, Zenon DEF MinusWord, j
  <2> HIDE DEF c
  <2>6. c \in [1..n -> 0..Base - 1]
    <3>1. a[i] + Base - w \in 0..Base - 1 BY <1>1, <1>7
    <3>2. a[j] - 1 \in 0..Base - 1 BY <1>1, <1>2, <2>3
    <3>3. Base - 1 \in 0..Base - 1 BY <1>1
    <3> QED BY <1>1, <2>5, <3>1, <3>2, <3>3
  <2>7. \A k \in 1..n : d[k] = IF k = i THEN Base - w ELSE IF k = j THEN -1
                               ELSE IF k \in i + 1..j THEN Base - 1 ELSE 0
    <3> TAKE k \in 1..n
    <3>1. d[k] = c[k] - a[k] OBVIOUS
    <3> HIDE DEF d
    <3>2. CASE k = i
      <4>1. c[k] = a[k] + Base - w BY <2>5, <3>2
      <4> QED BY <1>1, <3>1, <3>2, <4>1
    <3>3. CASE k # i /\ k = j
      <4>1. c[k] = a[k] - 1 BY <2>5, <3>3
      <4> QED BY <1>1, <3>1, <3>3, <4>1
    <3>4. CASE k # i /\ k # j /\ k \in i + 1..j
      <4>1. c[k] = Base - 1 BY <2>5, <3>4
      <4>2. k \in i + 1..j - 1 BY <1>2, <2>3, <3>4
      <4>3. a[k] = 0 BY <2>4, <4>2
      <4> QED BY <1>1, <3>1, <3>4, <4>1, <4>3
    <3>5. CASE k # i /\ k # j /\ k \notin i + 1..j
      <4>1. c[k] = a[k] BY <2>5, <3>5
      <4> QED BY <1>1, <3>1, <3>5, <4>1
    <3> QED BY <3>2, <3>3, <3>4, <3>5
  <2> HIDE DEF d
  <2>8. V(d, i - 1) = 0
    <3>1. \A k \in 0 + 1..i - 1 : d[k] = 0
      <4> TAKE k \in 0 + 1..i - 1
      <4>1. k \in 1..n /\ k # i /\ k # j /\ k \notin i + 1..j BY <1>2, <2>3
      <4> QED BY <2>7, <4>1
    <3>2. V(d, i - 1) = V(d, 0) BY <1>2, <3>1, VZeros
    <3> QED BY <3>2, VType
  <2> DEFINE q == w * PB(i - 1)
             T == {k \in Nat : i + k < j => V(d, i + k) = PB(i + k) - q}
  <2>9. q \in Int BY <1>1, <1>3
  <2>10. 0 \in T
    <3>1. d[i] = Base - w /\ d[i] \in Int BY <1>1, <2>7
    <3>2. V(d, i) = V(d, i - 1) + d[i] * PB(i - 1) BY <1>2, <3>1, VNext
    <3>3. PB(i) = Base * PB(i - 1) BY <1>2, PBNext
    <3>4. (Base - w) * PB(i - 1) = Base * PB(i - 1) - w * PB(i - 1)
      <4>1. \A e, f, g \in Int : (e - f) * g = e * g - f * g OBVIOUS
      <4> QED BY <1>1, <1>3, <4>1
    <3>5. Base * PB(i - 1) \in Int BY <1>1, <1>3
    <3>6. i + 0 = i OBVIOUS
    <3> QED BY <2>8, <2>9, <3>1, <3>2, <3>3, <3>4, <3>5, <3>6
  <2>11. ASSUME NEW k \in Nat, k \in T PROVE k + 1 \in T
    <3>1. SUFFICES ASSUME i + (k + 1) < j PROVE V(d, i + (k + 1)) = PB(i + (k + 1)) - q OBVIOUS
    <3>2. PICK l \in Nat : l = i + k BY <1>2
    <3>3. /\ i + (k + 1) = l + 1 /\ l + 1 \in 1..n /\ l + 1 # i /\ l + 1 # j
          /\ l + 1 \in i + 1..j /\ l < j
      BY <1>2, <2>3, <3>1, <3>2
    <3>4. d[l + 1] = Base - 1 /\ d[l + 1] \in Int BY <1>1, <2>7, <3>3
    <3>5. V(d, l + 1) = V(d, l) + d[l + 1] * PB(l) BY <3>4, VNext
    <3>6. PB(l + 1) = Base * PB(l) BY PBNext
    <3>7. V(d, l) = PB(l) - q BY <2>11, <3>2, <3>3
    <3>8. PB(l) \in Int BY PBIs
    <3>9. (Base - 1) * PB(l) = Base * PB(l) - PB(l) /\ Base * PB(l) \in Int
      <4>1. \A e, g \in Int : (e - 1) * g = e * g - g /\ e * g \in Int OBVIOUS
      <4>2. Base \in Int BY <1>1
      <4> QED BY <3>8, <4>1, <4>2
    <3>10. V(d, l + 1) = PB(l + 1) - q
      <4> HIDE DEF q
      <4> QED BY <2>9, <3>4, <3>5, <3>6, <3>7, <3>8, <3>9
    <3> QED BY <3>3, <3>10
  <2> HIDE DEF T
  <2>12. \A k \in Nat : k \in T BY <2>10, <2>11, NatSetInduction
  <2>13. V(d, j - 1) = PB(j - 1) - q
    <3>1. (j - 1) - i \in Nat /\ i + ((j - 1) - i) = j - 1 /\ j - 1 < j BY <1>2, <2>3
    <3>2. PICK k \in Nat : k = (j - 1) - i BY <3>1
    <3> QED BY <2>12, <3>1, <3>2 DEF T
  <2>14. j - 1 \in Nat /\ (j - 1) + 1 = j /\ j \in 1..n /\ j # i /\ j <= n BY <1>2, <2>3
  <2>15. d[j] = -1 /\ d[j] \in Int BY <2>7, <2>14
  <2>16. V(d, j) = V(d, j - 1) + d[j] * PB(j - 1) BY <2>14, <2>15, VNext
  <2>17. PB(j - 1) \in Int BY <2>14, PBIs
  <2>18. V(d, j) = -q
    <3> HIDE DEF q
    <3>1. (-1) * PB(j - 1) = -PB(j - 1) BY <2>17
    <3> QED BY <2>9, <2>13, <2>15, <2>16, <2>17, <3>1
  <2>19. V(d, n) = V(d, j)
    <3>1. \A k \in j + 1..n : d[k] = 0
      <4> TAKE k \in j + 1..n
      <4>1. k \in 1..n /\ k # i /\ k # j /\ k \notin i + 1..j BY <1>2, <2>3
      <4> QED BY <2>7, <4>1
    <3> QED BY <2>14, <3>1, VZeros
  <2> QED BY <1>5, <2>6, <2>18, <2>19 DEF c, d
<1> QED BY <1>1, <1>6, <1>7 DEF c

(* The subtraction, a word of b at a time.                                 *)
LEMMA SubtractUnfolds ==
  ASSUME NEW a \in Arrays, NEW b \in Arrays
  PROVE  \E rest \in [0..Len(b) -> [1..Len(a) -> Int]] :
           /\ rest[0] = a
           /\ \A i \in 1..Len(b) : rest[i] = MinusWord(rest[i - 1], i, b[i])
           /\ subtract(a, b) = cleanup(rest[Len(b)])
<1> DEFINE n == Len(a)
           m == Len(b)
<1>0. n \in Nat /\ m \in Nat /\ a \in [1..n -> Int] /\ \A i \in 1..m : b[i] \in Int
  <2>1. a = [i \in 1..n |-> a[i]] /\ \A i \in 1..n : a[i] \in Int BY ArraysAre
  <2> QED BY <2>1, ArraysAre
<1> HIDE DEF n, m
<1> DEFINE D == [1..n -> Int]
           F == [p \in (1..m) \X D |-> MinusWord(p[2], p[1], b[p[1]])]
           Is(f) == f = [i \in 0..Len(b) |-> IF i = 0 THEN a ELSE MinusWord(f[i - 1], i, b[i])]
           rest == CHOOSE f : Is(f)
<1>1. \A i \in 1..m, e \in D : F[<<i, e>>] = MinusWord(e, i, b[i]) OBVIOUS
<1>2. \A i \in 1..m, e \in D : MinusWord(e, i, b[i]) \in D
  <2> TAKE i \in 1..m, e \in D
  <2>1. Base \in Int /\ b[i] \in Int /\ DOMAIN e = 1..n /\ \A k \in 1..n : e[k] \in Int BY <1>0, BaseIs
  <2>2. \A k \in 1..n : e[k] - b[i] \in Int /\ e[k] + Base - b[i] \in Int /\ e[k] - 1 \in Int
                        /\ Base - 1 \in Int
    BY <2>1
  <2>3. CASE e[i] >= b[i] BY <2>1, <2>2, <2>3 DEF MinusWord
  <2>4. CASE ~(e[i] >= b[i])
    <3> DEFINE j == Min({k \in i + 1..Len(e) : e[k] # 0})
    <3>1. MinusWord(e, i, b[i])
            = [k \in DOMAIN e |-> IF k = i THEN e[k] + Base - b[i]
                                  ELSE IF k = j THEN e[k] - 1
                                  ELSE IF k \in i + 1..j THEN Base - 1 ELSE e[k]]
      BY <2>4, Zenon DEF MinusWord
    <3> HIDE DEF j
    <3> QED BY <2>1, <2>2, <3>1
  <2> QED BY <2>3, <2>4
<1>3. a \in D BY <1>0
<1> HIDE DEF F, D
<1>4. PICK f \in [0..m -> D] : Recursive(f, 0..m, a, F)
  <2>1. \A i \in 1..m, e \in D : F[<<i, e>>] \in D BY <1>1, <1>2
  <2> QED BY <1>0, <1>3, <2>1, Recursion, Zenon
<1>5. Is(f)
  <2>1. \A i \in 0..m : i # 0 => i \in 1..m /\ i - 1 \in 0..m BY <1>0
  <2>2. \A i \in 0..m : f[i] = IF i = 0 THEN a ELSE MinusWord(f[i - 1], i, b[i])
    BY <1>1, <1>4, <2>1 DEF Recursive
  <2>3. f = [i \in 0..m |-> f[i]] BY <1>4
  <2> QED BY <2>2, <2>3 DEF m
<1>6. Is(rest) BY <1>5
<1>7. subtract(a, b) = cleanup(rest[Len(b)]) BY Zenon DEF subtract
<1> HIDE DEF rest
<1>8. rest[0] = a /\ \A i \in 1..m : rest[i] = MinusWord(rest[i - 1], i, b[i])
  BY <1>0, <1>6 DEF m
<1>9. rest \in [0..m -> D]
  <2>1. \A i \in 1..m : rest[i - 1] \in D => rest[i] \in D BY <1>2, <1>8
  <2>2. \A i \in 0..m : rest[i] \in D BY <1>0, <1>3, <1>8, <2>1, Stays
  <2>3. rest = [i \in 0..m |-> rest[i]] BY <1>6 DEF m
  <2> QED BY <2>2, <2>3
<1> QED BY <1>7, <1>8, <1>9 DEF D, n, m

(* subtract is exact when the second is not greater: every borrow finds a  *)
(* word that it can take from.                                             *)
THEOREM SubtractIs ==
  ASSUME NEW a \in Numbers, NEW b \in Numbers, Value(b) <= Value(a)
  PROVE  subtract(a, b) \in Numbers /\ Value(subtract(a, b)) = Value(a) - Value(b)
<1> DEFINE n == Len(a) m == Len(b) D == [1..n -> 0..Base - 1]
<1>1. a \in Arrays /\ b \in Arrays /\ n \in Nat /\ m \in Nat /\ Value(a) \in Nat /\ Value(b) \in Nat
      /\ Value(a) = V(a, n) /\ Value(b) = V(b, m)
  BY NumbersAre
<1>2. m <= n BY <1>1, LongerIsMore
<1>3. a \in D /\ a \in [1..n -> Int]
  <2>1. a = [i \in 1..n |-> a[i]] /\ \A i \in 1..n : a[i] \in 0..Base - 1 /\ a[i] \in Int
    BY <1>1, ArraysAre
  <2> QED BY <2>1
<1>4. \A i \in 1..m : b[i] \in 0..Base - 1 /\ b[i] \in Int /\ b[i] \in Nat BY <1>1, ArraysAre
<1> HIDE DEF n, m
<1>5. PICK rest \in [0..m -> [1..n -> Int]] :
           /\ rest[0] = a
           /\ \A i \in 1..m : rest[i] = MinusWord(rest[i - 1], i, b[i])
           /\ subtract(a, b) = cleanup(rest[m])
  BY <1>1, SubtractUnfolds DEF n, m
<1> DEFINE T == {k \in Nat : k <= m => rest[k] \in D /\ V(rest[k], n) = V(a, n) - V(b, k)}
<1>6. 0 \in T
  <2>1. V(b, 0) = 0 /\ V(a, n) \in Int BY <1>1, VType
  <2> QED BY <1>3, <1>5, <2>1
<1>7. ASSUME NEW k \in Nat, k \in T PROVE k + 1 \in T
  <2>1. SUFFICES ASSUME k + 1 <= m
                 PROVE  rest[k + 1] \in D /\ V(rest[k + 1], n) = V(a, n) - V(b, k + 1)
    OBVIOUS
  <2>2. k + 1 \in 1..m /\ k + 1 \in 1..n /\ (k + 1) - 1 = k /\ k <= m BY <1>1, <1>2, <2>1
  <2>3. rest[k] \in D /\ V(rest[k], n) = V(a, n) - V(b, k) BY <1>7, <2>2
  <2>4. rest[k + 1] = MinusWord(rest[k], k + 1, b[k + 1]) BY <1>5, <2>2
  <2>5. V(b, k + 1) = V(b, k) + b[k + 1] * PB(k) BY <1>4, <2>2, VNext
  <2>6. V(b, k + 1) <= V(b, m) BY <1>1, <1>4, <2>1, VMonotone
  <2>7. b[k + 1] \in 0..Base - 1 BY <1>4, <2>2
  <2>8. V(a, n) \in Int BY <1>1
  <2>9. V(b, k) \in Int BY VType
  <2>10. b[k + 1] * PB(k) \in Int
    <3>1. PB(k) \in Int BY PBIs
    <3>2. b[k + 1] \in Int BY <1>4, <2>2
    <3> QED BY <3>1, <3>2
  <2>11. V(b, m) <= V(a, n) /\ V(b, m) \in Int BY <1>1
  <2>12. b[k + 1] * PB(k) <= V(rest[k], n) BY <2>3, <2>5, <2>6, <2>8, <2>9, <2>10, <2>11
  <2> DEFINE l == rest[k]
  <2>13. l \in D /\ b[k + 1] * PB((k + 1) - 1) <= V(l, n) BY <2>2, <2>3, <2>12
  <2> HIDE DEF l
  <2>14. /\ MinusWord(l, k + 1, b[k + 1]) \in D
         /\ V(MinusWord(l, k + 1, b[k + 1]), n) = V(l, n) - b[k + 1] * PB((k + 1) - 1)
    BY <1>1, <2>2, <2>7, <2>13, MinusWordIs
  <2>15. rest[k + 1] \in D /\ V(rest[k + 1], n) = V(rest[k], n) - b[k + 1] * PB(k)
    BY <2>2, <2>4, <2>14 DEF l
  <2> QED BY <2>3, <2>5, <2>8, <2>9, <2>10, <2>15
<1> HIDE DEF T
<1>8. m \in T BY <1>1, <1>6, <1>7, NatSetInduction
<1>9. rest[m] \in D /\ V(rest[m], n) = V(a, n) - V(b, m) BY <1>1, <1>8 DEF T
<1> DEFINE l == rest[m]
<1>10. l \in Arrays /\ Len(l) = n
  <2>1. l = [i \in 1..n |-> l[i]] /\ \A i \in 1..n : l[i] \in 0..Base - 1 BY <1>9
  <2> HIDE DEF l
  <2> QED BY <1>1, <2>1, ArrayMade
<1> HIDE DEF l
<1>11. cleanup(l) \in Numbers /\ Value(cleanup(l)) = V(l, n) BY <1>10, CleanupIs
<1> QED BY <1>1, <1>5, <1>9, <1>11 DEF l

-----------------------------------------------------------------------------
(* Products by the school method.                                          *)

(* Zero is the empty array.                                                *)
LEMMA EmptyIs == <<>> \in Numbers /\ <<>> \in Arrays /\ Len(<<>>) = 0 /\ Value(<<>>) = 0
<1>1. <<>> \in Arrays BY DEF Arrays
<1>2. <<>> \in Numbers BY <1>1 DEF Numbers
<1>3. Value(<<>>) = 0 BY <1>2, Bounds
<1> QED BY <1>1, <1>2, <1>3

(* An array whose highest word is not 0 is a number.                       *)
LEMMA NumberMade ==
  ASSUME NEW v \in Arrays, NEW n, Len(v) = n, v[n] # 0
  PROVE  v \in Numbers
BY DEF Numbers

(* A word times a word, and a carry, is below the base squared.            *)
LEMMA ProductsFit ==
  ASSUME NEW n \in Nat, NEW w \in 0..Base - 1, NEW a, NEW sums,
         \A i \in 1..n : a[i] \in 0..Base - 1 /\ sums[i] = w * a[i]
  PROVE  (\A i \in 1..n : sums[i] \in 0..Sum1) /\ V(sums, n) = w * V(a, n)
<1>1. Base \in Nat \ {0, 1} /\ w \in Int BY BaseIs
<1>2. ASSUME NEW i \in 1..n PROVE sums[i] \in 0..Sum1
  <2> DEFINE g == a[i] b == Base
  <2>1. b \in Nat \ {0, 1} /\ w \in 0..b - 1 /\ g \in 0..b - 1 BY <1>1
  <2> HIDE DEF g, b
  <2>2. w * g \in 0..(b - 1) * b
    <3>1. w * g <= (b - 1) * g BY <2>1
    <3>2. (b - 1) * g <= (b - 1) * b BY <2>1
    <3>3. w * g \in Nat /\ (b - 1) * g \in Nat /\ (b - 1) * b \in Nat BY <2>1
    <3> QED BY <3>1, <3>2, <3>3
  <2> QED BY <2>2 DEF g, b, Sum1
<1>3. Multiples(a, sums, w, n) BY <1>1 DEF Multiples
<1>4. V(sums, n) = w * V(a, n) BY <1>1, <1>3, VTimes
<1> QED BY <1>2, <1>4

(* The product with a word is exact, and a number.                         *)
LEMMA MultiplyWordIs ==
  ASSUME NEW a \in Numbers, NEW w \in 0..Base - 1
  PROVE  multiplyWord(a, w) \in Numbers /\ Value(multiplyWord(a, w)) = Value(a) * w
<1> DEFINE n == Len(a)
           sums == [i \in DOMAIN a |-> a[i] * w]
           r == Carried(sums)
<1>1. a \in Arrays /\ n \in Nat /\ Value(a) \in Nat /\ Value(a) = V(a, n) /\ Base \in Nat \ {0, 1}
      /\ w \in Nat
  BY NumbersAre, BaseIs
<1>2. CASE a = <<>> \/ w = 0
  <2>1. multiplyWord(a, w) = <<>> BY <1>2 DEF multiplyWord
  <2>2. Value(a) * w = 0 BY <1>1, <1>2, EmptyIs
  <2> QED BY <2>1, <2>2, EmptyIs
<1>3. CASE ~(a = <<>> \/ w = 0)
  <2>1. multiplyWord(a, w) = IF Last(r) > 0 THEN r ELSE Front(r) BY <1>3 DEF multiplyWord
  <2>2. DOMAIN a = 1..n /\ \A i \in 1..n : a[i] \in 0..Base - 1 /\ a[i] \in Int BY <1>1, ArraysAre
  <2>3. n \in Nat \ {0} /\ PB(n - 1) <= Value(a) BY <1>3, Bounds
  <2> HIDE DEF n
  <2>4. Len(sums) = n BY <1>1, <2>2
  <2>5. \A i \in 1..n : a[i] \in 0..Base - 1 /\ sums[i] = w * a[i] BY <1>1, <2>2
  <2> HIDE DEF sums
  <2>6. (\A i \in 1..n : sums[i] \in 0..Sum1) /\ V(sums, n) = w * V(a, n) BY <1>1, <2>5, ProductsFit
  <2>7. r \in Arrays /\ Len(r) = n + 1 /\ V(r, n + 1) = V(sums, n) BY <1>1, <2>4, <2>6, CarriedIs
  <2> HIDE DEF r
  <2>8. \A i \in 1..n + 1 : r[i] \in 0..Base - 1 /\ r[i] \in Int BY <2>7, ArraysAre
  <2>9. Last(r) = r[n + 1] BY <2>7 DEF Last
  <2>10. r[n + 1] \in Nat BY <1>1, <2>8
  <2>11. V(r, n + 1) = Value(a) * w BY <1>1, <2>6, <2>7
  <2>12. CASE r[n + 1] > 0
    <3>1. r \in Numbers BY <2>7, <2>12, NumberMade
    <3>2. Value(r) = V(r, n + 1) BY <2>7, <3>1, NumbersAre
    <3> QED BY <2>1, <2>9, <2>11, <2>12, <3>1, <3>2
  <2>13. CASE ~(r[n + 1] > 0)
    <3> DEFINE f == Front(r)
    <3>1. multiplyWord(a, w) = f BY <2>1, <2>9, <2>13
    <3>2. f = [i \in 1..n |-> f[i]] /\ \A i \in 1..n : f[i] = r[i]
      <4>1. f = SubSeq(r, 1, n) BY <1>1, <2>7 DEF Front
      <4>2. SubSeq(r, 1, n) = [i \in 1..n |-> r[i]] BY <1>1, <2>7, SubSeqProperties
      <4> HIDE DEF f
      <4> QED BY <4>1, <4>2
    <3> HIDE DEF f
    <3>3. \A i \in 1..n : f[i] \in 0..Base - 1 /\ f[i] = r[i] /\ f[i] \in Int
      <4>1. \A i \in 1..n : i \in 1..n + 1 BY <1>1
      <4> QED BY <2>8, <3>2, <4>1
    <3>4. f \in Arrays /\ Len(f) = n BY <1>1, <3>2, <3>3, ArrayMade
    <3>5. V(f, n) = V(r, n) BY <1>1, <3>3, VExt
    <3>6. V(r, n + 1) = V(r, n)
      <4>1. \A i \in n + 1..n + 1 : r[i] = 0 BY <1>1, <2>10, <2>13
      <4>2. n + 1 \in Nat /\ n <= n + 1 BY <1>1
      <4> QED BY <1>1, <4>1, <4>2, VZeros
    <3>7. f[n] # 0
      <4>1. SUFFICES ASSUME f[n] = 0 PROVE FALSE OBVIOUS
      <4>2. n - 1 \in Nat /\ n - 1 <= n BY <2>3
      <4>3. \A i \in (n - 1) + 1..n : f[i] = 0 BY <2>3, <4>1
      <4>4. V(f, n) = V(f, n - 1) BY <1>1, <4>2, <4>3, VZeros
      <4>5. \A i \in 1..n - 1 : f[i] \in 0..Base - 1
        <5>1. \A i \in 1..n - 1 : i \in 1..n BY <2>3
        <5> QED BY <3>3, <5>1
      <4>6. V(f, n - 1) \in 0..PB(n - 1) - 1 BY <4>2, <4>5, VBound
      <4>7. PB(n - 1) \in Nat BY <4>2, PBIs
      <4>8. Value(a) <= Value(a) * w
        <5>1. w >= 1 BY <1>1, <1>3
        <5>2. \A u \in Nat : \A q \in Nat : q >= 1 => u <= u * q OBVIOUS
        <5> QED BY <1>1, <5>1, <5>2
      <4> QED BY <1>1, <2>3, <2>11, <3>5, <3>6, <4>4, <4>6, <4>7, <4>8
    <3>8. f \in Numbers BY <3>4, <3>7, NumberMade
    <3>9. Value(f) = V(f, n) BY <3>4, <3>8, NumbersAre
    <3> QED BY <2>11, <3>1, <3>5, <3>6, <3>8, <3>9
  <2> QED BY <2>12, <2>13
<1> QED BY <1>2, <1>3

(* One row of the school method.                                           *)
LEMMA RowIs ==
  ASSUME NEW b \in Arrays, NEW w \in 0..Base - 1
  PROVE  /\ Carried([j \in DOMAIN b |-> w * b[j]]) \in Arrays
         /\ V(Carried([j \in DOMAIN b |-> w * b[j]]), Len(Carried([j \in DOMAIN b |-> w * b[j]])))
              = w * V(b, Len(b))
<1> DEFINE n == Len(b)
           sums == [j \in DOMAIN b |-> w * b[j]]
<1>1. n \in Nat /\ DOMAIN b = 1..n /\ \A i \in 1..n : b[i] \in 0..Base - 1 BY ArraysAre
<1> HIDE DEF n
<1>2. Len(sums) = n BY <1>1
<1>3. \A i \in 1..n : b[i] \in 0..Base - 1 /\ sums[i] = w * b[i] BY <1>1
<1> HIDE DEF sums
<1>4. (\A i \in 1..n : sums[i] \in 0..Sum1) /\ V(sums, n) = w * V(b, n) BY <1>1, <1>3, ProductsFit
<1>5. Carried(sums) \in Arrays /\ Len(Carried(sums)) = n + 1 /\ V(Carried(sums), n + 1) = V(sums, n)
  BY <1>1, <1>2, <1>4, CarriedIs
<1>6. Carried(sums) \in Arrays /\ V(Carried(sums), Len(Carried(sums))) = w * V(b, n) BY <1>4, <1>5
<1> QED BY <1>6 DEF sums, n

(* The rows, added up.                                                     *)
LEMMA ProductUnfolds ==
  ASSUME NEW a \in Arrays, NEW b \in Arrays, a # <<>>, b # <<>>
  PROVE  \E sum \in [0..Len(a) -> Numbers] :
           /\ sum[0] = <<>>
           /\ \A i \in 1..Len(a) :
                 sum[i] = add(sum[i - 1], Carried([j \in DOMAIN b |-> a[i] * b[j]]), i - 1)
           /\ multiplyNaive(a, b) = sum[Len(a)]
<1> DEFINE n == Len(a)
           D == Numbers
           Row(i) == Carried([j \in DOMAIN b |-> a[i] * b[j]])
           F == [p \in (1..n) \X D |-> add(p[2], Row(p[1]), p[1] - 1)]
           Is(f) == f = [i \in 0..Len(a) |-> IF i = 0 THEN <<>> ELSE add(f[i - 1], Row(i), i - 1)]
           sum == CHOOSE f : Is(f)
<1>1. n \in Nat /\ \A i \in 1..n : a[i] \in 0..Base - 1 BY ArraysAre
<1>2. \A i \in 1..n, e \in D : F[<<i, e>>] = add(e, Row(i), i - 1) OBVIOUS
<1>3. \A i \in 1..n, e \in D : add(e, Row(i), i - 1) \in D
  <2> TAKE i \in 1..n, e \in D
  <2>1. i - 1 \in Nat /\ e \in Arrays BY DEF Numbers
  <2>2. Row(i) \in Arrays
    <3>1. a[i] \in 0..Base - 1 BY <1>1
    <3> QED BY <3>1, RowIs
  <2> HIDE DEF Row
  <2> QED BY <2>1, <2>2, AddIs
<1>4. <<>> \in D BY EmptyIs
<1>5. multiplyNaive(a, b) = sum[Len(a)] BY Zenon DEF multiplyNaive
<1> HIDE DEF F, D, n, Row
<1>6. PICK f \in [0..n -> D] : Recursive(f, 0..n, <<>>, F)
  <2>1. \A i \in 1..n, e \in D : F[<<i, e>>] \in D BY <1>2, <1>3
  <2> QED BY <1>1, <1>4, <2>1, Recursion, Zenon
<1>7. Is(f)
  <2>1. \A i \in 0..n : i # 0 => i \in 1..n /\ i - 1 \in 0..n BY <1>1
  <2>2. \A i \in 0..n : f[i] = IF i = 0 THEN <<>> ELSE add(f[i - 1], Row(i), i - 1)
    BY <1>2, <1>6, <2>1 DEF Recursive
  <2>3. f = [i \in 0..n |-> f[i]] BY <1>6
  <2> QED BY <2>2, <2>3 DEF n
<1>8. Is(sum) BY <1>7
<1> HIDE DEF sum
<1>9. sum[0] = <<>> /\ \A i \in 1..n : sum[i] = add(sum[i - 1], Row(i), i - 1)
  BY <1>1, <1>8 DEF n
<1>10. sum \in [0..n -> D]
  <2>1. \A i \in 1..n : sum[i - 1] \in D => sum[i] \in D BY <1>3, <1>9
  <2>2. \A i \in 0..n : sum[i] \in D BY <1>1, <1>4, <1>9, <2>1, Stays
  <2>3. sum = [i \in 0..n |-> sum[i]] BY <1>8 DEF n
  <2> QED BY <2>2, <2>3
<1> QED BY <1>5, <1>9, <1>10 DEF D, n, Row

(* The school method is exact.                                             *)
LEMMA MultiplyNaiveIs ==
  ASSUME NEW a \in Arrays, NEW b \in Arrays
  PROVE  /\ multiplyNaive(a, b) \in Numbers
         /\ Value(multiplyNaive(a, b)) = V(a, Len(a)) * V(b, Len(b))
<1> DEFINE n == Len(a) t == V(b, Len(b))
<1>1. n \in Nat /\ Len(b) \in Nat /\ \A i \in 1..n : a[i] \in 0..Base - 1 /\ a[i] \in Int BY ArraysAre
<1>2. t \in Int /\ V(a, n) \in Int /\ V(a, 0) = 0 BY <1>1, VType
<1>3. CASE a = <<>> \/ b = <<>>
  <2>1. multiplyNaive(a, b) = <<>> BY <1>3 DEF multiplyNaive
  <2>2. V(a, n) = 0 \/ t = 0
    <3>1. n = 0 \/ Len(b) = 0 BY <1>3, EmptyIs
    <3> QED BY <3>1, VType
  <2> HIDE DEF t, n
  <2>3. V(a, n) * t = 0 BY <1>2, <2>2
  <2> QED BY <2>1, <2>3, EmptyIs DEF t, n
<1>4. CASE a # <<>> /\ b # <<>>
  <2> HIDE DEF n, t
  <2>1. PICK sum \in [0..n -> Numbers] :
           /\ sum[0] = <<>>
           /\ \A i \in 1..n :
                 sum[i] = add(sum[i - 1], Carried([j \in DOMAIN b |-> a[i] * b[j]]), i - 1)
           /\ multiplyNaive(a, b) = sum[n]
    BY <1>4, ProductUnfolds DEF n
  <2> DEFINE T == {k \in Nat : k <= n => Value(sum[k]) = V(a, k) * t}
  <2>2. 0 \in T BY <1>2, <2>1, EmptyIs
  <2>3. ASSUME NEW k \in Nat, k \in T PROVE k + 1 \in T
    <3>1. SUFFICES ASSUME k + 1 <= n PROVE Value(sum[k + 1]) = V(a, k + 1) * t OBVIOUS
    <3>2. k + 1 \in 1..n /\ (k + 1) - 1 = k /\ k <= n /\ k \in 0..n BY <1>1, <3>1
    <3> DEFINE row == Carried([j \in DOMAIN b |-> a[k + 1] * b[j]])
    <3>3. sum[k + 1] = add(sum[k], row, k) BY <2>1, <3>2
    <3>4. row \in Arrays /\ V(row, Len(row)) = a[k + 1] * t
      <4>1. a[k + 1] \in 0..Base - 1 BY <1>1, <3>2
      <4> QED BY <4>1, RowIs DEF t
    <3> HIDE DEF row
    <3>5. sum[k] \in Numbers BY <2>1, <3>2
    <3>6. sum[k] \in Arrays /\ Value(sum[k]) = V(sum[k], Len(sum[k])) BY <3>5, NumbersAre
    <3>7. Value(add(sum[k], row, k)) = V(sum[k], Len(sum[k])) + PB(k) * V(row, Len(row))
      BY <3>4, <3>6, AddIs
    <3>8. Value(sum[k]) = V(a, k) * t BY <2>3, <3>2
    <3>9. V(a, k + 1) = V(a, k) + a[k + 1] * PB(k) /\ a[k + 1] \in Int
      <4>1. a[k + 1] \in Int BY <1>1, <3>2
      <4> QED BY <4>1, VNext
    <3>10. Value(sum[k + 1]) = V(a, k) * t + PB(k) * (a[k + 1] * t)
      BY <3>3, <3>4, <3>6, <3>7, <3>8
    <3>11. PB(k) \in Int BY PBIs
    <3>12. V(a, k) \in Int BY VType
    <3> DEFINE u == V(a, k) p == PB(k) g == a[k + 1]
    <3>13. u \in Int /\ p \in Int /\ g \in Int BY <3>9, <3>11, <3>12
    <3> HIDE DEF u, p, g
    <3>14. u * t + p * (g * t) = (u + g * p) * t BY <1>2, <3>13
    <3> QED BY <3>9, <3>10, <3>14 DEF u, p, g
  <2> HIDE DEF T
  <2>4. n \in T BY <1>1, <2>2, <2>3, NatSetInduction
  <2>5. Value(sum[n]) = V(a, n) * t BY <1>1, <2>4 DEF T
  <2>6. sum[n] \in Numbers BY <1>1, <2>1
  <2> QED BY <2>1, <2>5, <2>6 DEF n, t
<1> QED BY <1>3, <1>4

-----------------------------------------------------------------------------
(* Quotients. The guess of a digit from the leading words.                 *)

(* An array with a word put below it.                                      *)
LEMMA BelowIs ==
  ASSUME NEW w \in 0..Base - 1, NEW v \in Arrays
  PROVE  /\ <<w>> \o v \in Arrays /\ Len(<<w>> \o v) = Len(v) + 1
         /\ V(<<w>> \o v, Len(v) + 1) = V(v, Len(v)) * Base + w
         /\ (<<w>> \o v)[Len(v) + 1] = IF v = <<>> THEN w ELSE v[Len(v)]
<1> DEFINE n == Len(v) e == <<w>> \o v
<1>1. n \in Nat /\ v \in Seq(0..Base - 1) /\ \A i \in 1..n : v[i] \in 0..Base - 1 /\ v[i] \in Int
  BY ArraysAre DEF Arrays
<1>2. Base \in Nat \ {0, 1} /\ w \in Int BY BaseIs
<1>3. <<w>> \in Seq(0..Base - 1) /\ Len(<<w>>) = 1 /\ <<w>>[1] = w OBVIOUS
<1>4. e \in Seq(0..Base - 1) /\ Len(e) = 1 + n
      /\ \A i \in 1..1 + n : e[i] = IF i <= 1 THEN <<w>>[i] ELSE v[i - 1]
  BY <1>1, <1>3, ConcatProperties
<1> HIDE DEF e
<1>5. e[1] = w /\ \A i \in 1..n : e[1 + i] = v[i]
  <2>1. \A i \in 1..n : 1 + i \in 1..1 + n /\ ~(1 + i <= 1) /\ (1 + i) - 1 = i BY <1>1
  <2>2. 1 \in 1..1 + n BY <1>1
  <2> QED BY <1>3, <1>4, <2>1, <2>2
<1> HIDE DEF n
<1>6. V(e, 1 + n) = V(e, 1) + PB(1) * V(v, n)
  <2>1. Follows(v, e, 1, n) BY <1>1, <1>5 DEF Follows
  <2> QED BY <1>1, <2>1, VSplit
<1>7. V(e, 1) = w
  <2>1. e[1] \in Int BY <1>2, <1>5
  <2>2. V(e, 1) = V(e, 0) + e[1] * PB(0) BY <2>1, VNext
  <2>3. V(e, 0) = 0 BY VType
  <2>4. PB(0) = 1 BY PBIs
  <2> QED BY <1>2, <1>5, <2>2, <2>3, <2>4
<1>8. V(v, n) \in Int /\ PB(1) = Base
  <2>1. V(v, n) \in Int BY <1>1, VType
  <2> QED BY <2>1, PBIs
<1>9. V(e, n + 1) = V(v, n) * Base + w
  <2>1. Base * V(v, n) = V(v, n) * Base /\ Base * V(v, n) \in Int BY <1>2, <1>8
  <2>2. n + 1 = 1 + n BY <1>1
  <2> QED BY <1>2, <1>6, <1>7, <1>8, <2>1, <2>2
<1>10. e[n + 1] = IF v = <<>> THEN w ELSE v[n]
  <2>1. CASE v = <<>>
    <3>1. n = 0 BY <2>1 DEF n
    <3> QED BY <1>5, <2>1, <3>1
  <2>2. CASE v # <<>>
    <3>1. n # 0 BY <1>1, <2>2, EmptySeq DEF n
    <3>2. n \in 1..n /\ n + 1 = 1 + n BY <1>1, <3>1
    <3> QED BY <1>5, <2>2, <3>2
  <2> QED BY <2>1, <2>2
<1>11. e \in Arrays /\ Len(e) = n + 1 BY <1>1, <1>4 DEF Arrays
<1> QED BY <1>9, <1>10, <1>11 DEF n, e

(* The next word of the dividend joins the remainder.                      *)
LEMMA BringIs ==
  ASSUME NEW rem \in Numbers, NEW w \in 0..Base - 1
  PROVE  Bring(rem, w) \in Numbers /\ Value(Bring(rem, w)) = Value(rem) * Base + w
<1>1. rem \in Arrays /\ Value(rem) = V(rem, Len(rem)) /\ Value(rem) \in Nat BY NumbersAre
<1>2. CASE rem # <<>> \/ w # 0
  <2> DEFINE e == <<w>> \o rem
  <2>1. Bring(rem, w) = e BY <1>2 DEF Bring
  <2>2. e \in Arrays /\ Len(e) = Len(rem) + 1 /\ V(e, Len(rem) + 1) = V(rem, Len(rem)) * Base + w
        /\ e[Len(rem) + 1] = IF rem = <<>> THEN w ELSE rem[Len(rem)]
    BY <1>1, BelowIs
  <2> HIDE DEF e
  <2>3. e[Len(rem) + 1] # 0 BY <1>2, <2>2 DEF Numbers
  <2>4. e \in Numbers BY <2>2, <2>3, NumberMade
  <2>5. Value(e) = V(e, Len(e)) BY <2>4, NumbersAre
  <2> QED BY <1>1, <2>1, <2>2, <2>4, <2>5
<1>3. CASE ~(rem # <<>> \/ w # 0)
  <2>1. Bring(rem, w) = rem /\ Value(rem) = 0 /\ w = 0 BY <1>3, EmptyIs DEF Bring
  <2> QED BY <2>1, BaseIs
<1> QED BY <1>2, <1>3

(* What the leading words of a number say of it.                           *)
LEMMA Leading ==
  ASSUME NEW v \in Arrays, NEW k \in 1..Len(v)
  PROVE  /\ v[k] * PB(k - 1) <= V(v, k) /\ V(v, k) < (v[k] + 1) * PB(k - 1)
         /\ V(v, k) = V(v, k - 1) + v[k] * PB(k - 1) /\ V(v, k - 1) \in 0..PB(k - 1) - 1
<1>1. Len(v) \in Nat /\ k - 1 \in Nat /\ (k - 1) + 1 = k /\ v[k] \in Nat /\ v[k] \in Int BY ArraysAre
<1>2. V(v, k) = V(v, k - 1) + v[k] * PB(k - 1) BY <1>1, VNext
<1>3. V(v, k - 1) \in 0..PB(k - 1) - 1
  <2>1. \A i \in 1..k - 1 : i \in 1..Len(v) BY <1>1
  <2>2. \A i \in 1..k - 1 : v[i] \in 0..Base - 1 BY <2>1, ArraysAre
  <2> QED BY <1>1, <2>2, VBound
<1>4. PB(k - 1) \in Nat BY <1>1, PBIs
<1> DEFINE u == V(v, k - 1) p == PB(k - 1) g == v[k]
<1>5. u \in 0..p - 1 /\ p \in Nat /\ g \in Nat BY <1>1, <1>3, <1>4
<1> HIDE DEF u, p, g
<1>6. g * p <= u + g * p /\ u + g * p < (g + 1) * p
  <2>1. (g + 1) * p = g * p + p /\ g * p \in Int BY <1>5
  <2> QED BY <1>5, <2>1
<1> QED BY <1>2, <1>3, <1>6 DEF u, p, g

(* A digit that fits is at most the quotient of the leading words.         *)
LEMMA QuotientFits ==
  ASSUME NEW q \in Nat, NEW top \in Nat \ {0}, NEW lead \in Nat, NEW p \in Nat \ {0},
         NEW b \in Nat, NEW r \in Nat, top * p <= b, r < (lead + 1) * p, q * b <= r
  PROVE  q <= lead \div top
<1>1. q * (top * p) <= q * b
  <2>1. PICK s \in Nat : s = top * p OBVIOUS
  <2>2. q * s <= q * b BY <2>1
  <2> QED BY <2>1, <2>2
<1>2. q * (top * p) = (q * top) * p OBVIOUS
<1>3. (q * top) * p < (lead + 1) * p
  <2>1. (q * top) * p \in Int /\ q * b \in Int /\ (lead + 1) * p \in Int OBVIOUS
  <2> QED BY <1>1, <1>2, <2>1
<1>4. q * top <= lead
  <2>1. PICK s \in Nat : s = q * top OBVIOUS
  <2>2. SUFFICES ASSUME s >= lead + 1 PROVE FALSE BY <2>1
  <2>3. s * p >= (lead + 1) * p BY <2>2
  <2>4. s * p \in Int /\ (lead + 1) * p \in Int OBVIOUS
  <2> QED BY <1>3, <2>1, <2>3, <2>4
<1> DEFINE d == lead \div top
<1>5. d \in Nat /\ lead < (d + 1) * top
  <2>1. lead \div top \in Nat /\ lead % top \in 0..top - 1 /\ lead = top * (lead \div top) + (lead % top)
    OBVIOUS
  <2> DEFINE m == lead % top
  <2>2. d \in Nat /\ m \in 0..top - 1 /\ lead = top * d + m BY <2>1
  <2> HIDE DEF d, m
  <2>3. (d + 1) * top = top * d + top /\ top * d \in Int BY <2>2
  <2> QED BY <2>2, <2>3
<1> HIDE DEF d
<1>6. q <= d
  <2>1. SUFFICES ASSUME q >= d + 1 PROVE FALSE BY <1>5
  <2>2. q * top >= (d + 1) * top BY <1>5, <2>1
  <2>3. q * top \in Int /\ (d + 1) * top \in Int BY <1>5
  <2> QED BY <1>4, <1>5, <2>2, <2>3
<1> QED BY <1>6 DEF d

(* The guessed digit is a word, and never too small.                       *)
LEMMA GuessIs ==
  ASSUME NEW rem \in Numbers, NEW b \in Numbers, b # <<>>,
         Value(rem) < Value(b) * Base, Value(b) <= Value(rem)
  PROVE  Guess(rem, b) \in 0..Base - 1 /\ \A q \in 0..Base - 1 : q * Value(b) <= Value(rem) => q <= Guess(rem, b)
<1> DEFINE m == Len(b) top == b[m] vb == Value(b) vr == Value(rem) r == Len(rem)
<1>1. /\ rem \in Arrays /\ b \in Arrays /\ m \in Nat /\ r \in Nat /\ vb \in Nat /\ vr \in Nat
      /\ vr = V(rem, r) /\ vb = V(b, m) /\ Base \in Nat \ {0, 1}
  BY NumbersAre, BaseIs
<1>2. m \in Nat \ {0} /\ vb < PB(m) BY Bounds
<1>3. top \in Nat \ {0} /\ top * PB(m - 1) <= vb
  <2>1. top # 0 BY DEF Numbers
  <2>2. m \in 1..m BY <1>2
  <2>3. top \in Nat BY <1>1, <2>2, ArraysAre
  <2>4. top * PB(m - 1) <= V(b, m) BY <1>1, <2>2, Leading
  <2> QED BY <1>1, <2>1, <2>3, <2>4
<1>4. PB(m - 1) \in Nat \ {0} BY <1>2, PBIs
<1>5. m <= r
  <2>1. r < m => vr < vb BY LongerIsMore
  <2> QED BY <1>1, <2>1
<1>6. r <= m + 1
  <2>1. SUFFICES ASSUME r >= m + 2 PROVE FALSE BY <1>1
  <2>2. rem # <<>> BY <1>1, <2>1, EmptyIs
  <2>3. PB(r - 1) <= vr BY <2>2, Bounds
  <2>4. PB(m + 1) <= PB(r - 1)
    <3>1. m + 1 \in Nat /\ r - 1 \in Nat /\ m + 1 <= r - 1 BY <1>1, <2>1
    <3> QED BY <3>1, PBGrows
  <2>5. PB(m + 1) = Base * PB(m) BY <1>1, PBNext
  <2>6. vb * Base <= Base * PB(m)
    <3>1. PB(m) \in Nat BY <1>1, PBIs
    <3> DEFINE p == PB(m)
    <3>2. p \in Nat /\ vb < p BY <1>2, <3>1
    <3> HIDE DEF p, vb
    <3>3. vb * Base <= p * Base /\ p * Base = Base * p BY <1>1, <3>2
    <3> QED BY <3>3 DEF p
  <2>7. PB(m + 1) \in Int BY <1>1, PBIs
  <2>8. PB(r - 1) \in Int
    <3>1. r - 1 \in Nat BY <1>1, <2>1
    <3> QED BY <3>1, PBIs
  <2>9. vb * Base \in Int BY <1>1
  <2> QED BY <1>1, <2>3, <2>4, <2>5, <2>6, <2>7, <2>8, <2>9
<1>7. Last(b) = top /\ Last(rem) = rem[r] BY DEF Last
<1>8. r \in 1..r /\ rem[r] \in 0..Base - 1
  <2>1. r \in 1..r BY <1>1, <1>2, <1>5
  <2> QED BY <1>1, <2>1, ArraysAre
<1> HIDE DEF m, top, vb, vr, r
<1>9. CASE r = m
  <2> DEFINE lead == rem[r] d == lead \div top
  <2>1. Guess(rem, b) = d BY <1>7, <1>9 DEF Guess, m, r
  <2>2. lead \in Nat /\ lead \in 0..Base - 1 BY <1>1, <1>8
  <2>3. vr < (lead + 1) * PB(m - 1)
    <3>1. V(rem, r) < (rem[r] + 1) * PB(r - 1) BY <1>1, <1>8, Leading DEF r
    <3> QED BY <1>1, <1>9, <3>1
  <2> HIDE DEF lead
  <2>4. d \in 0..Base - 1
    <3>1. d \in Nat /\ d <= lead
      <4>1. lead \div top \in Nat /\ lead % top \in Nat /\ lead = top * (lead \div top) + (lead % top)
        BY <1>3, <2>2
      <4>2. PICK e \in Nat : e = lead \div top BY <4>1
      <4>3. top * e >= e BY <1>3
      <4>4. top * e \in Int BY <1>3
      <4> QED BY <2>2, <4>1, <4>2, <4>3, <4>4
    <3> HIDE DEF d
    <3> QED BY <1>1, <2>2, <3>1
  <2>5. ASSUME NEW q \in 0..Base - 1, q * vb <= vr PROVE q <= d
    <3>1. q \in Nat BY <1>1
    <3> QED BY <1>1, <1>3, <1>4, <2>2, <2>3, <2>5, <3>1, QuotientFits
  <2> QED BY <2>1, <2>4, <2>5 DEF vb, vr
<1>10. CASE r # m
  <2> DEFINE lead == rem[r] * Base + rem[r - 1] d == lead \div top
  <2>0. r = m + 1 BY <1>1, <1>5, <1>6, <1>10
  <2>1. Guess(rem, b) = Min({Base - 1, d}) BY <1>7, <1>10 DEF Guess, m, r
  <2>2. r - 1 \in 1..r /\ r - 1 = m BY <1>2, <2>0
  <2>3. rem[r - 1] \in 0..Base - 1 BY <1>1, <2>2, ArraysAre DEF r
  <2>4. lead \in Nat
    <3>1. rem[r] \in Nat /\ rem[r - 1] \in Nat BY <1>1, <1>8, <2>3
    <3>2. rem[r] * Base \in Nat BY <1>1, <3>1
    <3> QED BY <3>1, <3>2
  <2>5. vr < (lead + 1) * PB(m - 1)
    <3>1. V(rem, r) = V(rem, r - 1) + rem[r] * PB(r - 1) BY <1>1, <1>8, Leading DEF r
    <3>2. V(rem, r - 1) < (rem[r - 1] + 1) * PB((r - 1) - 1) BY <1>1, <2>2, Leading DEF r
    <3>3. PB(r - 1) = Base * PB(m - 1)
      <4>1. m - 1 \in Nat /\ r - 1 = (m - 1) + 1 BY <1>2, <2>0
      <4> QED BY <4>1, PBNext
    <3>4. V(rem, r - 1) \in Int
      <4>1. r - 1 \in Nat BY <1>2, <2>0
      <4> QED BY <4>1, VType
    <3> DEFINE p == PB(m - 1) u == V(rem, r - 1) g == rem[r] h == rem[r - 1]
    <3>5. /\ p \in Nat /\ u \in Int /\ g \in Int /\ h \in Int
          /\ vr = u + g * (Base * p) /\ u < (h + 1) * p
      <4>1. p \in Nat BY <1>4
      <4>2. g \in Int BY <1>1, <1>8
      <4>3. h \in Int BY <1>1, <2>3
      <4>4. (r - 1) - 1 = m - 1 BY <2>2
      <4>5. u < (h + 1) * p BY <3>2, <4>4
      <4>6. vr = u + g * (Base * p) BY <1>1, <1>4, <3>1, <3>3
      <4> QED BY <3>4, <4>1, <4>2, <4>3, <4>5, <4>6
    <3> HIDE DEF p, u, g, h
    <3>6. ((g * Base + h) + 1) * p = g * (Base * p) + (h + 1) * p
      <4>1. \A e, f \in Int : (e + f) * p = e * p + f * p BY <3>5
      <4>2. g * Base \in Int /\ h + 1 \in Int BY <1>1, <3>5
      <4>3. (g * Base + (h + 1)) * p = (g * Base) * p + (h + 1) * p BY <4>1, <4>2
      <4>4. (g * Base) * p = g * (Base * p) BY <1>1, <3>5
      <4>5. (g * Base + h) + 1 = g * Base + (h + 1) BY <3>5, <4>2
      <4> QED BY <4>3, <4>4, <4>5
    <3>7. g * (Base * p) \in Int /\ (h + 1) * p \in Int BY <1>1, <3>5
    <3>8. vr < ((g * Base + h) + 1) * p BY <3>5, <3>6, <3>7
    <3> QED BY <3>8 DEF p, g, h
  <2> HIDE DEF lead
  <2>6. d \in Nat BY <1>3, <2>4
  <2>7. Base - 1 \in Nat BY <1>1
  <2>8. Min({Base - 1, d}) \in {Base - 1, d} /\ Min({Base - 1, d}) <= Base - 1
    <3>1. {Base - 1, d} \in SUBSET Nat /\ {Base - 1, d} # {} BY <2>6, <2>7
    <3> QED BY <3>1, HasLeast
  <2>9. ASSUME NEW q \in 0..Base - 1, q * vb <= vr PROVE q <= d
    <3>1. q \in Nat BY <1>1
    <3> QED BY <1>1, <1>3, <1>4, <2>4, <2>5, <2>9, <3>1, QuotientFits
  <2> HIDE DEF d
  <2>10. Guess(rem, b) \in 0..Base - 1 BY <2>1, <2>6, <2>7, <2>8
  <2>11. \A q \in 0..Base - 1 : q * vb <= vr => q <= Guess(rem, b) BY <1>1, <2>1, <2>8, <2>9
  <2> QED BY <2>10, <2>11 DEF vb, vr
<1> QED BY <1>9, <1>10

(* Products grow with a factor.                                            *)
LEMMA TimesMonotone ==
  ASSUME NEW e \in Nat, NEW f \in Nat, NEW g \in Nat, e <= f
  PROVE  e * g <= f * g /\ e * g \in Nat /\ f * g \in Nat
OBVIOUS

(* The products of b that Corrected goes down through.                     *)
LEMMA MultIs ==
  ASSUME NEW b \in Numbers, NEW digit \in 0..Base - 1,
         NEW mult, mult = CHOOSE f : f = [n \in 0..digit |->
                     IF n = 0 THEN multiplyWord(b, digit) ELSE subtract(f[n - 1], b)]
  PROVE  \A n \in 0..digit : mult[n] \in Numbers /\ Value(mult[n]) = Value(b) * (digit - n)
<1> DEFINE Is(f) == f = [n \in 0..digit |->
                     IF n = 0 THEN multiplyWord(b, digit) ELSE subtract(f[n - 1], b)]
           g == [n \in 0..digit |-> multiplyWord(b, digit - n)]
<1>1. digit \in Nat /\ Base \in Nat /\ Value(b) \in Nat
      /\ \A n \in 0..digit : digit - n \in 0..Base - 1 /\ digit - n \in Nat
  BY BaseIs, NumbersAre
<1>2. \A n \in 0..digit : g[n] \in Numbers /\ Value(g[n]) = Value(b) * (digit - n)
  <2> TAKE n \in 0..digit
  <2>1. PICK w \in 0..Base - 1 : w = digit - n BY <1>1
  <2> QED BY <2>1, MultiplyWordIs
<1>3. ASSUME NEW n \in 1..digit, NEW e \in Numbers, Value(e) = Value(b) * (digit - (n - 1))
      PROVE  subtract(e, b) \in Numbers /\ Value(subtract(e, b)) = Value(b) * (digit - n)
  <2>1. PICK k \in Nat : k = digit - n BY <1>1
  <2>2. digit - (n - 1) = k + 1 BY <1>1, <2>1
  <2>3. Value(b) * (k + 1) = Value(b) * k + Value(b) /\ Value(b) * k \in Nat BY <1>1
  <2>4. Value(b) <= Value(e) /\ Value(e) - Value(b) = Value(b) * k BY <1>1, <1>3, <2>2, <2>3
  <2> QED BY <2>1, <2>4, SubtractIs
<1>4. Is(g)
  <2>1. ASSUME NEW n \in 1..digit PROVE g[n] = subtract(g[n - 1], b)
    <3>1. n \in 0..digit /\ n - 1 \in 0..digit BY <1>1
    <3>2. g[n - 1] \in Numbers /\ Value(g[n - 1]) = Value(b) * (digit - (n - 1)) BY <1>2, <3>1
    <3>3. g[n] \in Numbers /\ Value(g[n]) = Value(b) * (digit - n) BY <1>2, <3>1
    <3> HIDE DEF g
    <3>4. subtract(g[n - 1], b) \in Numbers /\ Value(subtract(g[n - 1], b)) = Value(b) * (digit - n)
      BY <1>3, <3>2
    <3> QED BY <3>3, <3>4, IsLessIs
  <2>2. 0 \in 0..digit /\ digit - 0 = digit BY <1>1
  <2>3. g[0] = multiplyWord(b, digit) BY <2>2
  <2>4. g = [n \in 0..digit |-> g[n]] OBVIOUS
  <2> HIDE DEF g
  <2>5. \A n \in 0..digit : n # 0 => n \in 1..digit BY <1>1
  <2>6. \A n \in 0..digit : g[n] = IF n = 0 THEN multiplyWord(b, digit) ELSE subtract(g[n - 1], b)
    BY <2>1, <2>3, <2>5
  <2> QED BY <2>4, <2>6
<1>5. Is(mult) BY <1>4
<1> DEFINE T == {n \in Nat : n <= digit => mult[n] \in Numbers /\ Value(mult[n]) = Value(b) * (digit - n)}
<1>6. 0 \in T
  <2>1. 0 \in 0..digit /\ digit - 0 = digit BY <1>1
  <2>2. mult[0] = multiplyWord(b, digit) BY <1>5, <2>1
  <2> QED BY <2>1, <2>2, MultiplyWordIs
<1>7. ASSUME NEW n \in Nat, n \in T PROVE n + 1 \in T
  <2>1. SUFFICES ASSUME n + 1 <= digit
                 PROVE  mult[n + 1] \in Numbers /\ Value(mult[n + 1]) = Value(b) * (digit - (n + 1))
    OBVIOUS
  <2>2. n + 1 \in 1..digit /\ n + 1 \in 0..digit /\ n + 1 # 0 /\ (n + 1) - 1 = n /\ n <= digit
    BY <1>1, <2>1
  <2>3. mult[n] \in Numbers /\ Value(mult[n]) = Value(b) * (digit - ((n + 1) - 1)) BY <1>7, <2>2
  <2>4. mult[n + 1] = subtract(mult[n], b) BY <1>5, <2>2
  <2> QED BY <1>3, <2>2, <2>3, <2>4
<1> HIDE DEF T
<1>8. \A n \in Nat : n \in T BY <1>6, <1>7, NatSetInduction
<1>9. \A n \in 0..digit : n \in Nat /\ n <= digit BY <1>1
<1> QED BY <1>8, <1>9 DEF T

(* Coming down from a guess that is not too small ends at the digit.       *)
LEMMA CorrectedIs ==
  ASSUME NEW rem \in Numbers, NEW b \in Numbers, b # <<>>, NEW digit \in 0..Base - 1,
         Value(rem) < Value(b) * Base,
         \A q \in 0..Base - 1 : q * Value(b) <= Value(rem) => q <= digit
  PROVE  LET c == Corrected(rem, b, digit)
         IN  /\ c.digit \in 0..Base - 1 /\ c.mult \in Numbers
             /\ Value(c.mult) = Value(b) * c.digit
             /\ Value(c.mult) <= Value(rem) /\ Value(rem) < Value(c.mult) + Value(b)
<1> DEFINE mult == CHOOSE f : f = [n \in 0..digit |->
                     IF n = 0 THEN multiplyWord(b, digit) ELSE subtract(f[n - 1], b)]
           Down(n) == /\ ~isLess(rem, mult[n])
                      /\ \A k \in 0..n - 1 : isLess(rem, mult[k])
           down == CHOOSE n \in 0..digit : Down(n)
<1>1. Corrected(rem, b, digit) = [digit |-> digit - down, mult |-> mult[down]]
  BY Zenon DEF Corrected, Fitted, LoweredBy, Correction
<1>2. \A n \in 0..digit : mult[n] \in Numbers /\ Value(mult[n]) = Value(b) * (digit - n)
  BY MultIs
<1> HIDE DEF mult
<1>3. digit \in Nat /\ Base \in Nat \ {0, 1} /\ Value(b) \in Nat \ {0} /\ Value(rem) \in Nat
  BY BaseIs, NumbersAre, Bounds
<1>4. \A n \in 0..digit : isLess(rem, mult[n]) <=> Value(rem) < Value(b) * (digit - n)
  <2> TAKE n \in 0..digit
  <2>1. mult[n] \in Numbers /\ Value(mult[n]) = Value(b) * (digit - n) BY <1>2
  <2> QED BY <2>1, IsLessIs
<1>5. \E n \in 0..digit : Down(n)
  <2> DEFINE S == {n \in 0..digit : ~isLess(rem, mult[n])}
             l == Min(S)
  <2>1. S # {}
    <3>1. digit \in 0..digit /\ digit - digit = 0 /\ Value(b) * 0 = 0 BY <1>3
    <3>2. ~(Value(rem) < Value(b) * (digit - digit)) BY <1>3, <3>1
    <3> QED BY <1>4, <3>1, <3>2
  <2>2. S \in SUBSET Nat OBVIOUS
  <2>3. l \in S /\ \A s \in S : l <= s
    <3> HIDE DEF S
    <3> QED BY <2>1, <2>2, HasLeast
  <2> HIDE DEF l
  <2>4. l \in 0..digit /\ ~isLess(rem, mult[l]) BY <2>3
  <2>5. \A k \in 0..l - 1 : isLess(rem, mult[k])
    <3> TAKE k \in 0..l - 1
    <3>1. k \in 0..digit /\ ~(l <= k) BY <1>3, <2>4
    <3> QED BY <2>3, <3>1
  <2> QED BY <2>4, <2>5
<1>6. down \in 0..digit /\ Down(down)
  <2> HIDE DEF Down
  <2> QED BY <1>5
<1> HIDE DEF down
<1> DEFINE e == digit - down vb == Value(b) vr == Value(rem)
<1>7. e \in Nat /\ e \in 0..Base - 1 /\ e <= digit BY <1>3, <1>6
<1>8. mult[down] \in Numbers /\ Value(mult[down]) = vb * e BY <1>2, <1>6
<1>9. vb * e <= vr
  <2>1. ~(vr < vb * (digit - down)) BY <1>4, <1>6
  <2>2. vb * e \in Nat BY <1>3, <1>7
  <2> QED BY <1>3, <2>1, <2>2
<1>10. vr < vb * e + vb
  <2>1. vb * e + vb = vb * (e + 1) BY <1>3, <1>7
  <2>2. CASE down = 0
    <3>1. e = digit BY <1>3, <2>2
    <3>2. SUFFICES ASSUME ~(vr < vb * (e + 1)) PROVE FALSE BY <2>1
    <3>3. vb * (e + 1) = (e + 1) * vb /\ (e + 1) * vb \in Nat
      <4>1. vb \in Nat /\ e \in Nat BY <1>3, <1>7
      <4> HIDE DEF vb, e
      <4> QED BY <4>1
    <3>4. (e + 1) * vb <= vr BY <1>3, <3>2, <3>3
    <3>5. e + 1 \in 0..Base - 1
      <4>1. e \in 0..Base - 1 /\ Base \in Nat BY <1>3, <1>7
      <4> HIDE DEF e
      <4>2. SUFFICES ASSUME e + 1 = Base PROVE FALSE BY <4>1
      <4>3. vr < vb * (e + 1) BY <4>2
      <4> QED BY <3>2, <4>3
    <3>6. e + 1 <= digit BY <3>4, <3>5
    <3> QED BY <1>3, <3>1, <3>6
  <2>3. CASE down # 0
    <3>1. down - 1 \in 0..down - 1 /\ down - 1 \in 0..digit /\ digit - (down - 1) = e + 1
      BY <1>3, <1>6, <2>3
    <3>2. isLess(rem, mult[down - 1]) BY <1>6, <3>1
    <3>3. vr < vb * (digit - (down - 1)) BY <1>4, <3>1, <3>2
    <3> QED BY <2>1, <3>1, <3>3
  <2> QED BY <2>2, <2>3
<1> QED BY <1>1, <1>7, <1>8, <1>9, <1>10

(* One digit of the quotient.                                              *)
LEMMA NextDigitIs ==
  ASSUME NEW quo \in Arrays, NEW rem \in Numbers, NEW b \in Numbers, b # <<>>,
         Value(rem) < Value(b) * Base
  PROVE  \E digit \in 0..Base - 1, r \in Numbers :
           /\ NextDigit(quo, rem, b) = [quo |-> <<digit>> \o quo, rem |-> r]
           /\ digit * Value(b) + Value(r) = Value(rem) /\ Value(r) < Value(b)
<1>1. Base \in Nat \ {0, 1} /\ Value(b) \in Nat /\ Value(rem) \in Nat BY BaseIs, NumbersAre
<1>2. CASE isLess(rem, b)
  <2>1. NextDigit(quo, rem, b) = [quo |-> <<0>> \o quo, rem |-> rem] BY <1>2 DEF NextDigit
  <2>2. Value(rem) < Value(b) BY <1>2, IsLessIs
  <2>3. 0 \in 0..Base - 1 /\ 0 * Value(b) + Value(rem) = Value(rem) BY <1>1
  <2> QED BY <2>1, <2>2, <2>3
<1>3. CASE ~isLess(rem, b)
  <2> DEFINE c == Corrected(rem, b, Guess(rem, b))
             r == subtract(rem, c.mult)
  <2>1. NextDigit(quo, rem, b) = [quo |-> <<c.digit>> \o quo, rem |-> r]
    BY <1>3, Zenon DEF NextDigit, Taken
  <2>2. Value(b) <= Value(rem)
    <3>1. ~(Value(rem) < Value(b)) BY <1>3, IsLessIs
    <3> QED BY <1>1, <3>1
  <2>3. /\ Guess(rem, b) \in 0..Base - 1
        /\ \A q \in 0..Base - 1 : q * Value(b) <= Value(rem) => q <= Guess(rem, b)
    BY <2>2, GuessIs
  <2>4. /\ c.digit \in 0..Base - 1 /\ c.mult \in Numbers
        /\ Value(c.mult) = Value(b) * c.digit
        /\ Value(c.mult) <= Value(rem) /\ Value(rem) < Value(c.mult) + Value(b)
    BY <2>3, CorrectedIs
  <2> HIDE DEF c
  <2>5. r \in Numbers /\ Value(r) = Value(rem) - Value(c.mult) BY <2>4, SubtractIs
  <2> HIDE DEF r
  <2>6. Value(c.mult) \in Nat /\ Value(r) \in Nat BY <2>4, <2>5, NumbersAre
  <2>7. Value(b) * c.digit = c.digit * Value(b) BY <1>1, <2>4
  <2>8. c.digit * Value(b) + Value(r) = Value(rem) BY <1>1, <2>4, <2>5, <2>6, <2>7
  <2>9. Value(r) < Value(b) BY <1>1, <2>4, <2>5, <2>6
  <2> QED BY <2>1, <2>4, <2>5, <2>8, <2>9
<1> QED BY <1>2, <1>3

(* The states of a division by b.                                          *)
Partial(b) == [quo : Arrays, rem : {r \in Numbers : Value(r) < Value(b)}]

(* One word of a: the quotient grows by a digit, and divisor times         *)
(* quotient plus remainder is what was read so far.                        *)
LEMMA NextWordIs ==
  ASSUME NEW b \in Numbers, b # <<>>, NEW t \in Partial(b), NEW w \in 0..Base - 1
  PROVE  /\ NextWord(t, w, b) \in Partial(b) /\ Len(NextWord(t, w, b).quo) = Len(t.quo) + 1
         /\ V(NextWord(t, w, b).quo, Len(t.quo) + 1) * Value(b) + Value(NextWord(t, w, b).rem)
              = (V(t.quo, Len(t.quo)) * Value(b) + Value(t.rem)) * Base + w
<1> DEFINE quo == t.quo r == Bring(t.rem, w) u == NextWord(t, w, b)
<1>1. quo \in Arrays /\ t.rem \in Numbers /\ Value(t.rem) < Value(b) BY DEF Partial
<1>2. r \in Numbers /\ Value(r) = Value(t.rem) * Base + w BY <1>1, BringIs
<1>3. u = NextDigit(quo, r, b) BY DEF NextWord
<1> HIDE DEF quo, r, u
<1>4. Value(t.rem) \in Nat /\ Value(b) \in Nat /\ Base \in Nat \ {0, 1} /\ w \in Nat
  BY <1>1, NumbersAre, BaseIs
<1>5. Value(r) < Value(b) * Base
  <2>1. (Value(t.rem) + 1) * Base <= Value(b) * Base
    <3>1. Value(t.rem) + 1 <= Value(b) /\ Value(t.rem) + 1 \in Nat BY <1>1, <1>4
    <3> QED BY <1>4, <3>1, TimesMonotone
  <2>2. (Value(t.rem) + 1) * Base = Value(t.rem) * Base + Base /\ Value(t.rem) * Base \in Nat
        /\ Value(b) * Base \in Nat
    BY <1>4
  <2> QED BY <1>2, <1>4, <2>1, <2>2
<1>6. PICK digit \in 0..Base - 1, s \in Numbers :
           /\ u = [quo |-> <<digit>> \o quo, rem |-> s]
           /\ digit * Value(b) + Value(s) = Value(r) /\ Value(s) < Value(b)
  BY <1>1, <1>2, <1>3, <1>5, NextDigitIs
<1> DEFINE e == <<digit>> \o quo n == Len(quo)
<1>7. e \in Arrays /\ Len(e) = n + 1 /\ V(e, n + 1) = V(quo, n) * Base + digit
  BY <1>1, BelowIs
<1>8. u.quo = e /\ u.rem = s BY <1>6
<1> HIDE DEF e
<1>9. u \in Partial(b)
  <2>1. u = [quo |-> e, rem |-> s] BY <1>6 DEF e
  <2>2. s \in {v \in Numbers : Value(v) < Value(b)} BY <1>6
  <2> QED BY <1>7, <2>1, <2>2 DEF Partial
<1>10. V(quo, n) \in Int
  <2>1. n \in Nat BY <1>1, ArraysAre
  <2> QED BY <2>1, VType
<1>11. V(e, n + 1) * Value(b) + Value(s) = (V(quo, n) * Value(b) + Value(t.rem)) * Base + w
  <2> DEFINE q == V(quo, n) vb == Value(b) vs == Value(s) vt == Value(t.rem) f == V(e, n + 1)
             B == Base
  <2>1. /\ q \in Int /\ vb \in Nat /\ vt \in Nat /\ digit \in Nat /\ vs \in Nat /\ B \in Nat /\ w \in Nat
        /\ f = q * B + digit /\ digit * vb + vs = vt * B + w
    BY <1>2, <1>4, <1>6, <1>7, <1>10, NumbersAre
  <2> HIDE DEF q, vb, vs, vt, f, B
  <2>2. f * vb = (q * B) * vb + digit * vb BY <2>1
  <2>3. (q * B) * vb = (q * vb) * B BY <2>1
  <2>4. (q * vb + vt) * B = (q * vb) * B + vt * B BY <2>1
  <2>5. (q * vb) * B \in Int /\ digit * vb \in Int /\ vt * B \in Int
    <3>1. q * vb \in Int BY <2>1
    <3>2. \A i, j \in Int : i * j \in Int OBVIOUS
    <3> QED BY <2>1, <3>1, <3>2
  <2>6. f * vb + vs = (q * vb + vt) * B + w BY <2>1, <2>2, <2>3, <2>4, <2>5
  <2> QED BY <2>6 DEF q, vb, vs, vt, f, B
<1> QED BY <1>7, <1>8, <1>9, <1>11 DEF u, quo, n

(* The long division, a word of a at a time.                               *)
LEMMA DivideUnfolds ==
  ASSUME NEW a \in Arrays, NEW b \in Numbers, b # <<>>
  PROVE  \E t \in [0..Len(a) -> Partial(b)] :
           /\ t[0] = [quo |-> <<>>, rem |-> <<>>]
           /\ \A i \in 1..Len(a) : t[i] = NextWord(t[i - 1], a[Len(a) + 1 - i], b)
           /\ divide(a, b) = [quo |-> cleanup(t[Len(a)].quo), rem |-> t[Len(a)].rem]
<1> DEFINE n == Len(a)
           D == Partial(b)
           zero == [quo |-> <<>>, rem |-> <<>>]
           F == [p \in (1..n) \X D |-> NextWord(p[2], a[n + 1 - p[1]], b)]
           Is(f) == f = [i \in 0..Len(a) |-> IF i = 0 THEN [quo |-> <<>>, rem |-> <<>>]
                                             ELSE NextWord(f[i - 1], a[Len(a) + 1 - i], b)]
           t == CHOOSE f : Is(f)
<1>1. n \in Nat /\ \A i \in 1..n : a[i] \in 0..Base - 1 BY ArraysAre
<1>2. \A i \in 1..n, e \in D : F[<<i, e>>] = NextWord(e, a[n + 1 - i], b) OBVIOUS
<1>3. \A i \in 1..n, e \in D : NextWord(e, a[n + 1 - i], b) \in D
  <2> TAKE i \in 1..n, e \in D
  <2>1. n + 1 - i \in 1..n BY <1>1
  <2>2. a[n + 1 - i] \in 0..Base - 1 BY <1>1, <2>1
  <2> QED BY <2>2, NextWordIs
<1>4. zero \in D
  <2>1. Value(b) > 0 BY Bounds
  <2> QED BY <2>1, EmptyIs DEF Partial
<1>5. divide(a, b) = [t[Len(a)] EXCEPT !.quo = cleanup(@)] BY Zenon DEF divide
<1> HIDE DEF F, D, n
<1>6. PICK f \in [0..n -> D] : Recursive(f, 0..n, zero, F)
  <2>1. \A i \in 1..n, e \in D : F[<<i, e>>] \in D BY <1>2, <1>3
  <2> HIDE DEF zero
  <2> QED BY <1>1, <1>4, <2>1, Recursion, Zenon
<1>7. Is(f)
  <2>1. \A i \in 0..n : i # 0 => i \in 1..n /\ i - 1 \in 0..n BY <1>1
  <2>2. \A i \in 0..n : f[i] = IF i = 0 THEN zero ELSE NextWord(f[i - 1], a[n + 1 - i], b)
    BY <1>2, <1>6, <2>1 DEF Recursive
  <2>3. f = [i \in 0..n |-> f[i]] BY <1>6
  <2> QED BY <2>2, <2>3 DEF n
<1>8. Is(t) BY <1>7
<1> HIDE DEF t
<1>9. t[0] = zero /\ \A i \in 1..n : t[i] = NextWord(t[i - 1], a[n + 1 - i], b)
  BY <1>1, <1>8 DEF n
<1>10. t \in [0..n -> D]
  <2>1. \A i \in 1..n : t[i - 1] \in D => t[i] \in D BY <1>3, <1>9
  <2>2. \A i \in 0..n : t[i] \in D
    <3>1. t[0] \in D BY <1>4, <1>9
    <3> QED BY <1>1, <2>1, <3>1, Stays
  <2>3. t = [i \in 0..n |-> t[i]] BY <1>8 DEF n
  <2> QED BY <2>2, <2>3
<1>11. divide(a, b) = [quo |-> cleanup(t[n].quo), rem |-> t[n].rem]
  <2>1. t[n] \in D BY <1>1, <1>10
  <2>2. PICK p \in D : p = t[n] BY <2>1
  <2>3. [p EXCEPT !.quo = cleanup(@)] = [quo |-> cleanup(p.quo), rem |-> p.rem] BY DEF D, Partial
  <2> QED BY <1>5, <2>2, <2>3 DEF n
<1> QED BY <1>9, <1>10, <1>11 DEF D, n

(* divide gives the quotient and the remainder of the long division: the   *)
(* guessed digits are never too small, and come down to the right ones.    *)
THEOREM DivideIs ==
  ASSUME NEW a \in Numbers, NEW b \in Numbers, b # <<>>
  PROVE  /\ divide(a, b).quo \in Numbers /\ divide(a, b).rem \in Numbers
         /\ Value(divide(a, b).quo) * Value(b) + Value(divide(a, b).rem) = Value(a)
         /\ Value(divide(a, b).rem) < Value(b)
<1> DEFINE n == Len(a)
<1>1. a \in Arrays /\ n \in Nat BY NumbersAre
<1>2. a \in Seq(Int) /\ \A i \in 1..n : a[i] \in 0..Base - 1 BY <1>1, ArraysAre
<1>3. PICK top \in [0..n -> Int] :
           /\ top[0] = 0 /\ Value(a) = top[n]
           /\ \A i \in 1..n : top[i] = top[i - 1] * Base + a[n + 1 - i]
  BY <1>2, ValueUnfolds
<1>4. PICK t \in [0..n -> Partial(b)] :
           /\ t[0] = [quo |-> <<>>, rem |-> <<>>]
           /\ \A i \in 1..n : t[i] = NextWord(t[i - 1], a[n + 1 - i], b)
           /\ divide(a, b) = [quo |-> cleanup(t[n].quo), rem |-> t[n].rem]
  BY <1>1, DivideUnfolds
<1> HIDE DEF n
<1>5. Value(b) \in Nat /\ Base \in Nat BY NumbersAre, BaseIs
<1> DEFINE H(i) == V(t[i].quo, Len(t[i].quo)) * Value(b) + Value(t[i].rem)
           T == {k \in Nat : k <= n => H(k) = top[k]}
<1>6. 0 \in T
  <2>1. t[0].quo = <<>> /\ t[0].rem = <<>> BY <1>4
  <2>2. V(<<>>, Len(<<>>)) = 0
    <3>1. Len(<<>>) = 0 OBVIOUS
    <3> QED BY <3>1, VType
  <2> QED BY <1>3, <1>5, <2>1, <2>2, EmptyIs
<1>7. ASSUME NEW k \in Nat, k \in T PROVE k + 1 \in T
  <2>1. SUFFICES ASSUME k + 1 <= n PROVE H(k + 1) = top[k + 1] OBVIOUS
  <2>2. k + 1 \in 1..n /\ (k + 1) - 1 = k /\ k <= n /\ k \in 0..n /\ n + 1 - (k + 1) \in 1..n
    BY <1>1, <2>1
  <2> DEFINE w == a[n + 1 - (k + 1)] u == t[k] y == t[k + 1]
  <2>3. w \in 0..Base - 1 BY <1>2, <2>2
  <2>4. y = NextWord(u, w, b) BY <1>4, <2>2
  <2>5. u \in Partial(b) BY <1>4, <2>2
  <2>6. top[k + 1] = top[k] * Base + w BY <1>3, <2>2
  <2>7. V(u.quo, Len(u.quo)) * Value(b) + Value(u.rem) = top[k] BY <1>7, <2>2
  <2> HIDE DEF w, u, y
  <2>8. /\ Len(y.quo) = Len(u.quo) + 1
        /\ V(y.quo, Len(u.quo) + 1) * Value(b) + Value(y.rem)
              = (V(u.quo, Len(u.quo)) * Value(b) + Value(u.rem)) * Base + w
    BY <2>3, <2>4, <2>5, NextWordIs
  <2>9. V(y.quo, Len(y.quo)) * Value(b) + Value(y.rem) = top[k + 1] BY <2>6, <2>7, <2>8
  <2> QED BY <2>9 DEF y
<1> HIDE DEF T
<1>8. n \in T BY <1>1, <1>6, <1>7, NatSetInduction
<1>9. H(n) = Value(a) BY <1>1, <1>3, <1>8 DEF T
<1> DEFINE u == t[n]
<1>10. u \in Partial(b)
  <2>1. n \in 0..n BY <1>1
  <2> QED BY <1>4, <2>1
<1>11. V(u.quo, Len(u.quo)) * Value(b) + Value(u.rem) = Value(a) BY <1>9
<1>12. divide(a, b) = [quo |-> cleanup(u.quo), rem |-> u.rem] BY <1>4
<1> HIDE DEF u, H
<1>13. u.quo \in Arrays /\ u.rem \in Numbers /\ Value(u.rem) < Value(b) BY <1>10 DEF Partial
<1>14. cleanup(u.quo) \in Numbers /\ Value(cleanup(u.quo)) = V(u.quo, Len(u.quo)) BY <1>13, CleanupIs
<1>15. divide(a, b).quo = cleanup(u.quo) /\ divide(a, b).rem = u.rem BY <1>12
<1> QED BY <1>11, <1>13, <1>14, <1>15

-----------------------------------------------------------------------------
(* Signed numbers.                                                         *)

Signeds == [neg : BOOLEAN, array : Numbers]

(* What a signed number says of its integer; a negative zero is 0.         *)
LEMMA SignedIs ==
  ASSUME NEW a \in Signeds
  PROVE  /\ a.neg \in BOOLEAN /\ a.array \in Numbers /\ Value(a.array) \in Nat
         /\ IntOf(a) \in Int /\ Magnitude(IntOf(a)) = Value(a.array)
         /\ isZero(a) <=> Value(a.array) = 0
         /\ isZero(a) <=> IntOf(a) = 0
         /\ isNegative(a) <=> IntOf(a) < 0
         /\ isNegative(a) <=> (Value(a.array) # 0 /\ a.neg)
         /\ isNegative(a) \in BOOLEAN
         /\ IntOf(a) = IF a.neg THEN -Value(a.array) ELSE Value(a.array)
<1>1. a.neg \in BOOLEAN /\ a.array \in Numbers BY DEF Signeds
<1>2. Value(a.array) \in Nat /\ (a.array = <<>> <=> Value(a.array) = 0)
  <2>1. a.array = <<>> => Value(a.array) = 0 BY <1>1, Bounds
  <2>2. a.array # <<>> => Value(a.array) > 0 BY <1>1, Bounds
  <2>3. Value(a.array) \in Nat BY <1>1, NumbersAre
  <2> QED BY <2>1, <2>2, <2>3
<1> DEFINE v == Value(a.array) k == IntOf(a)
<1>3. isZero(a) <=> v = 0 BY <1>2 DEF isZero
<1>4. isNegative(a) <=> (v # 0 /\ a.neg) BY <1>3, Zenon DEF isNegative
<1>5. isNegative(a) \in BOOLEAN BY Zenon DEF isNegative
<1>6. k = IF a.neg THEN -v ELSE v BY DEF IntOf
<1>7. v \in Nat BY <1>2
<1>8. Magnitude(k) = IF k < 0 THEN -k ELSE k BY DEF Magnitude
<1> HIDE DEF v, k
<1>9. CASE a.neg
  <2>1. k = -v BY <1>6, <1>9
  <2>2. k \in Int /\ Magnitude(k) = v /\ (k = 0 <=> v = 0) /\ (k < 0 <=> v # 0) BY <1>7, <1>8, <2>1
  <2> QED BY <1>1, <1>3, <1>4, <1>5, <1>6, <1>7, <1>9, <2>2 DEF v, k
<1>10. CASE ~a.neg
  <2>1. k = v BY <1>6, <1>10
  <2>2. k \in Int /\ Magnitude(k) = v /\ (k = 0 <=> v = 0) /\ ~(k < 0) BY <1>7, <1>8, <2>1
  <2> QED BY <1>1, <1>3, <1>4, <1>5, <1>6, <1>7, <1>10, <2>2 DEF v, k
<1> QED BY <1>9, <1>10

(* The other sign.                                                         *)
LEMMA NegatedIs ==
  ASSUME NEW a \in Signeds
  PROVE  Negated(a) \in Signeds /\ IntOf(Negated(a)) = -IntOf(a) /\ Negated(a).neg = ~a.neg
         /\ Negated(a).array = a.array
<1>1. a.neg \in BOOLEAN /\ a.array \in Numbers /\ Value(a.array) \in Nat BY SignedIs
<1>2. Negated(a) = [neg |-> ~a.neg, array |-> a.array] BY DEF Negated, Signeds
<1>3. Negated(a) \in Signeds BY <1>1, <1>2 DEF Signeds
<1>4. Negated(a).neg = ~a.neg /\ Negated(a).array = a.array BY <1>2
<1>5. IntOf(Negated(a)) = -IntOf(a)
  <2>1. CASE a.neg
    <3>1. IntOf(a) = -Value(a.array) /\ IntOf(Negated(a)) = Value(a.array) BY <1>4, <2>1 DEF IntOf
    <3> QED BY <1>1, <3>1
  <2>2. CASE ~a.neg
    <3>1. IntOf(a) = Value(a.array) /\ IntOf(Negated(a)) = -Value(a.array) BY <1>4, <2>2 DEF IntOf
    <3> QED BY <1>1, <3>1
  <2> QED BY <2>1, <2>2
<1> QED BY <1>3, <1>4, <1>5

(* operator< and operator== compare the integers, negative zeros included. *)
THEOREM ComparesIs ==
  ASSUME NEW a \in Signeds, NEW b \in Signeds
  PROVE  /\ less(a, b) <=> IntOf(a) < IntOf(b)
         /\ equal(a, b) <=> IntOf(a) = IntOf(b)
<1> DEFINE na == isNegative(a) nb == isNegative(b) va == Value(a.array) vb == Value(b.array)
           i == IntOf(a) j == IntOf(b)
<1>1. /\ va \in Nat /\ i \in Int /\ na \in BOOLEAN /\ a.array \in Numbers
      /\ na <=> i < 0
      /\ i = IF na THEN -va ELSE va
  <2>1. /\ va \in Nat /\ i \in Int /\ na \in BOOLEAN /\ a.array \in Numbers /\ a.neg \in BOOLEAN
        /\ na <=> i < 0
        /\ na <=> (va # 0 /\ a.neg)
        /\ i = IF a.neg THEN -va ELSE va
    BY SignedIs
  <2> HIDE DEF na, va, i
  <2> QED BY <2>1
<1>2. /\ vb \in Nat /\ j \in Int /\ nb \in BOOLEAN /\ b.array \in Numbers
      /\ nb <=> j < 0
      /\ j = IF nb THEN -vb ELSE vb
  <2>1. /\ vb \in Nat /\ j \in Int /\ nb \in BOOLEAN /\ b.array \in Numbers /\ b.neg \in BOOLEAN
        /\ nb <=> j < 0
        /\ nb <=> (vb # 0 /\ b.neg)
        /\ j = IF b.neg THEN -vb ELSE vb
    BY SignedIs
  <2> HIDE DEF nb, vb, j
  <2> QED BY <2>1
<1>3. /\ isLess(a.array, b.array) <=> va < vb
      /\ isLess(b.array, a.array) <=> vb < va
      /\ a.array = b.array <=> va = vb
  BY <1>1, <1>2, IsLessIs
<1>4. less(a, b) <=> IF na # nb THEN na ELSE IF na THEN vb < va ELSE va < vb
  BY <1>3, Zenon DEF less
<1>5. equal(a, b) <=> va = vb /\ na = nb BY <1>3, Zenon DEF equal
<1> HIDE DEF na, nb, va, vb, i, j
<1>6. (IF na # nb THEN na ELSE IF na THEN vb < va ELSE va < vb) <=> i < j BY <1>1, <1>2
<1>7. (va = vb /\ na = nb) <=> i = j BY <1>1, <1>2
<1>8. less(a, b) <=> i < j BY <1>4, <1>6, Zenon
<1>9. equal(a, b) <=> i = j BY <1>5, <1>7, Zenon
<1> QED BY <1>8, <1>9 DEF i, j

(* Equal signs: the magnitudes add up.                                     *)
LEMMA SumIs ==
  ASSUME NEW a \in Signeds, NEW b \in Signeds, a.neg = b.neg
  PROVE  Sum(a, b) \in Signeds /\ IntOf(Sum(a, b)) = IntOf(a) + IntOf(b)
<1> DEFINE s == add(a.array, b.array, 0)
<1>1. a.neg \in BOOLEAN /\ a.array \in Numbers /\ b.array \in Numbers BY SignedIs
<1>2. /\ a.array \in Arrays /\ Value(a.array) = V(a.array, Len(a.array)) /\ Value(a.array) \in Nat
      /\ b.array \in Arrays /\ Value(b.array) = V(b.array, Len(b.array)) /\ Value(b.array) \in Nat
  BY <1>1, NumbersAre
<1>3. s \in Numbers /\ Value(s) = V(a.array, Len(a.array)) + PB(0) * V(b.array, Len(b.array))
  BY <1>2, AddIs
<1>4. Value(s) = Value(a.array) + Value(b.array)
  <2>1. PB(0) = 1 BY PBIs
  <2> QED BY <1>2, <1>3, <2>1
<1>5. Sum(a, b) = [neg |-> a.neg, array |-> s] BY DEF Sum, Signeds
<1> HIDE DEF s
<1>6. Sum(a, b) \in Signeds BY <1>1, <1>3, <1>5 DEF Signeds
<1>7. IntOf(Sum(a, b)) = IF a.neg THEN -Value(s) ELSE Value(s) BY <1>5 DEF IntOf
<1> QED BY <1>2, <1>4, <1>6, <1>7 DEF IntOf

(* A smaller number less.                                                  *)
LEMMA MinusIs ==
  ASSUME NEW a \in Signeds, NEW b \in Signeds, ~a.neg, ~b.neg, IntOf(b) <= IntOf(a)
  PROVE  Minus(a, b) \in Signeds /\ IntOf(Minus(a, b)) = IntOf(a) - IntOf(b)
<1> DEFINE s == subtract(a.array, b.array)
<1>1. a.neg \in BOOLEAN /\ a.array \in Numbers /\ b.array \in Numbers BY SignedIs
<1>2. IntOf(a) = Value(a.array) /\ IntOf(b) = Value(b.array) BY DEF IntOf
<1>3. s \in Numbers /\ Value(s) = Value(a.array) - Value(b.array) BY <1>1, <1>2, SubtractIs
<1>4. Minus(a, b) = [neg |-> a.neg, array |-> s] BY DEF Minus, Signeds
<1> HIDE DEF s
<1>5. Minus(a, b) \in Signeds BY <1>1, <1>3, <1>4 DEF Signeds
<1>6. IntOf(Minus(a, b)) = Value(s) BY <1>4 DEF IntOf
<1> QED BY <1>2, <1>3, <1>5, <1>6

(* Of two nonnegative numbers, in either order.                            *)
LEMMA DifferenceIs ==
  ASSUME NEW a \in Signeds, NEW b \in Signeds, ~a.neg, ~b.neg
  PROVE  Difference(a, b) \in Signeds /\ IntOf(Difference(a, b)) = IntOf(a) - IntOf(b)
<1>1. IntOf(a) \in Int /\ IntOf(b) \in Int BY SignedIs
<1>2. less(a, b) <=> IntOf(a) < IntOf(b) BY ComparesIs
<1>3. CASE less(a, b)
  <2>1. Difference(a, b) = Negated(Minus(b, a)) BY <1>3 DEF Difference
  <2>2. IntOf(a) <= IntOf(b) BY <1>1, <1>2, <1>3
  <2>3. Minus(b, a) \in Signeds /\ IntOf(Minus(b, a)) = IntOf(b) - IntOf(a) BY <2>2, MinusIs
  <2>4. Negated(Minus(b, a)) \in Signeds /\ IntOf(Negated(Minus(b, a))) = -IntOf(Minus(b, a))
    BY <2>3, NegatedIs
  <2> QED BY <1>1, <2>1, <2>3, <2>4
<1>4. CASE ~less(a, b)
  <2>1. Difference(a, b) = Minus(a, b) BY <1>4 DEF Difference
  <2>2. IntOf(b) <= IntOf(a) BY <1>1, <1>2, <1>4
  <2> QED BY <2>1, <2>2, MinusIs
<1> QED BY <1>3, <1>4

(* operator+= is exact for all signs, through the calls that += and -=     *)
(* make of one another.                                                    *)
THEOREM PlusIs ==
  ASSUME NEW a \in Signeds, NEW b \in Signeds
  PROVE  plus(a, b) \in Signeds /\ IntOf(plus(a, b)) = IntOf(a) + IntOf(b)
<1>1. IntOf(a) \in Int /\ IntOf(b) \in Int /\ a.neg \in BOOLEAN /\ b.neg \in BOOLEAN BY SignedIs
<1>2. Negated(a) \in Signeds /\ IntOf(Negated(a)) = -IntOf(a) /\ Negated(a).neg = ~a.neg BY NegatedIs
<1>3. Negated(b) \in Signeds /\ IntOf(Negated(b)) = -IntOf(b) /\ Negated(b).neg = ~b.neg BY NegatedIs
<1>4. CASE a.neg /\ ~b.neg
  <2>1. plus(a, b) = Difference(b, Negated(a)) BY <1>4 DEF plus
  <2>2. ~Negated(a).neg BY <1>2, <1>4
  <2>3. /\ Difference(b, Negated(a)) \in Signeds
        /\ IntOf(Difference(b, Negated(a))) = IntOf(b) - IntOf(Negated(a))
    BY <1>2, <1>4, <2>2, DifferenceIs
  <2> QED BY <1>1, <1>2, <2>1, <2>3
<1>5. CASE ~a.neg /\ b.neg
  <2>1. plus(a, b) = Difference(a, Negated(b)) BY <1>5 DEF plus
  <2>2. ~Negated(b).neg BY <1>3, <1>5
  <2>3. /\ Difference(a, Negated(b)) \in Signeds
        /\ IntOf(Difference(a, Negated(b))) = IntOf(a) - IntOf(Negated(b))
    BY <1>3, <1>5, <2>2, DifferenceIs
  <2> QED BY <1>1, <1>3, <2>1, <2>3
<1>6. CASE a.neg = b.neg
  <2>1. plus(a, b) = Sum(a, b) BY <1>6 DEF plus
  <2> QED BY <1>6, <2>1, SumIs
<1> QED BY <1>1, <1>4, <1>5, <1>6

(* So is operator-=.                                                       *)
THEOREM MinusAllIs ==
  ASSUME NEW a \in Signeds, NEW b \in Signeds
  PROVE  minus(a, b) \in Signeds /\ IntOf(minus(a, b)) = IntOf(a) - IntOf(b)
<1>1. IntOf(a) \in Int /\ IntOf(b) \in Int /\ a.neg \in BOOLEAN /\ b.neg \in BOOLEAN BY SignedIs
<1>2. Negated(a) \in Signeds /\ IntOf(Negated(a)) = -IntOf(a) /\ Negated(a).neg = ~a.neg BY NegatedIs
<1>3. Negated(b) \in Signeds /\ IntOf(Negated(b)) = -IntOf(b) /\ Negated(b).neg = ~b.neg BY NegatedIs
<1>4. CASE a.neg # b.neg
  <2>1. minus(a, b) = Sum(a, Negated(b)) BY <1>4 DEF minus
  <2>2. a.neg = Negated(b).neg BY <1>1, <1>3, <1>4
  <2>3. Sum(a, Negated(b)) \in Signeds /\ IntOf(Sum(a, Negated(b))) = IntOf(a) + IntOf(Negated(b))
    BY <1>3, <2>2, SumIs
  <2> QED BY <1>1, <1>3, <2>1, <2>3
<1>5. CASE a.neg = b.neg /\ a.neg
  <2>1. minus(a, b) = Difference(Negated(b), Negated(a)) BY <1>5 DEF minus
  <2>2. ~Negated(a).neg /\ ~Negated(b).neg BY <1>2, <1>3, <1>5
  <2>3. /\ Difference(Negated(b), Negated(a)) \in Signeds
        /\ IntOf(Difference(Negated(b), Negated(a))) = IntOf(Negated(b)) - IntOf(Negated(a))
    BY <1>2, <1>3, <2>2, DifferenceIs
  <2> QED BY <1>1, <1>2, <1>3, <2>1, <2>3
<1>6. CASE a.neg = b.neg /\ ~a.neg
  <2>1. minus(a, b) = Difference(a, b) BY <1>6 DEF minus
  <2> QED BY <1>6, <2>1, DifferenceIs
<1> QED BY <1>4, <1>5, <1>6

-----------------------------------------------------------------------------
(* Signed quotients.                                                       *)

(* Quotient and remainder are determined.                                  *)
LEMMA EuclidOnce ==
  ASSUME NEW a \in Nat, NEW b \in Nat \ {0}, NEW q \in Nat, NEW r \in 0..b - 1, q * b + r = a
  PROVE  q = a \div b /\ r = a % b
<1>1. PICK d \in Nat, m \in 0..b - 1 : d = a \div b /\ m = a % b /\ a = b * d + m
  <2>1. a \div b \in Nat /\ a % b \in 0..b - 1 /\ a = b * (a \div b) + (a % b) OBVIOUS
  <2> QED BY <2>1
<1>2. q * b \in Nat /\ d * b \in Nat /\ b * d = d * b OBVIOUS
<1>3. ~(q < d)
  <2>1. SUFFICES ASSUME q + 1 <= d PROVE FALSE OBVIOUS
  <2>2. (q + 1) * b <= d * b BY <2>1, TimesMonotone
  <2>3. (q + 1) * b = q * b + b OBVIOUS
  <2> QED BY <1>1, <1>2, <2>2, <2>3
<1>4. ~(d < q)
  <2>1. SUFFICES ASSUME d + 1 <= q PROVE FALSE OBVIOUS
  <2>2. (d + 1) * b <= q * b BY <2>1, TimesMonotone
  <2>3. (d + 1) * b = d * b + b OBVIOUS
  <2> QED BY <1>1, <1>2, <2>2, <2>3
<1>5. q = d BY <1>3, <1>4
<1> QED BY <1>1, <1>2, <1>5

(* The same by TLA+'s own division.                                        *)
LEMMA QuotientIs ==
  ASSUME NEW a \in Numbers, NEW b \in Numbers, b # <<>>
  PROVE  /\ divide(a, b).quo \in Numbers /\ divide(a, b).rem \in Numbers
         /\ Value(divide(a, b).quo) = Value(a) \div Value(b)
         /\ Value(divide(a, b).rem) = Value(a) % Value(b)
         /\ Value(divide(a, b).rem) < Value(b)
<1> DEFINE q == divide(a, b).quo r == divide(a, b).rem
<1>1. /\ q \in Numbers /\ r \in Numbers /\ Value(q) * Value(b) + Value(r) = Value(a)
      /\ Value(r) < Value(b)
  BY DivideIs
<1>2. Value(b) \in Nat \ {0} /\ Value(a) \in Nat BY NumbersAre, Bounds
<1> HIDE DEF q, r
<1>3. Value(q) \in Nat /\ Value(r) \in Nat BY <1>1, NumbersAre
<1>4. Value(r) \in 0..Value(b) - 1 BY <1>1, <1>2, <1>3
<1>5. Value(q) = Value(a) \div Value(b) /\ Value(r) = Value(a) % Value(b)
  BY <1>1, <1>2, <1>3, <1>4, EuclidOnce
<1> QED BY <1>1, <1>5 DEF q, r

(* Signs and magnitudes of quotients.                                      *)
LEMMA TruncatedIs ==
  ASSUME NEW i \in Int, NEW j \in Int, j # 0
  PROVE  /\ Magnitude(i) \in Nat /\ Magnitude(j) \in Nat \ {0}
         /\ Magnitude(i) \div Magnitude(j) \in Nat /\ Magnitude(i) % Magnitude(j) \in 0..Magnitude(j) - 1
         /\ Truncated(i, j) \in Int
         /\ i - j * Truncated(i, j) = IF i < 0 THEN -(Magnitude(i) % Magnitude(j))
                                      ELSE Magnitude(i) % Magnitude(j)
<1> DEFINE a == Magnitude(i) b == Magnitude(j) q == a \div b r == a % b
<1>1. a \in Nat /\ b \in Nat \ {0} /\ a = (IF i < 0 THEN -i ELSE i) /\ b = (IF j < 0 THEN -j ELSE j)
  BY DEF Magnitude
<1>2. Truncated(i, j) = IF (i < 0) # (j < 0) THEN -q ELSE q BY DEF Truncated
<1> HIDE DEF a, b
<1>3. q \in Nat /\ r \in 0..b - 1 /\ a = b * q + r
  <2>1. a \in Nat /\ b \in Nat \ {0} BY <1>1
  <2>2. \A g \in Nat, h \in Nat \ {0} : g \div h \in Nat /\ g % h \in 0..h - 1 /\ g = h * (g \div h) + (g % h)
    OBVIOUS
  <2> QED BY <2>1, <2>2
<1> HIDE DEF q, r
<1>4. Truncated(i, j) \in Int BY <1>2, <1>3
<1>5. b * q \in Nat /\ r \in Nat BY <1>1, <1>3
<1>6. j * Truncated(i, j) = IF i < 0 THEN -(b * q) ELSE b * q
  <2>1. (-b) * q = -(b * q) /\ b * (-q) = -(b * q) /\ (-b) * (-q) = b * q BY <1>1, <1>3
  <2>2. CASE i < 0 /\ j < 0
    <3>1. Truncated(i, j) = q /\ j = -b BY <1>1, <1>2, <2>2
    <3> QED BY <2>1, <2>2, <3>1
  <2>3. CASE i < 0 /\ ~(j < 0)
    <3>1. Truncated(i, j) = -q /\ j = b BY <1>1, <1>2, <2>3
    <3> QED BY <2>1, <2>3, <3>1
  <2>4. CASE ~(i < 0) /\ j < 0
    <3>1. Truncated(i, j) = -q /\ j = -b BY <1>1, <1>2, <2>4
    <3> QED BY <2>1, <2>4, <3>1
  <2>5. CASE ~(i < 0) /\ ~(j < 0)
    <3>1. Truncated(i, j) = q /\ j = b BY <1>1, <1>2, <2>5
    <3> QED BY <2>1, <2>5, <3>1
  <2> QED BY <2>2, <2>3, <2>4, <2>5
<1>7. i - j * Truncated(i, j) = IF i < 0 THEN -r ELSE r
  <2>1. CASE i < 0
    <3>1. i = -(b * q + r) /\ j * Truncated(i, j) = -(b * q) BY <1>1, <1>3, <1>5, <1>6, <2>1
    <3> QED BY <1>5, <2>1, <3>1
  <2>2. CASE ~(i < 0)
    <3>1. i = b * q + r /\ j * Truncated(i, j) = b * q BY <1>1, <1>3, <1>6, <2>2
    <3> QED BY <1>5, <2>2, <3>1
  <2> QED BY <2>1, <2>2
<1> QED BY <1>1, <1>3, <1>4, <1>7 DEF a, b, q, r

(* For the provers.                                                        *)
LEMMA MinusZero ==
  ASSUME NEW u \in Int
  PROVE  u = 0 => -u = 0
<1>1. -u = 0 - u OBVIOUS
<1>2. u = 0 => 0 - u = 0 OBVIOUS
<1> QED BY <1>1, <1>2, Zenon

(* A quotient with the sign that it gets.                                  *)
IsQuotient(c, a, b) ==
    /\ c.neg \in BOOLEAN
    /\ c.array = divide(a.array, b.array).quo
    /\ c.array # <<>> => c.neg = (a.neg # b.neg)
(* The sign and the magnitude of a quotient.                               *)
LEMMA QuotientSigned ==
  ASSUME NEW a \in Signeds, NEW b \in Signeds, ~isZero(b), NEW c, IsQuotient(c, a, b)
  PROVE  c.array \in Numbers /\ IntOf(c) = Truncated(IntOf(a), IntOf(b))
<1> DEFINE va == Value(a.array) vb == Value(b.array) i == IntOf(a) j == IntOf(b)
           vc == Value(c.array)
<1>0. /\ c.neg \in BOOLEAN
      /\ c.array = divide(a.array, b.array).quo
      /\ c.array # <<>> => c.neg = (a.neg # b.neg)
  BY DEF IsQuotient
<1>1. /\ a.array \in Numbers /\ a.neg \in BOOLEAN /\ va \in Nat /\ Magnitude(i) = va /\ i \in Int
      /\ i = IF a.neg THEN -va ELSE va
  BY SignedIs
<1>2. /\ b.array \in Numbers /\ b.neg \in BOOLEAN /\ vb \in Nat /\ Magnitude(j) = vb /\ j \in Int
      /\ j = IF b.neg THEN -vb ELSE vb
      /\ j # 0 /\ vb # 0 /\ b.array # <<>>
  BY SignedIs DEF isZero
<1>3. c.array \in Numbers /\ vc = va \div vb BY <1>0, <1>1, <1>2, QuotientIs
<1>4. Truncated(i, j) = IF (i < 0) # (j < 0) THEN -(va \div vb) ELSE va \div vb
  BY <1>1, <1>2 DEF Truncated
<1>5. IntOf(c) = IF c.neg THEN -vc ELSE vc BY DEF IntOf
<1>6. vc \in Nat /\ (c.array = <<>> => vc = 0)
  <2>1. vc \in Nat BY <1>3, NumbersAre
  <2>2. c.array = <<>> => vc = 0 BY <1>3, Bounds
  <2> QED BY <2>1, <2>2
<1>7. vc # 0 => va # 0
  <2>1. vb \in Nat \ {0} => 0 \div vb = 0 BY <1>2
  <2> QED BY <1>2, <1>3, <2>1
<1> HIDE DEF va, vb, i, j, vc
<1>8. CASE vc = 0
  <2>1. IntOf(c) = 0
    <3>1. -vc = 0
      <4>1. vc \in Int BY <1>6
      <4> QED BY <1>8, <4>1, MinusZero
    <3> QED BY <1>5, <1>8, <3>1, Zenon
  <2>2. Truncated(i, j) = 0
    <3>1. va \div vb = 0 /\ -(va \div vb) = 0
      <4>1. va \div vb = vc /\ vc \in Int BY <1>3, <1>6
      <4> QED BY <1>8, <4>1, MinusZero, Zenon
    <3> QED BY <1>4, <3>1, Zenon
  <2> QED BY <1>3, <2>1, <2>2 DEF i, j, va, vb
<1>9. CASE vc # 0
  <2>1. c.neg = (a.neg # b.neg) BY <1>0, <1>6, <1>9
  <2>2. (i < 0) <=> a.neg
    <3>1. va # 0 BY <1>7, <1>9
    <3> QED BY <1>1, <3>1
  <2>3. (j < 0) <=> b.neg BY <1>2
  <2>4. c.neg <=> ((i < 0) # (j < 0)) 
    <3>1. a.neg \in BOOLEAN /\ b.neg \in BOOLEAN /\ c.neg \in BOOLEAN BY <1>0, <1>1, <1>2
    <3>2. CASE a.neg = b.neg
      <4>1. ~c.neg BY <2>1, <3>2
      <4>2. (i < 0) <=> (j < 0) BY <2>2, <2>3, <3>1, <3>2
      <4>3. (i < 0) = (j < 0) BY <4>2
      <4> QED BY <4>1, <4>3
    <3>3. CASE a.neg # b.neg
      <4>1. c.neg BY <2>1, <3>3
      <4>2. (i < 0) # (j < 0) BY <2>2, <2>3, <3>1, <3>3
      <4> QED BY <4>1, <4>2
    <3> QED BY <3>2, <3>3
  <2>5. IntOf(c) = Truncated(i, j)
    <3>1. CASE c.neg BY <1>3, <1>4, <1>5, <2>4, <3>1
    <3>2. CASE ~c.neg BY <1>3, <1>4, <1>5, <2>4, <3>2
    <3> QED BY <3>1, <3>2
  <2> QED BY <1>3, <2>5 DEF i, j
<1> QED BY <1>8, <1>9

(* The quotient rounds towards 0.                                          *)
LEMMA OverIs ==
  ASSUME NEW a \in Signeds, NEW b \in Signeds, ~isZero(b)
  PROVE  over(a, b) \in Signeds /\ IntOf(over(a, b)) = Truncated(IntOf(a), IntOf(b))
<1> DEFINE c == over(a, b) q == divide(a.array, b.array).quo
           r == [a EXCEPT !.array = q]
<1>1. a.neg \in BOOLEAN /\ b.neg \in BOOLEAN BY SignedIs
<1>2. isNegative(b) = b.neg BY <1>1 DEF isNegative
<1>3. r = [neg |-> a.neg, array |-> q] BY DEF Signeds
<1>4. c = [r EXCEPT !.neg = isNegative(r) # isNegative(b)] BY Zenon DEF over, WithSignOf
<1> HIDE DEF r, q, c
<1>5. c = [neg |-> isNegative(r) # isNegative(b), array |-> q] BY <1>3, <1>4
<1>6. q # <<>> => isNegative(r) = a.neg BY <1>1, <1>3 DEF isNegative, isZero
<1>7. c.array = q /\ c.neg = (isNegative(r) # isNegative(b)) BY <1>5
<1>8. c.neg \in BOOLEAN BY <1>7, Zenon
<1>9. c.array # <<>> => c.neg = (a.neg # b.neg) BY <1>2, <1>6, <1>7, Zenon
<1>10. c.array \in Numbers /\ IntOf(c) = Truncated(IntOf(a), IntOf(b))
  
  <2>1. IsQuotient(c, a, b) BY <1>7, <1>8, <1>9, Zenon DEF IsQuotient, q
  <2> QED BY <2>1, QuotientSigned
<1>11. c = [neg |-> c.neg, array |-> c.array] BY <1>5, <1>7
<1>12. c \in Signeds BY <1>8, <1>10, <1>11 DEF Signeds
<1> QED BY <1>10, <1>12 DEF c

(* div's too.                                                              *)
LEMMA DivQuoIs ==
  ASSUME NEW a \in Signeds, NEW b \in Signeds, ~isZero(b)
  PROVE  div(a, b).quo \in Signeds /\ IntOf(div(a, b).quo) = Truncated(IntOf(a), IntOf(b))
<1> DEFINE c == div(a, b).quo q == divide(a.array, b.array).quo
<1>1. a.neg \in BOOLEAN /\ b.neg \in BOOLEAN /\ a.array \in Numbers /\ b.array \in Numbers BY SignedIs
<1>2. isNegative(b) = b.neg BY <1>1 DEF isNegative
<1>3. c = [neg |-> isNegative(a) # isNegative(b), array |-> q] BY DEF div, Signed
<1> HIDE DEF c
<1>4. c.array = q /\ c.neg = (isNegative(a) # isNegative(b)) BY <1>3
<1>5. c.neg \in BOOLEAN BY <1>4, Zenon
<1>6. q # <<>> => isNegative(a) = a.neg
  <2>1. SUFFICES ASSUME q # <<>>, a.array = <<>> PROVE FALSE BY <1>1 DEF isNegative, isZero
  <2>2. b.array # <<>> BY DEF isZero
  <2>3. q \in Numbers /\ Value(q) = Value(a.array) \div Value(b.array)
    BY <1>1, <2>2, QuotientIs
  <2>4. Value(a.array) = 0 BY <1>1, <2>1, Bounds
  <2>5. Value(b.array) \in Nat \ {0} BY <1>1, <2>2, NumbersAre, Bounds
  <2>6. Value(q) = 0 BY <2>3, <2>4, <2>5
  <2>7. Value(q) > 0 BY <2>1, <2>3, Bounds
  <2> QED BY <2>6, <2>7
<1>7. c.array # <<>> => c.neg = (a.neg # b.neg) BY <1>2, <1>4, <1>6, Zenon
<1>8. c.array \in Numbers /\ IntOf(c) = Truncated(IntOf(a), IntOf(b))
  
  <2>1. IsQuotient(c, a, b) BY <1>4, <1>5, <1>7, Zenon DEF IsQuotient
  <2> QED BY <2>1, QuotientSigned
<1>9. c \in Signeds
  <2>1. c = [neg |-> c.neg, array |-> c.array] BY <1>3, <1>4
  <2> QED BY <1>5, <1>8, <2>1 DEF Signeds
<1> QED BY <1>8, <1>9 DEF c

(* A remainder has the sign of the dividend.                               *)
LEMMA RemainderSigned ==
  ASSUME NEW a \in Signeds, NEW b \in Signeds, ~isZero(b), NEW c,
         c = [neg |-> a.neg, array |-> divide(a.array, b.array).rem]
  PROVE  c \in Signeds /\ IntOf(c) = IntOf(a) - IntOf(b) * Truncated(IntOf(a), IntOf(b))
<1> DEFINE va == Value(a.array) vb == Value(b.array) i == IntOf(a) j == IntOf(b) m == va % vb
<1>1. /\ a.array \in Numbers /\ a.neg \in BOOLEAN /\ va \in Nat /\ Magnitude(i) = va /\ i \in Int
      /\ i = IF a.neg THEN -va ELSE va
  BY SignedIs
<1>2. /\ b.array \in Numbers /\ vb \in Nat /\ Magnitude(j) = vb /\ j \in Int
      /\ j # 0 /\ vb # 0 /\ b.array # <<>>
  BY SignedIs DEF isZero
<1>3. c.array \in Numbers /\ Value(c.array) = m /\ c.neg = a.neg BY <1>1, <1>2, QuotientIs
<1>4. c \in Signeds BY <1>1, <1>3 DEF Signeds
<1>5. i - j * Truncated(i, j) = IF i < 0 THEN -m ELSE m
  BY <1>1, <1>2, TruncatedIs
<1>6. IntOf(c) = IF a.neg THEN -m ELSE m BY <1>3 DEF IntOf
<1>7. m \in Nat /\ (va = 0 => m = 0) BY <1>1, <1>2
<1> HIDE DEF va, vb, i, j, m
<1>8. IntOf(c) = i - j * Truncated(i, j)
  <2>1. CASE a.neg /\ va # 0
    <3>1. i < 0 BY <1>1, <2>1
    <3> QED BY <1>5, <1>6, <2>1, <3>1
  <2>2. CASE ~a.neg
    <3>1. ~(i < 0) BY <1>1, <2>2
    <3> QED BY <1>5, <1>6, <2>2, <3>1
  <2>3. CASE va = 0
    <3>1. m = 0 BY <1>7, <2>3
    <3>2. -m = 0
      <4>1. m \in Int BY <1>7
      <4> QED BY <3>1, <4>1, MinusZero
    <3> QED BY <1>5, <1>6, <3>1, <3>2, Zenon
  <2> QED BY <1>1, <2>1, <2>2, <2>3
<1> QED BY <1>4, <1>8 DEF i, j

(* The remainder is what the quotient leaves.                              *)
LEMMA ModuloIs ==
  ASSUME NEW a \in Signeds, NEW b \in Signeds, ~isZero(b)
  PROVE  /\ modulo(a, b) \in Signeds /\ div(a, b).rem \in Signeds
         /\ IntOf(modulo(a, b)) = IntOf(a) - IntOf(b) * Truncated(IntOf(a), IntOf(b))
         /\ IntOf(div(a, b).rem) = IntOf(a) - IntOf(b) * Truncated(IntOf(a), IntOf(b))
<1>1. modulo(a, b) = [neg |-> a.neg, array |-> divide(a.array, b.array).rem] BY DEF modulo, Signeds
<1>2. div(a, b).rem = [neg |-> a.neg, array |-> divide(a.array, b.array).rem] BY DEF div, Signed
<1> QED BY <1>1, <1>2, RemainderSigned

-----------------------------------------------------------------------------
(* Objects of integers.                                                    *)

(* An object put together from a sign and words.                           *)
LEMMA MadeIs ==
  ASSUME NEW v \in Numbers, NEW i \in Int, NEW a
  PROVE  /\ i < 0 /\ i = -Value(v) /\ a = [neg |-> TRUE, array |-> v] => a \in Signeds /\ IntOf(a) = i
         /\ i >= 0 /\ i = Value(v) /\ a = [neg |-> FALSE, array |-> v] => a \in Signeds /\ IntOf(a) = i
<1>1. ASSUME i < 0, i = -Value(v), a = [neg |-> TRUE, array |-> v] PROVE a \in Signeds /\ IntOf(a) = i
  <2>1. a \in Signeds BY <1>1 DEF Signeds
  <2>2. a.neg = TRUE /\ a.array = v BY <1>1
  <2>3. IntOf(a) = -Value(v) BY <2>2 DEF IntOf
  <2> QED BY <1>1, <2>1, <2>3
<1>2. ASSUME i >= 0, i = Value(v), a = [neg |-> FALSE, array |-> v] PROVE a \in Signeds /\ IntOf(a) = i
  <2>1. a \in Signeds BY <1>2 DEF Signeds
  <2>2. a.neg = FALSE /\ a.array = v BY <1>2
  <2>3. IntOf(a) = Value(v) BY <2>2 DEF IntOf
  <2> QED BY <1>2, <2>1, <2>3
<1> QED BY <1>1, <1>2

(* The number that holds an integer.                                       *)
LEMMA WordBelowIs ==
  ASSUME NEW n \in Nat \ {0}, NEW v \in Numbers, Value(v) = n \div Base
  PROVE  <<n % Base>> \o v \in Numbers /\ Value(<<n % Base>> \o v) = n
<1> DEFINE w == n % Base e == <<w>> \o v
<1>1. /\ n \div Base \in Nat /\ w \in 0..Base - 1 /\ n = (n \div Base) * Base + w
      /\ v \in Arrays /\ Value(v) = V(v, Len(v)) /\ Len(v) \in Nat
  <2>1. /\ n \div Base \in Nat /\ w \in 0..Base - 1 /\ n = (n \div Base) * Base + w
    BY BaseDivides
  <2> QED BY <2>1, NumbersAre
<1> HIDE DEF w
<1>2. e \in Arrays /\ Len(e) = Len(v) + 1 /\ V(e, Len(v) + 1) = V(v, Len(v)) * Base + w
      /\ e[Len(v) + 1] = IF v = <<>> THEN w ELSE v[Len(v)]
  BY <1>1, BelowIs
<1> HIDE DEF e
<1>3. e[Len(v) + 1] # 0
  <2>1. CASE v = <<>>
    <3>1. Value(v) = 0 BY <2>1, EmptyIs
    <3>2. 0 * Base = 0 BY BaseIs
    <3>3. w # 0
      <4>1. SUFFICES ASSUME w = 0 PROVE FALSE OBVIOUS
      <4>2. n = 0 * Base + 0 BY <1>1, <3>1, <4>1
      <4> QED BY <3>2, <4>2
    <3> QED BY <1>2, <2>1, <3>3
  <2>2. CASE v # <<>> BY <1>2, <2>2 DEF Numbers
  <2> QED BY <2>1, <2>2
<1>4. e \in Numbers BY <1>2, <1>3, NumberMade
<1>5. Value(e) = V(e, Len(e)) BY <1>4, NumbersAre
<1> QED BY <1>1, <1>2, <1>4, <1>5 DEF e, w

(* Division by the base makes a number smaller.                            *)
LEMMA QuotientSmaller ==
  ASSUME NEW n \in Nat \ {0}, NEW b \in Nat \ {0, 1}
  PROVE  n \div b \in Nat /\ n \div b < n
<1>1. n \div b \in Nat /\ n % b \in 0..b - 1 /\ n = b * (n \div b) + (n % b) OBVIOUS
<1>2. PICK q \in Nat, r \in Nat : q = n \div b /\ n = b * q + r BY <1>1
<1>3. b * q >= 2 * q /\ b * q \in Nat OBVIOUS
<1> QED BY <1>2, <1>3

(* Every natural number has an array.                                      *)
LEMMA EachHasANumber ==
  ASSUME NEW n \in Nat
  PROVE  \E v \in Numbers : Value(v) = n
<1> DEFINE T == {k \in Nat : \E v \in Numbers : Value(v) = k}
<1>1. ASSUME NEW k \in Nat, \A m \in 0..k - 1 : m \in T PROVE k \in T
  <2>1. CASE k = 0 BY <2>1, EmptyIs
  <2>2. CASE k # 0
    <3>1. Base \in Nat \ {0, 1} BY BaseIs
    <3>2. k \div Base \in Nat /\ k \div Base < k BY <2>2, <3>1, QuotientSmaller
    <3>3. k \div Base \in 0..k - 1 BY <3>2
    <3>4. PICK v \in Numbers : Value(v) = k \div Base BY <1>1, <3>3
    <3>5. k \in Nat \ {0} BY <2>2
    <3> QED BY <3>4, <3>5, WordBelowIs
  <2> QED BY <2>1, <2>2
<1> HIDE DEF T
<1>2. n \in T BY <1>1, NatSetStrongInduction
<1> QED BY <1>2 DEF T

(* Big gives the object of its integer.                                    *)
LEMMA BigIs ==
  ASSUME NEW i \in Int
  PROVE  Big(i) \in Signeds /\ IntOf(Big(i)) = i
<1> DEFINE Is(f) == f = [n \in Nat |-> IF n = 0 THEN <<>> ELSE <<n % Base>> \o f[n \div Base]]
           words == CHOOSE f : Is(f)
           g == [n \in Nat |-> CHOOSE v \in Numbers : Value(v) = n]
<1>1. \A n \in Nat : g[n] \in Numbers /\ Value(g[n]) = n BY EachHasANumber
<1>2. Is(g)
  <2>1. g = [n \in Nat |-> g[n]] OBVIOUS
  <2> HIDE DEF g
  <2>2. \A n \in Nat : g[n] = IF n = 0 THEN <<>> ELSE <<n % Base>> \o g[n \div Base]
    <3> TAKE n \in Nat
    <3>1. CASE n = 0
      <4>1. g[n] = <<>> BY <1>1, <3>1, EmptyIs, IsLessIs
      <4> QED BY <3>1, <4>1
    <3>2. CASE n # 0
      <4>1. n \in Nat \ {0} /\ Base \in Nat \ {0, 1} BY <3>2, BaseIs
      <4>2. n \div Base \in Nat BY <4>1, QuotientSmaller
      <4> DEFINE v == g[n \div Base]
      <4>3. v \in Numbers /\ Value(v) = n \div Base BY <1>1, <4>2
      <4> HIDE DEF v
      <4>4. <<n % Base>> \o v \in Numbers /\ Value(<<n % Base>> \o v) = n BY <4>1, <4>3, WordBelowIs
      <4> DEFINE e == <<n % Base>> \o v
      <4>5. e \in Numbers /\ Value(e) = n /\ g[n] \in Numbers /\ Value(g[n]) = n BY <1>1, <4>4
      <4> HIDE DEF e
      <4>6. g[n] = e BY <4>5, IsLessIs
      <4> QED BY <3>2, <4>6 DEF e, v
    <3> QED BY <3>1, <3>2
  <2> QED BY <2>1, <2>2
<1>3. Is(words) BY <1>2
<1>4. Big(i) = [neg |-> i < 0, array |-> words[Magnitude(i)]] BY Zenon DEF Big
<1> HIDE DEF words
<1> DEFINE T == {n \in Nat : words[n] \in Numbers /\ Value(words[n]) = n}
<1>5. ASSUME NEW n \in Nat, \A m \in 0..n - 1 : m \in T PROVE n \in T
  <2>1. CASE n = 0
    <3>1. words[n] = <<>> BY <1>3, <2>1
    <3> QED BY <2>1, <3>1, EmptyIs
  <2>2. CASE n # 0
    <3>1. n \in Nat \ {0} /\ Base \in Nat \ {0, 1} BY <2>2, BaseIs
    <3>2. n \div Base \in Nat /\ n \div Base < n BY <3>1, QuotientSmaller
    <3>3. n \div Base \in 0..n - 1 BY <3>2
    <3> DEFINE v == words[n \div Base]
    <3>4. v \in Numbers /\ Value(v) = n \div Base BY <1>5, <3>3
    <3>5. words[n] = <<n % Base>> \o v BY <1>3, <2>2
    <3> HIDE DEF v
    <3>6. <<n % Base>> \o v \in Numbers /\ Value(<<n % Base>> \o v) = n BY <3>1, <3>4, WordBelowIs
    <3> QED BY <3>5, <3>6
  <2> QED BY <2>1, <2>2
<1> HIDE DEF T
<1>6. \A n \in Nat : n \in T BY <1>5, NatSetStrongInduction
<1>7. Magnitude(i) \in Nat /\ (i = IF i < 0 THEN -Magnitude(i) ELSE Magnitude(i)) BY DEF Magnitude
<1> DEFINE a == words[Magnitude(i)]
<1>8. a \in Numbers /\ Value(a) = Magnitude(i) BY <1>6, <1>7 DEF T
<1>9. Big(i) = [neg |-> i < 0, array |-> a] BY <1>4
<1> HIDE DEF a
<1> QED
  <2>1. CASE i < 0
    <3>1. (i < 0) = TRUE BY <2>1
    <3>2. Big(i) = [neg |-> TRUE, array |-> a] BY <1>9, <3>1, Zenon
    <3>3. i \in Int /\ i = -Value(a) BY <1>7, <1>8, <2>1
    <3> QED BY <1>8, <2>1, <3>2, <3>3, MadeIs
  <2>2. CASE ~(i < 0)
    <3>1. (i < 0) = FALSE BY <2>2
    <3>2. Big(i) = [neg |-> FALSE, array |-> a] BY <1>9, <3>1, Zenon
    <3>3. i \in Int /\ i >= 0 /\ i = Value(a) BY <1>7, <1>8, <2>2
    <3> QED BY <1>8, <3>2, <3>3, MadeIs
  <2> QED BY <2>1, <2>2

(* The constructor from a word.                                            *)
LEMMA FromIntIs ==
  ASSUME NEW i \in -(Base - 1)..Base - 1
  PROVE  FromInt(i) \in Signeds /\ IntOf(FromInt(i)) = i
<1> DEFINE w == IF i < 0 THEN -i ELSE i
           c == <<w>>
<1>1. Base \in Nat \ {0, 1} BY BaseIs
<1>2. w \in 0..Base - 1 /\ w \in Int /\ (i = IF i < 0 THEN -w ELSE w) BY <1>1
<1>3. FromInt(i) = [neg |-> i < 0, array |-> cleanup(c)] BY DEF FromInt
<1> HIDE DEF w
<1>4. c \in Arrays /\ Len(c) = 1 /\ c[1] = w BY <1>2 DEF Arrays
<1> HIDE DEF c
<1>5. V(c, 1) = w
  <2>1. V(c, 1) = V(c, 0) + c[1] * PB(0) BY <1>2, <1>4, VNext
  <2>2. V(c, 0) = 0 BY VType
  <2>3. PB(0) = 1 BY PBIs
  <2> QED BY <1>2, <1>4, <2>1, <2>2, <2>3
<1>6. cleanup(c) \in Numbers /\ Value(cleanup(c)) = w BY <1>4, <1>5, CleanupIs
<1> DEFINE v == cleanup(c)
<1>7. v \in Numbers /\ Value(v) = w BY <1>6
<1>8. FromInt(i) = [neg |-> i < 0, array |-> v] BY <1>3
<1> HIDE DEF v
<1> QED
  <2>1. CASE i < 0
    <3>1. (i < 0) = TRUE BY <2>1
    <3>2. FromInt(i) = [neg |-> TRUE, array |-> v] BY <1>8, <3>1, Zenon
    <3>3. i \in Int /\ i = -Value(v) BY <1>1, <1>2, <1>7, <2>1
    <3> QED BY <1>7, <2>1, <3>2, <3>3, MadeIs
  <2>2. CASE ~(i < 0)
    <3>1. (i < 0) = FALSE BY <2>2
    <3>2. FromInt(i) = [neg |-> FALSE, array |-> v] BY <1>8, <3>1, Zenon
    <3>3. i \in Int /\ i >= 0 /\ i = Value(v) BY <1>1, <1>2, <1>7, <2>2
    <3> QED BY <1>7, <3>2, <3>3, MadeIs
  <2> QED BY <2>1, <2>2

-----------------------------------------------------------------------------
(* Shifts.                                                                 *)

(* A shift is one of whole words and one of bits.                          *)
LEMMA ShiftSplits ==
  ASSUME NEW n \in Nat
  PROVE  /\ n \div WordBits \in Nat /\ n % WordBits \in Nat /\ n % WordBits < WordBits
         /\ 2 ^ (n % WordBits) \in Nat \ {0} /\ 2 ^ (WordBits - (n % WordBits)) \in Nat \ {0}
         /\ 2 ^ (n % WordBits) * 2 ^ (WordBits - (n % WordBits)) = Base
         /\ PB(n \div WordBits) * 2 ^ (n % WordBits) = 2 ^ n
<1>1. WordBits \in Nat \ {0} BY BaseIs
<1>2. PICK k \in Nat, m \in 0..WordBits - 1 :
           k = n \div WordBits /\ m = n % WordBits /\ n = WordBits * k + m
  <2>1. \A h \in Nat \ {0} : n \div h \in Nat /\ n % h \in 0..h - 1 /\ n = h * (n \div h) + (n % h) OBVIOUS
  <2> QED BY <1>1, <2>1
<1>3. m \in Nat /\ WordBits - m \in Nat /\ m + (WordBits - m) = WordBits /\ m < WordBits
      /\ WordBits * k \in Nat
  BY <1>1, <1>2
<1>4. 2 ^ m \in Nat \ {0} /\ 2 ^ (WordBits - m) \in Nat \ {0} BY <1>3, PowerPositive
<1>5. 2 ^ (m + (WordBits - m)) = 2 ^ m * 2 ^ (WordBits - m) BY <1>3, PowerSum
<1>6. 2 ^ (WordBits * k + m) = 2 ^ (WordBits * k) * 2 ^ m BY <1>3, PowerSum
<1>7. PB(k) = 2 ^ (WordBits * k) BY DEF PB, Pw
<1> QED BY <1>2, <1>3, <1>4, <1>5, <1>6, <1>7 DEF Base

(* A word, or 0 outside the array.                                         *)
LEMMA WordIs ==
  ASSUME NEW v \in Arrays, NEW i \in Int
  PROVE  Word(v, i) \in 0..Base - 1 /\ Word(v, i) \in Nat
         /\ (i \notin 1..Len(v) => Word(v, i) = 0) /\ (i \in 1..Len(v) => Word(v, i) = v[i])
<1>1. DOMAIN v = 1..Len(v) /\ \A j \in 1..Len(v) : v[j] \in 0..Base - 1 BY ArraysAre
<1>2. Base \in Nat \ {0, 1} BY BaseIs
<1> QED BY <1>1, <1>2 DEF Word

(* For the provers: what division and remainder are.                       *)
LEMMA DivMod ==
  ASSUME NEW g \in Nat, NEW h \in Nat \ {0}
  PROVE  g \div h \in Nat /\ g % h \in 0..h - 1 /\ g = h * (g \div h) + (g % h)
OBVIOUS

(* What a product with a power of 2 hands on, and what it keeps.           *)
LEMMA ShiftedWord ==
  ASSUME NEW p \in Nat \ {0}, NEW q \in Nat \ {0}, NEW w \in 0..p * q - 1
  PROVE  /\ w \div q \in 0..p - 1 /\ (w * p) % (p * q) \in 0..p * q - p
         /\ w * p = (w \div q) * (p * q) + ((w * p) % (p * q))
<1>1. p * q \in Nat \ {0} /\ w \in Nat OBVIOUS
<1>2. PICK d \in Nat, m \in 0..q - 1 : d = w \div q /\ w = q * d + m
  <2>1. w \div q \in Nat /\ w % q \in 0..q - 1 /\ w = q * (w \div q) + (w % q) BY <1>1, DivMod
  <2> QED BY <2>1
<1>3. d \in 0..p - 1
  <2>1. SUFFICES ASSUME p <= d PROVE FALSE BY <1>1
  <2>2. p * q <= d * q BY <2>1, TimesMonotone
  <2>3. d * q = q * d /\ q * d \in Nat BY <1>1
  <2> QED BY <1>1, <1>2, <2>2, <2>3
<1>4. w * p = d * (p * q) + m * p
  <2>1. (q * d + m) * p = d * (p * q) + m * p BY <1>1
  <2> QED BY <1>2, <2>1
<1>5. m * p \in Nat /\ m * p <= p * q - p
  <2>1. m + 1 <= q /\ m + 1 \in Nat BY <1>2
  <2>2. (m + 1) * p <= q * p BY <2>1, TimesMonotone
  <2>3. (m + 1) * p = m * p + p /\ m * p \in Nat /\ q * p = p * q BY <1>2
  <2> QED BY <1>1, <2>2, <2>3
<1>6. m * p = (w * p) % (p * q)
  <2>1. PICK b \in Nat \ {0}, a \in Nat, r \in Nat : b = p * q /\ a = w * p /\ r = m * p BY <1>1, <1>5
  <2>2. r \in 0..b - 1 /\ d * b + r = a BY <1>4, <1>5, <2>1
  <2>3. r = a % b BY <2>2, EuclidOnce
  <2> QED BY <2>1, <2>3
<1> QED BY <1>1, <1>2, <1>3, <1>4, <1>5, <1>6

(* A shift to the left multiplies by the power of 2.                       *)
LEMMA ShiftLeftIs ==
  ASSUME NEW v \in Numbers, NEW n \in Nat
  PROVE  shiftLeft(v, n) \in Numbers /\ Value(shiftLeft(v, n)) = Value(v) * 2 ^ n
<1> DEFINE wo == n \div WordBits bo == n % WordBits p == 2 ^ bo q == 2 ^ (WordBits - bo)
           N == Len(v) + wo + 1
           e == [i \in 0..N |-> Word(v, i - wo)]
           r == [i \in 1..N |-> ((Word(v, i - wo) * 2 ^ bo) % Base)
                                + (Word(v, i - wo - 1) \div 2 ^ (WordBits - bo))]
<1>1. /\ wo \in Nat /\ p \in Nat \ {0} /\ q \in Nat \ {0} /\ p * q = Base /\ PB(wo) * p = 2 ^ n
  BY ShiftSplits
<1>2. v \in Arrays /\ Len(v) \in Nat /\ Value(v) \in Nat /\ Value(v) = V(v, Len(v)) BY NumbersAre
<1>3. shiftLeft(v, n) = cleanup(r) BY DEF shiftLeft
<1>4. N \in Nat /\ N # 0 /\ wo + Len(v) <= N /\ (wo + Len(v)) + 1 = N BY <1>1, <1>2
<1>5. \A i \in 1..N : r[i] = ((e[i] * p) % Base) + (e[i - 1] \div q)
  <2> TAKE i \in 1..N
  <2>1. i \in 0..N /\ i - 1 \in 0..N /\ (i - 1) - wo = i - wo - 1 BY <1>1, <1>4
  <2>2. e[i] = Word(v, i - wo) /\ e[i - 1] = Word(v, (i - 1) - wo) BY <2>1
  <2>3. r[i] = ((Word(v, i - wo) * p) % Base) + (Word(v, i - wo - 1) \div q) OBVIOUS
  <2> HIDE DEF r, e, p, q
  <2> QED BY <2>1, <2>2, <2>3
<1>6. \A i \in 0..N : e[i] \in 0..p * q - 1 /\ e[i] \in Int
  <2> TAKE i \in 0..N
  <2>1. i - wo \in Int BY <1>1
  <2>2. Word(v, i - wo) \in 0..Base - 1 BY <1>2, <2>1, WordIs
  <2>3. e[i] \in 0..Base - 1 BY <2>2
  <2> HIDE DEF e, p, q
  <2> QED BY <1>1, <2>3
<1>7. e[0] = 0 /\ e[N] = 0
  <2>1. 0 - wo \in Int /\ 0 - wo \notin 1..Len(v) /\ N - wo \in Int /\ N - wo \notin 1..Len(v)
    BY <1>1, <1>2
  <2>2. Word(v, 0 - wo) = 0 /\ Word(v, N - wo) = 0 BY <1>2, <2>1, WordIs
  <2>3. 0 \in 0..N /\ N \in 0..N BY <1>4
  <2> QED BY <2>2, <2>3
<1>8. V(e, N) = PB(wo) * Value(v)
  <2>1. \A i \in 1..N : e[i] = Word(v, i - wo)
    <3>1. \A i \in 1..N : i \in 0..N BY <1>4
    <3> QED BY <3>1
  <2> HIDE DEF e, N, wo, p, q
  <2>2. V(e, N) = PB(wo) * V(v, Len(v)) BY <1>1, <1>2, <1>4, <2>1, ShiftIs
  <2> QED BY <1>2, <2>2
<1>9. r = [i \in 1..N |-> r[i]] OBVIOUS
<1> HIDE DEF wo, bo, p, q, N, e, r
<1>10. \A i \in 1..N : /\ e[i - 1] \div q \in 0..p - 1 /\ (e[i] * p) % Base \in 0..Base - p
                       /\ e[i] * p = (e[i] \div q) * Base + ((e[i] * p) % Base)
                       /\ e[i] \div q \in Nat
  <2> TAKE i \in 1..N
  <2>1. i \in 0..N /\ i - 1 \in 0..N BY <1>4
  <2>2. PICK g \in 0..p * q - 1, h \in 0..p * q - 1 : g = e[i] /\ h = e[i - 1] BY <1>6, <2>1
  <2>3. /\ g \div q \in 0..p - 1 /\ (g * p) % (p * q) \in 0..p * q - p
        /\ g * p = (g \div q) * (p * q) + ((g * p) % (p * q))
    BY <1>1, ShiftedWord
  <2>4. h \div q \in 0..p - 1 BY <1>1, ShiftedWord
  <2> QED BY <1>1, <2>2, <2>3, <2>4
<1>11. \A i \in 1..N : r[i] \in 0..Base - 1 /\ r[i] \in Int
  <2> TAKE i \in 1..N
  <2>1. e[i - 1] \div q \in 0..p - 1 /\ (e[i] * p) % Base \in 0..Base - p BY <1>10
  <2>2. r[i] = ((e[i] * p) % Base) + (e[i - 1] \div q) BY <1>5
  <2>3. Base \in Nat BY BaseIs
  <2> QED BY <1>1, <2>1, <2>2, <2>3
<1>12. r \in Arrays /\ Len(r) = N BY <1>4, <1>9, <1>11, ArrayMade
<1> DEFINE T == {k \in Nat : k <= N => V(r, k) + (e[k] \div q) * PB(k) = V(e, k) * p}
<1>13. 0 \in T
  <2>1. V(r, 0) = 0 /\ V(e, 0) = 0 BY VType
  <2>2. PB(0) = 1 BY PBIs
  <2>3. 0 \div q = 0 BY <1>1
  <2> QED BY <1>1, <1>7, <2>1, <2>2, <2>3
<1>14. ASSUME NEW k \in Nat, k \in T PROVE k + 1 \in T
  <2>1. SUFFICES ASSUME k + 1 <= N
                 PROVE  V(r, k + 1) + (e[k + 1] \div q) * PB(k + 1) = V(e, k + 1) * p
    OBVIOUS
  <2>2. k + 1 \in 1..N /\ (k + 1) - 1 = k /\ k <= N /\ k \in 0..N /\ k + 1 \in 0..N BY <1>4, <2>1
  <2>3. V(r, k + 1) = V(r, k) + r[k + 1] * PB(k)
    <3>1. r[k + 1] \in Int BY <1>11, <2>2
    <3> QED BY <3>1, VNext
  <2>4. V(e, k + 1) = V(e, k) + e[k + 1] * PB(k) /\ e[k + 1] \in Int
    <3>1. e[k + 1] \in Int BY <1>6, <2>2
    <3> QED BY <3>1, VNext
  <2>5. PB(k + 1) = Base * PB(k) BY PBNext
  <2>6. V(r, k) + (e[k] \div q) * PB(k) = V(e, k) * p BY <1>14, <2>2
  <2> DEFINE c == e[k] \div q d == e[k + 1] \div q m == (e[k + 1] * p) % Base g == e[k + 1]
             u == V(r, k) t == V(e, k) z == PB(k) b == Base
  <2>7. r[k + 1] = m + c BY <1>5, <2>2
  <2>8. g * p = d * b + m /\ d \in Int /\ m \in Int /\ c \in Int
    <3>1. e[(k + 1) - 1] \div q \in 0..p - 1 /\ m \in 0..Base - p /\ g * p = d * Base + m /\ d \in Nat
      BY <1>10, <2>2
    <3>2. Base \in Nat BY BaseIs
    <3> HIDE DEF d, m, g
    <3> QED BY <1>1, <2>2, <3>1, <3>2
  <2>9. u \in Int /\ t \in Int /\ z \in Int /\ b \in Int /\ g \in Int /\ p \in Int
    <3>1. u \in Int BY VType
    <3>2. t \in Int BY VType
    <3>3. z \in Int BY PBIs
    <3> QED BY <1>1, <2>4, <3>1, <3>2, <3>3, BaseIs
  <2>10. u + c * z = t * p BY <2>6
  <2>11. V(r, k + 1) = u + (m + c) * z BY <2>3, <2>7
  <2>12. V(e, k + 1) = t + g * z BY <2>4
  <2> HIDE DEF c, d, m, g, u, t, z, b
  <2>13. (u + (m + c) * z) + d * (b * z) = (t + g * z) * p
    <3>1. (m + c) * z = m * z + c * z /\ m * z \in Int /\ c * z \in Int BY <2>8, <2>9
    <3>2. (t + g * z) * p = t * p + (g * p) * z /\ t * p \in Int BY <2>9
    <3>3. (g * p) * z = (d * b + m) * z BY <2>8
    <3>4. (d * b + m) * z = d * (b * z) + m * z /\ d * (b * z) \in Int BY <2>8, <2>9
    <3>5. PICK mz \in Int, cz \in Int, dbz \in Int, tp \in Int :
               mz = m * z /\ cz = c * z /\ dbz = d * (b * z) /\ tp = t * p
      BY <3>1, <3>2, <3>4
    <3>6. (u + (m + c) * z) + d * (b * z) = (u + (mz + cz)) + dbz BY <3>1, <3>5
    <3>7. (t + g * z) * p = tp + (dbz + mz) BY <3>2, <3>3, <3>4, <3>5
    <3>8. u + cz = tp BY <2>10, <3>5
    <3>9. (u + (mz + cz)) + dbz = tp + (dbz + mz) BY <2>9, <3>8
    <3> QED BY <3>6, <3>7, <3>9
  <2>14. V(r, k + 1) + d * PB(k + 1) = V(e, k + 1) * p BY <2>5, <2>11, <2>12, <2>13 DEF b, z
  <2> QED BY <2>14 DEF d
<1> HIDE DEF T
<1>15. N \in T BY <1>4, <1>13, <1>14, NatSetInduction
<1>16. V(r, N) + (e[N] \div q) * PB(N) = V(e, N) * p BY <1>4, <1>15 DEF T
<1>17. V(r, N) = Value(v) * 2 ^ n
  <2>1. e[N] \div q = 0
    <3>1. 0 \div q = 0 BY <1>1
    <3> QED BY <1>7, <3>1
  <2>2. 0 * PB(N) = 0 BY <1>4, PBIs
  <2>3. V(r, N) \in Int BY <1>4, VType
  <2>4. PB(wo) \in Nat BY <1>1, PBIs
  <2>5. (PB(wo) * Value(v)) * p = Value(v) * (PB(wo) * p) BY <1>1, <1>2, <2>4
  <2>6. V(r, N) = V(e, N) * p
    <3>1. (e[N] \div q) * PB(N) = 0 BY <2>1, <2>2
    <3> QED BY <1>16, <2>3, <3>1
  <2> QED BY <1>1, <1>8, <2>5, <2>6
<1>18. cleanup(r) \in Numbers /\ Value(cleanup(r)) = V(r, N) BY <1>12, CleanupIs
<1> QED BY <1>3, <1>17, <1>18

(* What is above and below bit n, word by word.                            *)
Joined(r, e, n, p, q) ==
    /\ \A i \in 1..n + 1 : e[i] \in 0..Base - 1
    /\ \A i \in 1..n : r[i] = (e[i] \div p) + (e[i + 1] % p) * q

(* Right shifts, summed up word by word.                                   *)
LEMMA ShiftRightSums ==
  ASSUME NEW N \in Nat, NEW p \in Nat \ {0}, NEW q \in Nat \ {0}, p * q = Base,
         NEW e, NEW r, Joined(r, e, N, p, q)
  PROVE  /\ \A i \in 1..N : r[i] \in 0..Base - 1 /\ r[i] \in Int
         /\ V(r, N) * p + (e[1] % p) = V(e, N) + (e[N + 1] % p) * PB(N)
<1> USE DEF Joined
<1>1. Base \in Nat \ {0, 1} BY BaseIs
<1>2. \A i \in 1..N + 1 : /\ e[i] \in Nat /\ e[i] \in Int
                          /\ e[i] \div p \in 0..q - 1 /\ e[i] % p \in 0..p - 1
                          /\ e[i] = (e[i] \div p) * p + (e[i] % p)
  <2> TAKE i \in 1..N + 1
  <2>1. PICK w \in Nat : w = e[i] /\ w < p * q BY <1>1
  <2>2. w \div p \in Nat /\ w % p \in 0..p - 1 /\ w = p * (w \div p) + (w % p) BY DivMod
  <2>3. PICK d \in Nat, m \in 0..p - 1 : d = w \div p /\ m = w % p /\ w = p * d + m BY <2>2
  <2>4. d < q
    <3>1. SUFFICES ASSUME q <= d PROVE FALSE OBVIOUS
    <3>2. q * p <= d * p BY <3>1, TimesMonotone
    <3>3. q * p = p * q /\ d * p = p * d /\ p * d \in Nat /\ p * q \in Nat OBVIOUS
    <3> QED BY <2>1, <2>3, <3>2, <3>3
  <2>5. p * d = d * p OBVIOUS
  <2>6. e[i] = w /\ e[i] \div p = d /\ e[i] % p = m BY <2>1, <2>3
  <2>7. d \in 0..q - 1 /\ w = d * p + m BY <2>3, <2>4, <2>5
  <2>8. e[i] \in Nat /\ e[i] \in Int BY <2>6
  <2>9. e[i] \div p \in 0..q - 1 /\ e[i] % p \in 0..p - 1 BY <2>6, <2>7
  <2> QED BY <2>6, <2>7, <2>8, <2>9
<1>3. \A i \in 1..N : r[i] \in 0..Base - 1 /\ r[i] \in Int
  <2> TAKE i \in 1..N
  <2>1. i \in 1..N + 1 /\ i + 1 \in 1..N + 1 OBVIOUS
  <2>2. PICK d \in 0..q - 1, m \in 0..p - 1 : d = e[i] \div p /\ m = e[i + 1] % p BY <1>2, <2>1
  <2>3. r[i] = d + m * q BY <2>2
  <2>4. (m + 1) * q <= p * q
    <3>1. m + 1 <= p /\ m + 1 \in Nat OBVIOUS
    <3> QED BY <3>1, TimesMonotone
  <2>5. (m + 1) * q = m * q + q /\ m * q \in Nat OBVIOUS
  <2> QED BY <1>1, <2>3, <2>4, <2>5
<1> DEFINE D(i) == e[i] \div p  M(i) == e[i] % p
<1>4. /\ \A i \in 1..N + 1 : e[i] \in Int /\ D(i) \in Int /\ M(i) \in Int /\ e[i] = D(i) * p + M(i)
      /\ \A i \in 1..N : r[i] = D(i) + M(i + 1) * q
  <2>1. \A i \in 1..N + 1 : e[i] \in Int /\ D(i) \in Int /\ M(i) \in Int BY <1>2
  <2>2. \A i \in 1..N + 1 : e[i] = D(i) * p + M(i) BY <1>2
  <2>3. \A i \in 1..N : r[i] = D(i) + M(i + 1) * q BY Zenon
  <2> QED BY <2>1, <2>2, <2>3
<1> DEFINE T == {k \in Nat : k <= N => V(r, k) * p + M(1) = V(e, k) + M(k + 1) * PB(k)}
<1>5. SUFFICES N \in T
  <2> HIDE DEF M, T
  <2>1. ASSUME N \in T PROVE V(r, N) * p + M(1) = V(e, N) + M(N + 1) * PB(N) BY <2>1 DEF T
  <2> QED BY <1>3, <2>1 DEF M
<1> HIDE DEF D, M
<1>6. 0 \in T
  <2>1. V(r, 0) = 0 /\ V(e, 0) = 0 BY VType
  <2>2. PB(0) = 1 BY PBIs
  <2>3. 1 \in 1..N + 1 /\ 0 + 1 = 1 OBVIOUS
  <2>4. PICK m \in Int : m = M(1) BY <1>4, <2>3
  <2>5. 0 * p + m = 0 + m * 1 BY <2>4
  <2> QED BY <2>1, <2>2, <2>3, <2>4, <2>5
<1>7. ASSUME NEW k \in Nat, k \in T PROVE k + 1 \in T
  <2>1. SUFFICES ASSUME k + 1 <= N
                 PROVE  V(r, k + 1) * p + M(1) = V(e, k + 1) + M((k + 1) + 1) * PB(k + 1)
    OBVIOUS
  <2>2. /\ k + 1 \in 1..N /\ (k + 1) - 1 = k /\ k <= N /\ k + 1 \in 1..N + 1
        /\ (k + 1) + 1 \in 1..N + 1 /\ 1 \in 1..N + 1
    BY <2>1
  <2>3. V(r, k + 1) = V(r, k) + r[k + 1] * PB(k)
    <3>1. r[k + 1] \in Int BY <1>3, <2>2
    <3> QED BY <3>1, VNext
  <2>4. V(e, k + 1) = V(e, k) + e[k + 1] * PB(k)
    <3>1. e[k + 1] \in Int BY <1>4, <2>2
    <3> QED BY <3>1, VNext
  <2>5. PB(k + 1) = Base * PB(k) BY PBNext
  <2>6. V(r, k) * p + M(1) = V(e, k) + M(k + 1) * PB(k) BY <1>7, <2>2
  <2>7. PICK d \in Int, m \in Int, f \in Int :
             d = D(k + 1) /\ m = M(k + 1) /\ f = e[k + 1] /\ f = d * p + m
    BY <1>4, <2>2
  <2>8. PICK g \in Int : g = M((k + 1) + 1) BY <1>4, <2>2
  <2>9. PICK h \in Int : h = M(1) BY <1>4, <2>2
  <2>10. r[k + 1] = d + g * q BY <1>4, <2>2, <2>7, <2>8
  <2> DEFINE u == V(r, k) t == V(e, k) z == PB(k) b == Base
  <2>11. u \in Int /\ t \in Int /\ z \in Int /\ b \in Int
    <3>1. u \in Int BY VType
    <3>2. t \in Int BY VType
    <3>3. z \in Int BY PBIs
    <3> QED BY <1>1, <3>1, <3>2, <3>3
  <2>12. u * p + h = t + m * z BY <2>6, <2>7, <2>9
  <2>13. V(r, k + 1) = u + (d + g * q) * z BY <2>3, <2>10
  <2>14. V(e, k + 1) = t + f * z BY <2>4, <2>7
  <2>15. p * q = b OBVIOUS
  <2>16. PB(k + 1) = b * z BY <2>5
  <2> HIDE DEF u, t, z, b
  <2>17. (u + (d + g * q) * z) * p + h = (t + f * z) + g * (b * z)
    <3>1. (u + (d + g * q) * z) * p = u * p + ((d * p) * z + (g * (p * q)) * z) BY <2>11
    <3>2. (g * (p * q)) * z = g * (b * z)
      <4>1. g * b * z = g * (b * z) BY <2>11
      <4> QED BY <2>15, <4>1
    <3>3. f * z = (d * p) * z + m * z BY <2>7, <2>11
    <3>4. u * p \in Int /\ (d * p) * z \in Int /\ g * (b * z) \in Int /\ m * z \in Int /\ f * z \in Int
      BY <2>11
    <3>5. PICK up \in Int, dpz \in Int, gbz \in Int, mz \in Int, fz \in Int :
               up = u * p /\ dpz = (d * p) * z /\ gbz = g * (b * z) /\ mz = m * z /\ fz = f * z
      BY <3>4
    <3>6. fz = dpz + mz /\ up + h = t + mz BY <2>12, <3>3, <3>5
    <3>7. (up + (dpz + gbz)) + h = (t + fz) + gbz BY <2>11, <3>6
    <3>8. (u + (d + g * q) * z) * p = up + (dpz + gbz) BY <3>1, <3>2, <3>5
    <3> QED BY <3>5, <3>7, <3>8
  <2> QED BY <2>8, <2>9, <2>13, <2>14, <2>16, <2>17
<1> HIDE DEF T
<1> QED BY <1>6, <1>7, NatSetInduction

(* A number is its low words and, a number of words up, those from there.  *)
LEMMA AboveIs ==
  ASSUME NEW v \in Arrays, NEW wo \in Nat, NEW e,
         \A i \in 1..Len(v) : e[i] = Word(v, i + wo)
  PROVE  \E low \in 0..PB(wo) - 1 : /\ V(v, Len(v)) = PB(wo) * V(e, Len(v)) + low
                                    /\ wo <= Len(v) => low = V(v, wo)
<1> DEFINE n == Len(v)
           f == [i \in 1..wo + n |-> Word(v, i)]
<1>1. n \in Nat BY ArraysAre
<1>2. \A i \in 1..wo + n : f[i] = Word(v, i) OBVIOUS
<1> HIDE DEF n, f
<1>3. V(f, wo + n) = V(v, n) /\ \A i \in 1..wo + n : f[i] \in 0..Base - 1 /\ f[i] \in Int
  <2>1. wo + n \in Nat /\ Len(v) <= wo + n BY <1>1 DEF n
  <2> QED BY <1>2, <2>1, PadIs DEF n
<1>4. Follows(e, f, wo, n)
  <2>1. \A i \in 1..n : wo + i \in 1..wo + n /\ wo + i = i + wo BY <1>1
  <2>2. \A i \in 1..n : f[wo + i] = e[i] BY <1>2, <2>1 DEF n
  <2> QED BY <1>3, <2>1, <2>2 DEF Follows
<1>5. V(f, wo + n) = V(f, wo) + PB(wo) * V(e, n) BY <1>1, <1>4, VSplit
<1>6. V(f, wo) \in 0..PB(wo) - 1
  <2>1. \A i \in 1..wo : i \in 1..wo + n BY <1>1
  <2>2. \A i \in 1..wo : f[i] \in 0..Base - 1 BY <1>3, <2>1
  <2> QED BY <2>2, VBound
<1>7. wo <= n => V(f, wo) = V(v, wo)
  <2>1. SUFFICES ASSUME wo <= n PROVE V(f, wo) = V(v, wo) OBVIOUS
  <2>2. \A i \in 1..wo : i \in 1..wo + n /\ i \in 1..n BY <1>1, <2>1
  <2>3. \A i \in 1..wo : f[i] = v[i] /\ f[i] \in Int
    <3> TAKE i \in 1..wo
    <3>1. i \in Int /\ i \in 1..Len(v) BY <2>2 DEF n
    <3>2. Word(v, i) = v[i] BY <3>1, WordIs
    <3> QED BY <1>2, <1>3, <2>2, <3>2
  <2> QED BY <2>3, VExt
<1>8. V(v, n) = PB(wo) * V(e, n) + V(f, wo)
  <2>1. V(f, wo) \in Int BY VType
  <2>2. PB(wo) * V(e, n) \in Int
    <3>1. PB(wo) \in Int BY PBIs
    <3>2. V(e, n) \in Int BY <1>1, VType
    <3> QED BY <3>1, <3>2
  <2> QED BY <1>3, <1>5, <2>1, <2>2
<1> QED BY <1>6, <1>7, <1>8 DEF n

(* Two digits and a remainder, taken together.                             *)
LEMMA MixedRadix ==
  ASSUME NEW z \in Nat \ {0}, NEW p \in Nat \ {0}, NEW hi \in Nat, NEW m \in 0..p - 1,
         NEW low \in 0..z - 1
  PROVE  /\ z * (hi * p + m) + low = hi * (z * p) + (z * m + low)
         /\ z * m + low \in 0..z * p - 1
<1>1. z * (hi * p + m) = z * (hi * p) + z * m /\ z * (hi * p) = hi * (z * p)
      /\ z * m \in Nat /\ hi * (z * p) \in Nat
  OBVIOUS
<1>2. (m + 1) * z <= p * z
  <2>1. m + 1 <= p /\ m + 1 \in Nat OBVIOUS
  <2> QED BY <2>1, TimesMonotone
<1>3. (m + 1) * z = z * m + z /\ p * z = z * p /\ z * p \in Nat OBVIOUS
<1> QED BY <1>1, <1>2, <1>3

(* A number cut at bit n: shiftRight gives the part above.                 *)
LEMMA CutIs ==
  ASSUME NEW v \in Numbers, NEW n \in Nat
  PROVE  /\ shiftRight(v, n) \in Numbers /\ Value(shiftRight(v, n)) = Value(v) \div 2 ^ n
         /\ \E low \in Nat :
              /\ n \div WordBits <= Len(v) => low = V(v, n \div WordBits)
              /\ Value(v) % 2 ^ n = PB(n \div WordBits)
                      * (Word(v, 1 + (n \div WordBits)) % 2 ^ (n % WordBits)) + low
<1> DEFINE wo == n \div WordBits bo == n % WordBits p == 2 ^ bo q == 2 ^ (WordBits - bo)
           N == Len(v)
           e == [i \in 1..N + 1 |-> Word(v, i + wo)]
           r == [i \in DOMAIN v |-> (Word(v, i + wo) \div 2 ^ bo)
                                    + (Word(v, i + wo + 1) % 2 ^ bo) * 2 ^ (WordBits - bo)]
<1>1. /\ wo \in Nat /\ p \in Nat \ {0} /\ q \in Nat \ {0} /\ p * q = Base /\ PB(wo) * p = 2 ^ n
  BY ShiftSplits
<1>2. v \in Arrays /\ N \in Nat /\ Value(v) \in Nat /\ Value(v) = V(v, N) /\ DOMAIN v = 1..N
  BY NumbersAre, ArraysAre
<1>3. shiftRight(v, n) = cleanup(r) BY DEF shiftRight
<1>4. r = [i \in 1..N |-> r[i]] BY <1>2
<1>5. \A i \in 1..N : r[i] = (e[i] \div p) + (e[i + 1] % p) * q
  <2> TAKE i \in 1..N
  <2>1. i \in 1..N + 1 /\ i + 1 \in 1..N + 1 /\ (i + 1) + wo = i + wo + 1 BY <1>1, <1>2
  <2>2. e[i] = Word(v, i + wo) /\ e[i + 1] = Word(v, (i + 1) + wo) BY <2>1
  <2>3. r[i] = (Word(v, i + wo) \div p) + (Word(v, i + wo + 1) % p) * q BY <1>2
  <2> HIDE DEF r, e, p, q
  <2> QED BY <2>1, <2>2, <2>3
<1>6. \A i \in 1..N + 1 : e[i] \in 0..Base - 1
  <2> TAKE i \in 1..N + 1
  <2>1. i + wo \in Int BY <1>1
  <2> QED BY <1>2, <2>1, WordIs
<1>7. e[N + 1] = 0
  <2>1. N + 1 \in 1..N + 1 /\ (N + 1) + wo \in Int /\ (N + 1) + wo \notin 1..N BY <1>1, <1>2
  <2> QED BY <1>2, <2>1, WordIs
<1>8. \A i \in 1..N : e[i] = Word(v, i + wo)
  <2>1. \A i \in 1..N : i \in 1..N + 1 BY <1>2
  <2> QED BY <2>1
<1>9. e[1] = Word(v, 1 + wo)
  <2>1. 1 \in 1..N + 1 BY <1>2
  <2> QED BY <2>1
<1> HIDE DEF wo, bo, p, q, e, r
<1>10. PICK low \in 0..PB(wo) - 1 :
           V(v, N) = PB(wo) * V(e, N) + low /\ (wo <= N => low = V(v, wo))
  <2>1. \E low \in 0..PB(wo) - 1 : /\ V(v, Len(v)) = PB(wo) * V(e, Len(v)) + low
                                   /\ wo <= Len(v) => low = V(v, wo)
    BY ONLY <1>1, <1>2, <1>8, AboveIs DEF N
  <2> QED BY <2>1 DEF N
<1> HIDE DEF N
<1>11. /\ \A i \in 1..N : r[i] \in 0..Base - 1 /\ r[i] \in Int
       /\ V(r, N) * p + (e[1] % p) = V(e, N) + (e[N + 1] % p) * PB(N)
  <2>1. Joined(r, e, N, p, q) BY <1>5, <1>6 DEF Joined
  <2> QED BY <1>1, <1>2, <2>1, ShiftRightSums
<1>12. r \in Arrays /\ Len(r) = N BY <1>2, <1>4, <1>11, ArrayMade
<1>13. V(r, N) \in Nat
  <2>1. V(r, N) \in 0..PB(N) - 1 BY <1>2, <1>11, VBound
  <2> QED BY <2>1
<1>14. PICK m \in 0..p - 1 : m = e[1] % p
  <2>1. e[1] \in Nat
    <3>1. 1 \in 1..N + 1 /\ Base \in Nat BY <1>2, BaseIs
    <3> QED BY <1>6, <3>1
  <2> QED BY <1>1, <2>1
<1>15. V(e, N) = V(r, N) * p + m
  <2>1. 0 % p = 0 BY <1>1
  <2>2. 0 * PB(N) = 0 BY <1>2, PBIs
  <2>3. V(e, N) \in Int BY <1>2, VType
  <2>4. (e[N + 1] % p) * PB(N) = 0 BY <1>7, <2>1, <2>2
  <2> QED BY <1>11, <1>14, <2>3, <2>4
<1> DEFINE z == PB(wo) hi == V(r, N)
<1>16. z \in Nat \ {0} BY <1>1, PBIs
<1>17. Value(v) = z * (hi * p + m) + low BY <1>2, <1>10, <1>15
<1>18. hi \in Nat /\ low \in 0..z - 1 /\ z * p = 2 ^ n BY <1>1, <1>10, <1>13
<1> HIDE DEF z, hi
<1>19. /\ z * (hi * p + m) + low = hi * (z * p) + (z * m + low)
       /\ z * m + low \in 0..z * p - 1
  BY <1>1, <1>14, <1>16, <1>18, MixedRadix
<1>20. hi = Value(v) \div 2 ^ n /\ Value(v) % 2 ^ n = z * m + low
  <2>1. z * m + low \in 0..2 ^ n - 1 BY <1>18, <1>19
  <2>2. hi * 2 ^ n + (z * m + low) = Value(v) BY <1>17, <1>18, <1>19
  <2>3. PICK b \in Nat \ {0} : b = 2 ^ n BY PowerPositive
  <2>4. PICK s \in 0..b - 1 : hi * b + s = Value(v) /\ s = z * m + low BY <2>1, <2>2, <2>3
  <2>5. PICK u \in Nat : u = Value(v) BY <1>2
  <2>6. PICK h \in Nat : h = hi BY <1>18
  <2>7. h * b + s = u BY <2>4, <2>5, <2>6
  <2>8. h = u \div b /\ s = u % b BY <2>7, EuclidOnce
  <2> QED BY <2>3, <2>4, <2>5, <2>6, <2>8
<1>21. cleanup(r) \in Numbers /\ Value(cleanup(r)) = V(r, N) BY <1>12, CleanupIs
<1>22. Value(v) % 2 ^ n = PB(wo) * (Word(v, 1 + wo) % p) + low
  BY <1>14, <1>20, <1>9 DEF z
<1>23. low \in Nat /\ (wo <= N => low = V(v, wo)) BY <1>10
<1>24. shiftRight(v, n) \in Numbers /\ Value(shiftRight(v, n)) = Value(v) \div 2 ^ n
  BY <1>3, <1>20, <1>21 DEF hi
<1> QED BY <1>22, <1>23, <1>24 DEF wo, bo, p, N

(* A shift to the right divides by the power of 2.                         *)
LEMMA ShiftRightIs ==
  ASSUME NEW v \in Numbers, NEW n \in Nat
  PROVE  shiftRight(v, n) \in Numbers /\ Value(shiftRight(v, n)) = Value(v) \div 2 ^ n
BY CutIs

(* keepOnly gives the part below.                                          *)
LEMMA KeepOnlyIs ==
  ASSUME NEW v \in Numbers, NEW n \in Nat
  PROVE  keepOnly(v, n) \in Numbers /\ Value(keepOnly(v, n)) = Value(v) % 2 ^ n
<1> DEFINE wo == n \div WordBits bo == n % WordBits p == 2 ^ bo
           N == Len(v)
           d == Append(SubSeq(v, 1, wo), v[wo + 1] % p)
<1>1. wo \in Nat /\ p \in Nat \ {0} /\ PB(wo) * p = 2 ^ n BY ShiftSplits
<1>2. v \in Arrays /\ N \in Nat /\ Value(v) \in Nat /\ Value(v) = V(v, N) BY NumbersAre
<1>3. PICK low \in Nat : /\ wo <= N => low = V(v, wo)
                         /\ Value(v) % 2 ^ n = PB(wo) * (Word(v, 1 + wo) % p) + low
  BY CutIs
<1>4. keepOnly(v, n) = IF wo >= N THEN v ELSE cleanup(d) BY DEF keepOnly
<1> HIDE DEF wo, bo, p, N
<1>5. CASE wo >= N
  <2>1. Value(v) < PB(N) BY Bounds DEF N
  <2>2. PB(N) <= PB(wo) BY <1>1, <1>2, <1>5, PBGrows
  <2>3. PB(wo) <= 2 ^ n
    <3>1. PB(wo) \in Nat BY <1>1, PBIs
    <3>2. 1 * PB(wo) <= p * PB(wo) BY <1>1, <3>1, TimesMonotone
    <3>3. p * PB(wo) = PB(wo) * p /\ 1 * PB(wo) = PB(wo) BY <1>1, <3>1
    <3> QED BY <1>1, <3>2, <3>3
  <2>4. PB(N) \in Nat /\ PB(wo) \in Nat /\ 2 ^ n \in Nat \ {0} BY <1>1, <1>2, PBIs, PowerPositive
  <2>5. Value(v) < 2 ^ n BY <1>2, <2>1, <2>2, <2>3, <2>4
  <2>6. PICK b \in Nat \ {0} : b = 2 ^ n BY <2>4
  <2>7. PICK u \in Nat : u = Value(v) BY <1>2
  <2>8. u % b = u
    <3>1. u \in 0..b - 1 /\ 0 * b + u = u BY <2>5, <2>6, <2>7
    <3> QED BY <3>1, EuclidOnce
  <2> QED BY <1>4, <1>5, <2>6, <2>7, <2>8
<1>6. CASE ~(wo >= N)
  <2>1. wo + 1 \in 1..N /\ wo + 1 = 1 + wo /\ wo <= N BY <1>1, <1>2, <1>6
  <2>2. Word(v, 1 + wo) = v[wo + 1]
    <3>1. 1 + wo \in Int BY <1>1
    <3> QED BY <1>2, <2>1, <3>1, WordIs DEF N
  <2>3. v[wo + 1] \in 0..Base - 1 /\ \A i \in 1..N : v[i] \in 0..Base - 1 /\ v[i] \in Int
    BY <1>2, <2>1, ArraysAre DEF N
  <2>4. PICK w \in Nat : w = v[wo + 1] % p /\ w < Base
    <3>1. Base \in Nat BY BaseIs
    <3>2. PICK u \in Nat : u = v[wo + 1] /\ u < Base BY <2>3, <3>1
    <3>3. u \div p \in Nat /\ u % p \in 0..p - 1 /\ u = p * (u \div p) + (u % p) BY <1>1, DivMod
    <3>4. PICK y \in Nat, z \in 0..p - 1 : z = u % p /\ u = p * y + z BY <3>3
    <3>5. p * y \in Nat BY <1>1
    <3> QED BY <1>1, <3>1, <3>2, <3>4, <3>5
  <2>5. d = [i \in 1..wo + 1 |-> IF i <= wo THEN v[i] ELSE w]
    <3>1. SubSeq(v, 1, wo) = [i \in 1..wo |-> v[i]] /\ SubSeq(v, 1, wo) \in Seq(Int) /\ Len(SubSeq(v, 1, wo)) = wo
      <4>1. v \in Seq(Int) BY <1>2, ArraysAre
      <4>2. \A i \in 1..wo : i \in 1..N BY <1>1, <1>2, <2>1
      <4>3. SubSeq(v, 1, wo) = [i \in 1..wo |-> v[1 + i - 1]] BY <1>1, <4>1
      <4>4. \A i \in 1..wo : 1 + i - 1 = i OBVIOUS
      <4>5. SubSeq(v, 1, wo) = [i \in 1..wo |-> v[i]] BY <4>3, <4>4
      <4>6. [i \in 1..wo |-> v[i]] \in [1..wo -> Int] BY <2>3, <4>2
      <4> QED BY <1>1, <4>5, <4>6
    <3>2. d = [i \in 1..wo + 1 |-> IF i = wo + 1 THEN w ELSE SubSeq(v, 1, wo)[i]]
      BY <1>1, <2>4, <3>1
    <3>3. \A i \in 1..wo + 1 : (i = wo + 1 <=> ~(i <= wo)) /\ (i <= wo => i \in 1..wo) BY <1>1
    <3> QED BY <3>1, <3>2, <3>3
  <2>6. d = [i \in 1..wo + 1 |-> d[i]] BY <2>5
  <2>7. (\A i \in 1..wo : d[i] = v[i] /\ d[i] \in Int) /\ d[wo + 1] = w
    <3>1. \A i \in 1..wo : i \in 1..N /\ i \in 1..wo + 1 /\ i <= wo BY <1>1, <1>2, <2>1
    <3>2. wo + 1 \in 1..wo + 1 /\ ~(wo + 1 <= wo) BY <1>1
    <3> HIDE DEF d
    <3> QED BY <2>3, <2>5, <3>1, <3>2
  <2>8. \A i \in 1..wo + 1 : d[i] \in 0..Base - 1
    <3>1. \A i \in 1..wo + 1 : (i \in 1..wo /\ i \in 1..N) \/ i = wo + 1 BY <1>1, <1>2, <2>1
    <3>2. Base \in Nat BY BaseIs
    <3> HIDE DEF d
    <3> QED BY <2>3, <2>4, <2>7, <3>1, <3>2
  <2> HIDE DEF d
  <2>9. d \in Arrays /\ Len(d) = wo + 1 BY <1>1, <2>6, <2>8, ArrayMade
  <2>10. V(d, wo) = V(v, wo) BY <1>1, <2>7, VExt
  <2>11. V(d, wo + 1) = V(d, wo) + d[wo + 1] * PB(wo) BY <1>1, <2>4, <2>7, VNext
  <2>12. V(v, wo) + w * PB(wo) = PB(wo) * w + V(v, wo)
    <3>1. PB(wo) \in Nat /\ V(v, wo) \in Int BY <1>1, PBIs, VType
    <3> QED BY <3>1
  <2>13. V(d, wo + 1) = Value(v) % 2 ^ n BY <1>3, <2>1, <2>2, <2>4, <2>7, <2>10, <2>11, <2>12
  <2>14. cleanup(d) \in Numbers /\ Value(cleanup(d)) = V(d, wo + 1) BY <2>9, CleanupIs
  <2> QED BY <1>4, <1>6, <2>13, <2>14
<1> QED BY <1>5, <1>6

(* A number lies below the power of 2 of its bits, and takes up all but    *)
(* one of its words.                                                       *)
LEMMA NumbitsIs ==
  ASSUME NEW v \in Numbers
  PROVE  /\ numbits(v) \in Nat /\ Value(v) < 2 ^ numbits(v)
         /\ v # <<>> => /\ (Len(v) - 1) * WordBits + 1 <= numbits(v)
                        /\ 2 ^ (numbits(v) - 1) <= Value(v)
<1>1. v \in Arrays /\ Len(v) \in Nat /\ Value(v) \in Nat /\ Value(v) = V(v, Len(v)) BY NumbersAre
<1>2. CASE v = <<>>
  <2>1. numbits(v) = 0 BY <1>2 DEF numbits
  <2>2. Value(v) = 0 BY <1>2, Bounds
  <2>3. 2 ^ numbits(v) = 1 BY Zenon, <2>1, PowerOne
  <2> QED BY <1>2, <2>1, <2>2, <2>3
<1>3. CASE v # <<>>
  <2> DEFINE n == Len(v) S == {k \in 0..WordBits : Last(v) < 2 ^ k} m == Min(S)
  <2>1. n \in Nat \ {0} /\ n - 1 \in Nat BY <1>3, Bounds
  <2>2. WordBits \in Nat \ {0} BY BaseIs
  <2>3. Last(v) = v[n] BY DEF Last
  <2>4. v[n] \in 0..Base - 1 /\ v[n] \in Nat /\ v[n] # 0
    <3>1. n \in 1..Len(v) BY <2>1
    <3> QED BY <1>1, <1>3, <3>1, ArraysAre DEF Numbers
  <2>5. WordBits \in S
    <3>1. Base \in Nat /\ 2 ^ WordBits = Base BY BaseIs DEF Base
    <3> QED BY <2>2, <2>3, <2>4, <3>1
  <2>6. m \in S /\ \A s \in S : m <= s
    <3>1. S \in SUBSET Nat /\ S # {} BY <2>2, <2>5
    <3> HIDE DEF S
    <3> QED BY <3>1, HasLeast
  <2>7. m \in Nat /\ m <= WordBits /\ v[n] < 2 ^ m BY <2>2, <2>3, <2>6
  <2>8. m # 0
    <3>1. SUFFICES ASSUME m = 0 PROVE FALSE OBVIOUS
    <3> HIDE DEF m
    <3>2. v[n] < 1 BY <2>7, <3>1, PowerOne
    <3> QED BY <2>4, <3>2
  <2>9. m - 1 \in Nat /\ 2 ^ (m - 1) <= v[n]
    <3>1. m - 1 \in Nat BY <2>7, <2>8
    <3>2. SUFFICES ASSUME v[n] < 2 ^ (m - 1) PROVE FALSE
      <4>1. 2 ^ (m - 1) \in Nat BY <3>1, PowerPositive
      <4> QED BY <2>4, <3>1, <4>1
    <3>3. m - 1 \in S BY <2>2, <2>3, <2>7, <3>1, <3>2
    <3>4. m <= m - 1 BY <2>6, <3>3
    <3> QED BY <2>7, <3>4
  <2>10. numbits(v) = (n - 1) * WordBits + m BY <1>3 DEF numbits
  <2> HIDE DEF m, S, n
  <2>11. PICK k \in Nat : k = (n - 1) * WordBits BY <2>1, <2>2
  <2>12. numbits(v) = k + m /\ numbits(v) - 1 = k + (m - 1) /\ numbits(v) \in Nat BY <2>7, <2>10, <2>11
  <2>13. PB(n - 1) = 2 ^ k
    <3>1. WordBits * (n - 1) = k BY <2>1, <2>2, <2>11
    <3> QED BY <3>1 DEF PB, Pw
  <2>14. 2 ^ (k + m) = 2 ^ k * 2 ^ m /\ 2 ^ (k + (m - 1)) = 2 ^ k * 2 ^ (m - 1) BY <2>7, <2>9, PowerSum
  <2>15. v[n] * PB(n - 1) <= V(v, n) /\ V(v, n) < (v[n] + 1) * PB(n - 1)
    <3>1. n \in 1..Len(v) BY <2>1 DEF n
    <3> QED BY <1>1, <3>1, Leading
  <2>16. PICK z \in Nat, g \in Nat, h \in Nat, w \in Nat :
              z = 2 ^ k /\ g = 2 ^ m /\ h = 2 ^ (m - 1) /\ w = v[n]
    BY <2>4, <2>7, <2>9, PowerPositive
  <2>17. h <= w /\ w + 1 <= g BY <2>7, <2>9, <2>16
  <2>18. h * z <= w * z BY <2>17, TimesMonotone
  <2>19. (w + 1) * z <= g * z BY <2>17, TimesMonotone
  <2>20. h * z = z * h /\ g * z = z * g /\ z * h \in Nat /\ z * g \in Nat /\ w * z \in Nat
         /\ (w + 1) * z \in Nat
    OBVIOUS
  <2>21. Value(v) = V(v, n) BY <1>1 DEF n
  <2>22. z * h <= Value(v) /\ Value(v) < z * g
    <3>1. w * z <= Value(v) /\ Value(v) < (w + 1) * z BY <2>13, <2>15, <2>16, <2>21
    <3> QED BY <1>1, <2>18, <2>19, <2>20, <3>1
  <2>23. Value(v) < 2 ^ numbits(v) /\ 2 ^ (numbits(v) - 1) <= Value(v)
    BY <2>12, <2>14, <2>16, <2>22
  <2>24. (n - 1) * WordBits + 1 <= numbits(v) BY <2>7, <2>8, <2>11, <2>12
  <2> QED BY <2>12, <2>23, <2>24 DEF n
<1> QED BY <1>2, <1>3

-----------------------------------------------------------------------------
(* Karatsuba's method.                                                     *)

(* Addition without a shift.                                               *)
LEMMA SumOfNumbers ==
  ASSUME NEW a \in Numbers, NEW b \in Numbers
  PROVE  add(a, b, 0) \in Numbers /\ Value(add(a, b, 0)) = Value(a) + Value(b)
<1>1. a \in Arrays /\ Value(a) = V(a, Len(a)) /\ b \in Arrays /\ Value(b) = V(b, Len(b))
      /\ Value(b) \in Nat
  BY NumbersAre
<1>2. add(a, b, 0) \in Numbers /\ Value(add(a, b, 0)) = V(a, Len(a)) + PB(0) * V(b, Len(b))
  BY <1>1, AddIs
<1>3. PB(0) = 1 BY PBIs
<1>4. PB(0) * Value(b) = Value(b) BY <1>1, <1>3
<1> QED BY <1>1, <1>2, <1>4

(* A number below a power of 2 has at most its bits.                       *)
LEMMA NumbitsAtMost ==
  ASSUME NEW v \in Numbers, NEW k \in Nat, Value(v) < 2 ^ k
  PROVE  numbits(v) <= k
<1>1. numbits(v) \in Nat /\ Value(v) \in Nat BY NumbitsIs, NumbersAre
<1>2. CASE v = <<>> BY <1>2 DEF numbits
<1>3. CASE v # <<>>
  <2>1. SUFFICES ASSUME ~(numbits(v) <= k) PROVE FALSE OBVIOUS
  <2>2. 2 ^ (numbits(v) - 1) <= Value(v) BY <1>3, NumbitsIs
  <2>3. numbits(v) - 1 \in Nat /\ k <= numbits(v) - 1 BY <1>1, <2>1
  <2>4. 2 ^ k <= 2 ^ (numbits(v) - 1) BY <2>3, PowerGrows
  <2>5. 2 ^ k \in Nat /\ 2 ^ (numbits(v) - 1) \in Nat BY <2>3, PowerPositive
  <2> QED BY <1>1, <2>2, <2>4, <2>5
<1> QED BY <1>2, <1>3

(* The product from three products of halves.                              *)
Crossed(ac, bd, cross, a, b, c, d) ==
    Value(ac) = a * c /\ Value(bd) = b * d /\ Value(cross) = (a + b) * (c + d)

OfHalves(a, b, c, d, z) == (a + b * z) * (c + d * z)

(* The cross product less both others, between them, is the product.       *)
LEMMA RecombinedIs ==
  ASSUME NEW ac \in Numbers, NEW bd \in Numbers, NEW cross \in Numbers, NEW n \in Nat,
         NEW a \in Nat, NEW b \in Nat, NEW c \in Nat, NEW d \in Nat,
         Crossed(ac, bd, cross, a, b, c, d), NEW z \in Nat, z = 2 ^ n
  PROVE  /\ Recombined(ac, bd, cross, n) \in Numbers
         /\ Value(Recombined(ac, bd, cross, n)) = OfHalves(a, b, c, d, z)
<1> DEFINE one == subtract(cross, ac) two == subtract(one, bd) up == shiftLeft(bd, n)
           sum == add(up, two, 0) high == shiftLeft(sum, n) all == add(high, ac, 0)
<1>1. (a + b) * (c + d) = a * c + (a * d + b * c) + b * d /\ a * c \in Nat /\ b * d \in Nat
      /\ a * d \in Nat /\ b * c \in Nat
  OBVIOUS
<1>2. PICK p \in Nat, q \in Nat, s \in Nat, t \in Nat : p = a * c /\ q = b * d /\ s = a * d /\ t = b * c
  BY <1>1
<1>3. Value(ac) = p /\ Value(bd) = q /\ Value(cross) = p + (s + t) + q BY <1>1, <1>2 DEF Crossed
<1>4. one \in Numbers /\ Value(one) = (s + t) + q
  <2>1. Value(ac) <= Value(cross) BY <1>3
  <2>2. one \in Numbers /\ Value(one) = Value(cross) - Value(ac) BY <2>1, SubtractIs
  <2> QED BY <1>3, <2>2
<1>5. two \in Numbers /\ Value(two) = s + t
  <2> HIDE DEF one
  <2>1. Value(bd) <= Value(one) BY <1>3, <1>4
  <2>2. two \in Numbers /\ Value(two) = Value(one) - Value(bd) BY <1>4, <2>1, SubtractIs
  <2> QED BY <1>3, <1>4, <2>2
<1>7. up \in Numbers /\ Value(up) = q * z BY <1>3, ShiftLeftIs
<1>8. sum \in Numbers /\ Value(sum) = q * z + (s + t)
  <2> HIDE DEF up, two
  <2>1. sum \in Numbers /\ Value(sum) = Value(up) + Value(two) BY <1>5, <1>7, SumOfNumbers
  <2> QED BY <1>5, <1>7, <2>1
<1>9. high \in Numbers /\ Value(high) = (q * z + (s + t)) * z
  <2> HIDE DEF sum
  <2>1. high \in Numbers /\ Value(high) = Value(sum) * 2 ^ n BY <1>8, ShiftLeftIs
  <2> QED BY <1>8, <2>1
<1>10. all \in Numbers /\ Value(all) = (q * z + (s + t)) * z + p
  <2> HIDE DEF high
  <2>1. all \in Numbers /\ Value(all) = Value(high) + Value(ac) BY <1>9, SumOfNumbers
  <2> QED BY <1>3, <1>9, <2>1
<1>11. (q * z + (s + t)) * z + p = (a + b * z) * (c + d * z)
  <2>1. (a + b * z) * (c + d * z) = a * c + ((a * d) * z + (b * c) * z) + (b * d) * z * z OBVIOUS
  <2>2. (q * z + (s + t)) * z + p = p + (s * z + t * z) + q * z * z OBVIOUS
  <2> QED BY <1>2, <2>1, <2>2
<1>12. Recombined(ac, bd, cross, n) = all BY DEF Recombined
<1> HIDE DEF all
<1> QED BY <1>10, <1>11, <1>12 DEF OfHalves

(* f has the product of the numbers of p.                                  *)
HasProduct(f, p) == f[p] \in Numbers /\ Value(f[p]) = Value(p[1]) * Value(p[2])

(* The three products of Karatsuba's method.                               *)
LEMMA HalvesIs ==
  ASSUME NEW f, NEW a \in Numbers, NEW b \in Numbers, NEW c \in Numbers, NEW d \in Numbers,
         NEW n \in Nat, HasProduct(f, <<a, c>>), HasProduct(f, <<b, d>>),
         HasProduct(f, <<add(a, b, 0), add(c, d, 0)>>)
  PROVE  /\ Halves(f, a, b, c, d, n) \in Numbers
         /\ Value(Halves(f, a, b, c, d, n))
              = (Value(a) + Value(b) * 2 ^ n) * (Value(c) + Value(d) * 2 ^ n)
<1> DEFINE p == f[<<a, c>>] q == f[<<b, d>>] s == f[<<add(a, b, 0), add(c, d, 0)>>]
           r == Recombined(p, q, s, n)
           R == {Recombined(u[1], u[2], u[3], n) : u \in {<<p, q, s>>}}
<1>1. Halves(f, a, b, c, d, n) = CHOOSE e \in R : TRUE BY DEF Halves, With
<1>2. R = {r}
  <2> DEFINE t == <<p, q, s>>
  <2>1. t[1] = p /\ t[2] = q /\ t[3] = s OBVIOUS
  <2>2. R = {Recombined(u[1], u[2], u[3], n) : u \in {t}} OBVIOUS
  <2> HIDE DEF p, q, s, t, R
  <2> QED BY <2>1, <2>2
<1>3. Halves(f, a, b, c, d, n) = r BY <1>1, <1>2
<1>4. /\ Value(a) \in Nat /\ Value(b) \in Nat /\ Value(c) \in Nat /\ Value(d) \in Nat BY NumbersAre
<1>5. /\ Value(add(a, b, 0)) = Value(a) + Value(b) /\ Value(add(c, d, 0)) = Value(c) + Value(d)
  BY SumOfNumbers
<1>6. p \in Numbers /\ Value(p) = Value(a) * Value(c) BY DEF HasProduct
<1>7. q \in Numbers /\ Value(q) = Value(b) * Value(d) BY DEF HasProduct
<1>8. s \in Numbers /\ Value(s) = (Value(a) + Value(b)) * (Value(c) + Value(d))
  <2>1. s \in Numbers /\ Value(s) = Value(add(a, b, 0)) * Value(add(c, d, 0)) BY DEF HasProduct
  <2> QED BY <1>5, <2>1
<1> HIDE DEF p, q, s
<1>9. r \in Numbers /\ Value(r) = (Value(a) + Value(b) * 2 ^ n) * (Value(c) + Value(d) * 2 ^ n)
  <2>1. PICK k \in Nat, l \in Nat, i \in Nat, j \in Nat :
             k = Value(a) /\ l = Value(b) /\ i = Value(c) /\ j = Value(d)
    BY <1>4
  <2>2. Value(p) = k * i /\ Value(q) = l * j /\ Value(s) = (k + l) * (i + j)
    BY <1>6, <1>7, <1>8, <2>1
  <2>3. r \in Numbers /\ Value(r) = (k + l * 2 ^ n) * (i + j * 2 ^ n)
    <3>1. p \in Numbers /\ q \in Numbers /\ s \in Numbers BY <1>6, <1>7, <1>8
    <3>2. Crossed(p, q, s, k, l, i, j) BY <2>2 DEF Crossed
    <3>3. PICK z \in Nat : z = 2 ^ n BY PowerPositive
    <3>4. Recombined(p, q, s, n) \in Numbers /\ Value(Recombined(p, q, s, n)) = OfHalves(k, l, i, j, z)
      <4>1. \A e \in Nat, g \in Nat, t \in Nat, u \in Nat : Crossed(p, q, s, e, g, t, u) =>
                 /\ Recombined(p, q, s, n) \in Numbers
                 /\ Value(Recombined(p, q, s, n)) = OfHalves(e, g, t, u, z)
        BY ONLY <3>1, <3>3, n \in Nat, RecombinedIs, SMTT(20)
      <4> QED BY <3>2, <4>1
    <3>5. OfHalves(k, l, i, j, z) = (k + l * 2 ^ n) * (i + j * 2 ^ n) BY <3>3 DEF OfHalves
    <3> QED BY <3>4, <3>5
  <2> QED BY <2>1, <2>3
<1> QED BY <1>3, <1>9

(* f has the products of numbers of fewer bits than m.                     *)
HasProductsBelow(f, m) ==
    \A g, h \in Numbers : numbits(g) < m /\ numbits(h) < m => HasProduct(f, <<g, h>>)

(* Half the bits, and one bit more for a sum of halves, are fewer.         *)
LEMMA HalfFewer ==
  ASSUME NEW m \in Nat, m >= 4
  PROVE  /\ (m + 1) \div 2 \in Nat /\ (m + 1) \div 2 + 1 < m /\ m <= 2 * ((m + 1) \div 2)
OBVIOUS

(* The halves of a number have fewer bits than the number, their sum too.  *)
LEMMA HalfIs ==
  ASSUME NEW x1 \in Numbers, NEW n \in Nat, NEW m \in Nat, numbits(x1) <= m, m <= 2 * n
  PROVE  /\ keepOnly(x1, n) \in Numbers /\ shiftRight(x1, n) \in Numbers
         /\ numbits(keepOnly(x1, n)) <= n /\ numbits(shiftRight(x1, n)) <= n
         /\ numbits(add(keepOnly(x1, n), shiftRight(x1, n), 0)) <= n + 1
         /\ add(keepOnly(x1, n), shiftRight(x1, n), 0) \in Numbers
         /\ Value(x1) = Value(keepOnly(x1, n)) + Value(shiftRight(x1, n)) * 2 ^ n
<1> DEFINE a == keepOnly(x1, n) b == shiftRight(x1, n)
<1>1. a \in Numbers /\ Value(a) = Value(x1) % 2 ^ n BY KeepOnlyIs
<1>2. b \in Numbers /\ Value(b) = Value(x1) \div 2 ^ n BY ShiftRightIs
<1>3. PICK z \in Nat \ {0} : z = 2 ^ n BY PowerPositive
<1>4. PICK u \in Nat : u = Value(x1) BY NumbersAre
<1>5. u \div z \in Nat /\ u % z \in 0..z - 1 /\ u = z * (u \div z) + (u % z) BY DivMod
<1>6. PICK q \in Nat, r \in 0..z - 1 : q = u \div z /\ r = u % z /\ u = z * q + r BY <1>5
<1> HIDE DEF a, b
<1>7. Value(a) = r /\ Value(b) = q BY <1>1, <1>2, <1>3, <1>4, <1>6
<1>8. u < z * z
  <2>1. u < 2 ^ numbits(x1) /\ numbits(x1) \in Nat BY <1>4, NumbitsIs
  <2>2. numbits(x1) <= n + n /\ n + n \in Nat BY <2>1
  <2>3. 2 ^ numbits(x1) <= 2 ^ (n + n) BY <2>1, <2>2, PowerGrows
  <2>4. 2 ^ (n + n) = z * z BY <1>3, PowerSum
  <2>5. 2 ^ numbits(x1) \in Nat /\ z * z \in Nat BY <2>1, PowerPositive
  <2> QED BY <2>1, <2>3, <2>4, <2>5
<1>9. q < z
  <2>1. SUFFICES ASSUME z <= q PROVE FALSE OBVIOUS
  <2>2. z * z <= q * z BY <2>1, TimesMonotone
  <2>3. q * z = z * q /\ z * q \in Nat /\ z * z \in Nat OBVIOUS
  <2> QED BY <1>6, <1>8, <2>2, <2>3
<1>10. numbits(a) <= n
  <2>1. Value(a) < 2 ^ n BY <1>3, <1>7
  <2> QED BY <1>1, <2>1, NumbitsAtMost
<1>11. numbits(b) <= n
  <2>1. Value(b) < 2 ^ n BY <1>3, <1>7, <1>9
  <2> QED BY <1>2, <2>1, NumbitsAtMost
<1>12. add(a, b, 0) \in Numbers /\ Value(add(a, b, 0)) = r + q BY <1>1, <1>2, <1>7, SumOfNumbers
<1>13. numbits(add(a, b, 0)) <= n + 1
  <2>1. 2 ^ (n + 1) = 2 * z BY <1>3, PowerNext
  <2>2. Value(add(a, b, 0)) < 2 ^ (n + 1) BY <1>9, <1>12, <2>1
  <2>3. n + 1 \in Nat OBVIOUS
  <2> QED BY <1>12, <2>2, <2>3, NumbitsAtMost
<1>14. Value(x1) = Value(a) + Value(b) * 2 ^ n
  <2>1. z * q + r = r + q * z OBVIOUS
  <2> QED BY <1>3, <1>4, <1>6, <1>7, <2>1
<1> QED BY <1>1, <1>2, <1>10, <1>11, <1>12, <1>13, <1>14 DEF a, b

(* Karatsuba's step is exact, whatever makes its three products.           *)
LEMMA KaratsubaIs ==
  ASSUME NEW f, NEW x1 \in Numbers, NEW y1 \in Numbers, NEW m \in Nat, m >= 4,
         numbits(x1) <= m, numbits(y1) <= m, HasProductsBelow(f, m),
         NEW n, n = (m + 1) \div 2
  PROVE  /\ Karatsuba(f, x1, y1, n) \in Numbers
         /\ Value(Karatsuba(f, x1, y1, n)) = Value(x1) * Value(y1)
<1> DEFINE a == keepOnly(x1, n) b == shiftRight(x1, n) c == keepOnly(y1, n) d == shiftRight(y1, n)
           r == Halves(f, a, b, c, d, n)
           R == {Halves(f, u[1], u[2], u[3], u[4], n) : u \in {<<a, b, c, d>>}}
<1>1. Karatsuba(f, x1, y1, n) = CHOOSE e \in R : TRUE BY DEF Karatsuba, With
<1>2. R = {r} OBVIOUS
<1>3. Karatsuba(f, x1, y1, n) = r BY <1>1, <1>2
<1>4. n \in Nat /\ n + 1 < m /\ m <= 2 * n BY HalfFewer
<1>5. /\ a \in Numbers /\ b \in Numbers /\ add(a, b, 0) \in Numbers
      /\ numbits(a) <= n /\ numbits(b) <= n /\ numbits(add(a, b, 0)) <= n + 1
      /\ Value(x1) = Value(a) + Value(b) * 2 ^ n
  BY <1>4, HalfIs
<1>6. /\ c \in Numbers /\ d \in Numbers /\ add(c, d, 0) \in Numbers
      /\ numbits(c) <= n /\ numbits(d) <= n /\ numbits(add(c, d, 0)) <= n + 1
      /\ Value(y1) = Value(c) + Value(d) * 2 ^ n
  BY <1>4, HalfIs
<1> HIDE DEF a, b, c, d
<1>7. /\ numbits(a) \in Nat /\ numbits(b) \in Nat /\ numbits(c) \in Nat /\ numbits(d) \in Nat
      /\ numbits(add(a, b, 0)) \in Nat /\ numbits(add(c, d, 0)) \in Nat
  BY <1>5, <1>6, NumbitsIs
<1>8. numbits(a) < m /\ numbits(b) < m /\ numbits(c) < m /\ numbits(d) < m
      /\ numbits(add(a, b, 0)) < m /\ numbits(add(c, d, 0)) < m
  BY <1>4, <1>5, <1>6, <1>7
<1>9. HasProduct(f, <<a, c>>) /\ HasProduct(f, <<b, d>>)
      /\ HasProduct(f, <<add(a, b, 0), add(c, d, 0)>>)
  BY <1>5, <1>6, <1>8 DEF HasProductsBelow
<1>10. r \in Numbers /\ Value(r) = (Value(a) + Value(b) * 2 ^ n) * (Value(c) + Value(d) * 2 ^ n)
  BY <1>4, <1>5, <1>6, <1>9, HalvesIs
<1> HIDE DEF r
<1> QED BY <1>3, <1>5, <1>6, <1>10

(* The school method again, by values.                                     *)
LEMMA NaiveIs ==
  ASSUME NEW x1 \in Numbers, NEW y1 \in Numbers
  PROVE  /\ multiplyNaive(x1, y1) \in Numbers
         /\ Value(multiplyNaive(x1, y1)) = Value(x1) * Value(y1)
<1>1. x1 \in Arrays /\ y1 \in Arrays /\ Value(x1) = V(x1, Len(x1)) /\ Value(y1) = V(y1, Len(y1))
  BY NumbersAre
<1> QED BY <1>1, MultiplyNaiveIs

(* The product is exact if those of numbers of fewer bits are.             *)
LEMMA ProductIs ==
  ASSUME NEW f, NEW x1 \in Numbers, NEW y1 \in Numbers,
         NEW m, m = Max({numbits(x1), numbits(y1)}), HasProductsBelow(f, m)
  PROVE  Product(f, x1, y1) \in Numbers /\ Value(Product(f, x1, y1)) = Value(x1) * Value(y1)
<1>1. numbits(x1) \in Nat /\ numbits(y1) \in Nat BY NumbitsIs
<1>2. m \in Nat /\ numbits(x1) <= m /\ numbits(y1) <= m BY <1>1, MaxOfTwo
<1>3. CASE Len(x1) <= KaratsubaCutoff \/ Len(y1) <= KaratsubaCutoff
  <2>1. Product(f, x1, y1) = multiplyNaive(x1, y1) BY <1>3 DEF Product
  <2> QED BY <2>1, NaiveIs
<1>4. CASE ~(Len(x1) <= KaratsubaCutoff \/ Len(y1) <= KaratsubaCutoff)
  <2>1. Product(f, x1, y1) = Karatsuba(f, x1, y1, (m + 1) \div 2) BY <1>4 DEF Product
  <2>2. Len(x1) \in Nat /\ KaratsubaCutoff \in Nat \ {0} /\ WordBits \in Nat \ {0}
        /\ WordBits * KaratsubaCutoff >= 3
    BY NumbersAre, WordAssumption
  <2>3. (Len(x1) - 1) * WordBits + 1 <= numbits(x1)
    <3>1. x1 # <<>> BY <1>4, <2>2
    <3> QED BY <3>1, NumbitsIs
  <2>4. KaratsubaCutoff * WordBits <= (Len(x1) - 1) * WordBits
    <3>1. Len(x1) - 1 \in Nat /\ KaratsubaCutoff <= Len(x1) - 1 BY <1>4, <2>2
    <3> QED BY <2>2, <3>1, TimesMonotone
  <2>5. PICK g \in Int, h \in Int :
             g = KaratsubaCutoff * WordBits /\ h = (Len(x1) - 1) * WordBits /\ g >= 3
    <3>1. KaratsubaCutoff * WordBits = WordBits * KaratsubaCutoff BY <2>2
    <3> QED BY <2>2, <3>1
  <2>6. m >= 4 BY <1>1, <1>2, <2>3, <2>4, <2>5
  <2> QED BY <1>2, <2>1, <2>6, KaratsubaIs
<1> QED BY <1>3, <1>4

(* multiply gives the product, by the school method or by Karatsuba's, for *)
(* any cutoff and any lengths: the recursion ends, since halves have fewer *)
(* bits.                                                                   *)
THEOREM MultiplyIs ==
  ASSUME NEW x1 \in Numbers, NEW y1 \in Numbers
  PROVE  multiply(x1, y1) \in Numbers /\ Value(multiply(x1, y1)) = Value(x1) * Value(y1)
<1> DEFINE P == Numbers \X Numbers
           Is(e) == e = [p \in P |-> Product(e, p[1], p[2])]
           f == CHOOSE e : Is(e)
           g == [p \in P |-> multiplyNaive(p[1], p[2])]
<1>1. \A p \in P : HasProduct(g, p)
  <2> TAKE p \in P
  <2>1. p[1] \in Numbers /\ p[2] \in Numbers OBVIOUS
  <2>2. g[p] = multiplyNaive(p[1], p[2]) OBVIOUS
  <2> HIDE DEF g, P
  <2> QED BY <2>1, <2>2, NaiveIs DEF HasProduct
<1>2. Is(g)
  <2>1. \A p \in P : g[p] = Product(g, p[1], p[2])
    <3> TAKE p \in P
    <3>1. p[1] \in Numbers /\ p[2] \in Numbers OBVIOUS
    <3>2. PICK m : m = Max({numbits(p[1]), numbits(p[2])}) OBVIOUS
    <3>3. HasProductsBelow(g, m)
      <4> HIDE DEF g
      <4> QED BY <1>1 DEF HasProductsBelow
    <3>4. g[p] \in Numbers /\ Value(g[p]) = Value(p[1]) * Value(p[2]) BY <1>1 DEF HasProduct
    <3> HIDE DEF g, P
    <3>5. Product(g, p[1], p[2]) \in Numbers
          /\ Value(Product(g, p[1], p[2])) = Value(p[1]) * Value(p[2])
      BY <3>1, <3>2, <3>3, ProductIs
    <3> QED BY <3>4, <3>5, IsLessIs
  <2>2. g = [p \in P |-> g[p]] OBVIOUS
  <2> HIDE DEF g, P
  <2> QED BY <2>1, <2>2
<1> HIDE DEF g
<1>3. Is(f) BY <1>2
<1>4. multiply(x1, y1) = Product(f, x1, y1) BY Zenon DEF multiply
<1> HIDE DEF f
<1> DEFINE T == {k \in Nat : HasProductsBelow(f, k)}
<1>5. \A k \in Nat : (\A i \in 0..k - 1 : i \in T) => k \in T
  <2> TAKE k \in Nat
  <2>1. SUFFICES ASSUME \A i \in 0..k - 1 : i \in T PROVE k \in T OBVIOUS
  <2>2. SUFFICES ASSUME NEW u \in Numbers, NEW v \in Numbers, numbits(u) < k, numbits(v) < k
                 PROVE  HasProduct(f, <<u, v>>)
    BY DEF HasProductsBelow
  <2>3. numbits(u) \in Nat /\ numbits(v) \in Nat BY NumbitsIs
  <2>4. PICK m \in Nat : m = Max({numbits(u), numbits(v)}) /\ m < k BY <2>2, <2>3, MaxOfTwo
  <2>5. HasProductsBelow(f, m)
    <3>1. m \in 0..k - 1 BY <2>4
    <3> QED BY <2>1, <3>1
  <2>6. Product(f, u, v) \in Numbers /\ Value(Product(f, u, v)) = Value(u) * Value(v)
    BY <2>4, <2>5, ProductIs
  <2>7. f[<<u, v>>] = Product(f, u, v)
    <3>1. <<u, v>> \in P /\ <<u, v>>[1] = u /\ <<u, v>>[2] = v OBVIOUS
    <3> HIDE DEF P
    <3>2. \A p \in P : f[p] = Product(f, p[1], p[2]) BY <1>3
    <3>3. f[<<u, v>>] = Product(f, <<u, v>>[1], <<u, v>>[2]) BY <3>1, <3>2
    <3> QED BY <3>1, <3>3
  <2> QED BY <2>6, <2>7 DEF HasProduct
<1> HIDE DEF T
<1>6. \A k \in Nat : k \in T BY <1>5, NatSetStrongInduction
<1>7. numbits(x1) \in Nat /\ numbits(y1) \in Nat BY NumbitsIs
<1>8. PICK m \in Nat : numbits(x1) < m /\ numbits(y1) < m
  <2>1. Max({numbits(x1), numbits(y1)}) + 1 \in Nat /\ numbits(x1) < Max({numbits(x1), numbits(y1)}) + 1
        /\ numbits(y1) < Max({numbits(x1), numbits(y1)}) + 1
    BY <1>7, MaxOfTwo
  <2> QED BY <2>1
<1>9. HasProduct(f, <<x1, y1>>) BY <1>6, <1>8 DEF T, HasProductsBelow
<1>10. f[<<x1, y1>>] = Product(f, x1, y1)
  <2>1. <<x1, y1>> \in P /\ <<x1, y1>>[1] = x1 /\ <<x1, y1>>[2] = y1 OBVIOUS
  <2> HIDE DEF P
  <2>2. \A p \in P : f[p] = Product(f, p[1], p[2]) BY <1>3
  <2>3. f[<<x1, y1>>] = Product(f, <<x1, y1>>[1], <<x1, y1>>[2]) BY <2>1, <2>2
  <2> QED BY <2>1, <2>3
<1> QED BY <1>4, <1>9, <1>10 DEF HasProduct

-----------------------------------------------------------------------------
(* Signed products, and the invariant.                                     *)

(* c has the sign and the words of the product of a and b.                 *)
IsProduct(c, a, b) ==
    /\ c.neg \in BOOLEAN
    /\ c.array = multiply(a.array, b.array)
    /\ c.array # <<>> => c.neg = (a.neg # b.neg)

Tells(s, p, q) == s = (p # q)
SignedBy(s, n) == IF s THEN -n ELSE n

(* Signs of products.                                                      *)
LEMMA ProductOfSigns ==
  ASSUME NEW p \in BOOLEAN, NEW q \in BOOLEAN, NEW s \in BOOLEAN, Tells(s, p, q),
         NEW a \in Nat, NEW b \in Nat
  PROVE  SignedBy(s, a * b) = SignedBy(p, a) * SignedBy(q, b)
<1> USE DEF Tells, SignedBy
<1>1. (-a) * b = -(a * b) /\ a * (-b) = -(a * b) /\ (-a) * (-b) = a * b OBVIOUS
<1>2. CASE p /\ q
  <2>1. ~s BY <1>2, Zenon
  <2> QED BY <1>1, <1>2, <2>1, Zenon
<1>3. CASE p /\ ~q
  <2>1. s BY <1>3, Zenon
  <2> QED BY <1>1, <1>3, <2>1, Zenon
<1>4. CASE ~p /\ q
  <2>1. s BY <1>4, Zenon
  <2> QED BY <1>1, <1>4, <2>1, Zenon
<1>5. CASE ~p /\ ~q
  <2>1. ~s BY <1>5
  <2> QED BY <1>1, <1>5, <2>1, Zenon
<1> QED BY <1>2, <1>3, <1>4, <1>5

(* The signed product.                                                     *)
LEMMA ProductSigned ==
  ASSUME NEW a \in Signeds, NEW b \in Signeds, NEW c, IsProduct(c, a, b)
  PROVE  c.array \in Numbers /\ IntOf(c) = IntOf(a) * IntOf(b)
<1> DEFINE va == Value(a.array) vb == Value(b.array) i == IntOf(a) j == IntOf(b)
           vc == Value(c.array)
<1>0. /\ c.neg \in BOOLEAN
      /\ c.array = multiply(a.array, b.array)
      /\ c.array # <<>> => c.neg = (a.neg # b.neg)
  BY DEF IsProduct
<1>1. /\ a.array \in Numbers /\ a.neg \in BOOLEAN /\ va \in Nat /\ i \in Int
      /\ i = IF a.neg THEN -va ELSE va
  BY SignedIs
<1>2. /\ b.array \in Numbers /\ b.neg \in BOOLEAN /\ vb \in Nat /\ j \in Int
      /\ j = IF b.neg THEN -vb ELSE vb
  BY SignedIs
<1>3. c.array \in Numbers /\ vc = va * vb BY <1>0, <1>1, <1>2, MultiplyIs
<1>5. IntOf(c) = IF c.neg THEN -vc ELSE vc BY DEF IntOf
<1>6. vc \in Nat /\ (c.array = <<>> => vc = 0)
  <2>1. vc \in Nat BY <1>3, NumbersAre
  <2>2. c.array = <<>> => vc = 0 BY <1>3, Bounds
  <2> QED BY <2>1, <2>2
<1> HIDE DEF va, vb, i, j, vc
<1>8. CASE vc = 0
  <2>1. IntOf(c) = 0
    <3>1. -vc = 0
      <4>1. vc \in Int BY <1>6
      <4> QED BY <1>8, <4>1, MinusZero
    <3> QED BY <1>5, <1>8, <3>1, Zenon
  <2>2. va = 0 \/ vb = 0
    <3>1. \A g, h \in Nat : g * h = 0 => g = 0 \/ h = 0 OBVIOUS
    <3> QED BY <1>1, <1>2, <1>3, <1>8, <3>1
  <2>3. i = 0 \/ j = 0
    <3>1. va = 0 => -va = 0
      <4>1. va \in Int BY <1>1
      <4> QED BY <4>1, MinusZero
    <3>2. vb = 0 => -vb = 0
      <4>1. vb \in Int BY <1>2
      <4> QED BY <4>1, MinusZero
    <3> QED BY <1>1, <1>2, <2>2, <3>1, <3>2, Zenon
  <2>4. i * j = 0
    <3>1. \A g, h \in Int : g = 0 \/ h = 0 => g * h = 0 OBVIOUS
    <3> QED BY <1>1, <1>2, <2>3, <3>1
  <2> QED BY <1>3, <2>1, <2>4 DEF i, j
<1>9. CASE vc # 0
  <2>1. c.neg = (a.neg # b.neg) BY <1>0, <1>6, <1>9
  <2>2. (IF c.neg THEN -(va * vb) ELSE va * vb)
          = (IF a.neg THEN -va ELSE va) * (IF b.neg THEN -vb ELSE vb)
    <3>1. a.neg \in BOOLEAN /\ b.neg \in BOOLEAN /\ c.neg \in BOOLEAN /\ va \in Nat /\ vb \in Nat
      BY <1>0, <1>1, <1>2
    <3>2. Tells(c.neg, a.neg, b.neg) BY Zenon, <2>1 DEF Tells
    <3>3. SignedBy(c.neg, va * vb) = SignedBy(a.neg, va) * SignedBy(b.neg, vb)
      BY <3>1, <3>2, ProductOfSigns
    <3> QED BY Zenon, <3>3 DEF SignedBy
  <2>3. IntOf(c) = i * j BY <1>1, <1>2, <1>3, <1>5, <2>2
  <2> QED BY <1>3, <2>3 DEF i, j
<1> QED BY <1>8, <1>9

(* The product of signed numbers, of a zero too.                           *)
LEMMA TimesIs ==
  ASSUME NEW a \in Signeds, NEW b \in Signeds
  PROVE  times(a, b) \in Signeds /\ IntOf(times(a, b)) = IntOf(a) * IntOf(b)
<1> DEFINE c == times(a, b) q == multiply(a.array, b.array)
           r == [a EXCEPT !.array = q]
<1>1. a.neg \in BOOLEAN /\ b.neg \in BOOLEAN /\ a.array \in Numbers /\ b.array \in Numbers BY SignedIs
<1>2. b.array # <<>> => isNegative(b) = b.neg BY <1>1 DEF isNegative, isZero
<1>3. r = [neg |-> a.neg, array |-> q] BY DEF Signeds
<1>4. c = [r EXCEPT !.neg = isNegative(r) # isNegative(b)] BY Zenon DEF times, WithSignOf
<1>5. q # <<>> => b.array # <<>>
  <2>1. SUFFICES ASSUME b.array = <<>> PROVE q = <<>> OBVIOUS
  <2>2. Value(b.array) = 0 BY <2>1, EmptyIs
  <2>3. q \in Numbers /\ Value(q) = Value(a.array) * Value(b.array) /\ Value(a.array) \in Nat
    BY <1>1, MultiplyIs, NumbersAre
  <2>4. Value(q) = 0 BY <2>2, <2>3
  <2> HIDE DEF q
  <2> QED BY <2>3, <2>4, EmptyIs, IsLessIs
<1> HIDE DEF r, q, c
<1>6. c = [neg |-> isNegative(r) # isNegative(b), array |-> q] BY <1>3, <1>4
<1>7. q # <<>> => isNegative(r) = a.neg BY <1>1, <1>3 DEF isNegative, isZero
<1>8. c.array = q /\ c.neg = (isNegative(r) # isNegative(b)) BY <1>6
<1>9. c.neg \in BOOLEAN BY <1>8, Zenon
<1>10. c.array # <<>> => c.neg = (a.neg # b.neg) BY <1>2, <1>5, <1>7, <1>8, Zenon
<1>11. c.array \in Numbers /\ IntOf(c) = IntOf(a) * IntOf(b)
  <2>1. IsProduct(c, a, b) BY <1>8, <1>9, <1>10, Zenon DEF IsProduct, q
  <2> QED BY <2>1, ProductSigned
<1>12. c = [neg |-> c.neg, array |-> c.array] BY <1>6, <1>8
<1>13. c \in Signeds BY <1>9, <1>11, <1>12 DEF Signeds
<1> QED BY <1>11, <1>13 DEF c
(* The object is in the one form, and is the integer it should be.         *)
Held == x \in Signeds /\ val \in Int /\ IntOf(x) = val

(* The one form determines the comparisons.                                *)
LEMMA HeldIsExact == Held => Exact
<1> SUFFICES ASSUME Held PROVE Exact OBVIOUS
<1>1. x \in Signeds /\ val \in Int /\ IntOf(x) = val BY DEF Held
<1>2. x.array \in Numbers BY <1>1, SignedIs
<1>3. x.array \in Arrays /\ DOMAIN x.array = 1..Len(x.array)
      /\ \A i \in 1..Len(x.array) : x.array[i] \in 0..Base - 1
  BY <1>2, NumbersAre, ArraysAre
<1>4. isZero(x) \/ Last(x.array) # 0 BY <1>2 DEF isZero, Numbers, Last
<1>5. \A i \in Operands \cup {val} :
          /\ equal(x, Big(i)) <=> val = i
          /\ less(x, Big(i)) <=> val < i
          /\ less(Big(i), x) <=> i < val
  <2> TAKE i \in Operands \cup {val}
  <2>1. i \in Int BY <1>1, BigAssumption
  <2>2. Big(i) \in Signeds /\ IntOf(Big(i)) = i BY <2>1, BigIs
  <2>3. less(x, Big(i)) <=> IntOf(x) < IntOf(Big(i)) BY <1>1, <2>2, ComparesIs
  <2>4. equal(x, Big(i)) <=> IntOf(x) = IntOf(Big(i)) BY <1>1, <2>2, ComparesIs
  <2>5. less(Big(i), x) <=> IntOf(Big(i)) < IntOf(x) BY <1>1, <2>2, ComparesIs
  <2> QED BY <1>1, <2>2, <2>3, <2>4, <2>5
<1> QED BY <1>1, <1>3, <1>4, <1>5 DEF Exact

-----------------------------------------------------------------------------
(* Recursion, powers and remainders.                                       *)

(* A function whose value at p outside S is made from that at next[p],     *)
(* which m puts lower.                                                     *)
Measured(D, S, next, m) ==
    /\ \A p \in D : m[p] \in Nat
    /\ \A p \in D : p \notin S => next[p] \in D /\ m[next[p]] < m[p]
MadeIn(D, R, S, base, F) ==
    /\ \A p \in D : p \in S => base[p] \in R
    /\ \A p \in D, r \in R : p \notin S => F[<<p, r>>] \in R
Made(f, D, S, base, F, next) ==
    f = [p \in D |-> IF p \in S THEN base[p] ELSE F[<<p, f[next[p]]>>]]

(* Such a function exists.                                                 *)
LEMMA MeasuredRecursion ==
  ASSUME NEW D, NEW R, NEW S, NEW next, NEW m, NEW base, NEW F, R # {},
         Measured(D, S, next, m), MadeIn(D, R, S, base, F)
  PROVE  \E f \in [D -> R] : Made(f, D, S, base, F, next)
<1> USE DEF Measured, MadeIn
<1>1. PICK r0 \in R : TRUE OBVIOUS
<1> DEFINE Fs == [D -> R]
           first == [p \in D |-> r0]
           after(e) == [p \in D |-> IF p \in S THEN base[p] ELSE F[<<p, e[next[p]]>>]]
           G == [q \in (Nat \ {0}) \X Fs |-> after(q[2])]
<1>2. first \in Fs BY <1>1
<1>3. \A e \in Fs : after(e) \in Fs OBVIOUS
<1>4. \A i \in Nat \ {0}, e \in Fs : G[<<i, e>>] \in Fs /\ G[<<i, e>>] = after(e)
  <2> TAKE i \in Nat \ {0}, e \in Fs
  <2> HIDE DEF Fs, after
  <2>1. <<i, e>> \in (Nat \ {0}) \X Fs /\ <<i, e>>[2] = e OBVIOUS
  <2> QED BY <1>3, <2>1
<1> HIDE DEF Fs, G, first
<1>5. PICK h \in [Nat -> Fs] : Recursive(h, Nat, first, G) BY <1>2, <1>4, NatRecursion
<1>6. \A i \in Nat : h[i] \in Fs /\ h[i + 1] = after(h[i])
  <2> TAKE i \in Nat
  <2> HIDE DEF after
  <2>1. h[i] \in Fs BY <1>5
  <2>2. i + 1 \in Nat \ {0} /\ (i + 1) - 1 = i OBVIOUS
  <2>3. h[i + 1] = G[<<i + 1, h[i]>>] BY <1>5, <2>2 DEF Recursive
  <2> QED BY <1>4, <2>1, <2>2, <2>3
<1>7. \A i \in Nat, p \in D : h[i + 1][p] = IF p \in S THEN base[p] ELSE F[<<p, h[i][next[p]]>>]
  <2> TAKE i \in Nat, p \in D
  <2>1. h[i + 1] = after(h[i]) BY <1>6
  <2> QED BY <2>1
<1> HIDE DEF after
<1> DEFINE T == {i \in Nat : \A p \in D : m[p] < i => h[i + 1][p] = h[i][p]}
<1>8. 0 \in T OBVIOUS
<1>9. ASSUME NEW i \in Nat, i \in T PROVE i + 1 \in T
  <2>1. SUFFICES ASSUME NEW p \in D, m[p] < i + 1 PROVE h[(i + 1) + 1][p] = h[i + 1][p] OBVIOUS
  <2>2. h[i + 1][p] = IF p \in S THEN base[p] ELSE F[<<p, h[i][next[p]]>>] BY <1>7
  <2>3. i + 1 \in Nat OBVIOUS
  <2>4. h[(i + 1) + 1][p] = IF p \in S THEN base[p] ELSE F[<<p, h[i + 1][next[p]]>>] BY <1>7, <2>3
  <2>5. CASE p \in S BY <2>2, <2>4, <2>5
  <2>6. CASE p \notin S
    <3>1. next[p] \in D /\ m[next[p]] < i BY <2>1, <2>6
    <3>2. h[i + 1][next[p]] = h[i][next[p]] BY <1>9, <3>1
    <3> QED BY <2>2, <2>4, <2>6, <3>2
  <2> QED BY <2>5, <2>6
<1> HIDE DEF T
<1>10. \A i \in Nat : i \in T BY <1>8, <1>9, NatSetInduction
<1>11. \A i \in Nat, p \in D : m[p] < i => h[i + 1][p] = h[i][p] BY <1>10 DEF T
<1> DEFINE U == {k \in Nat : \A p \in D : h[m[p] + 1 + k][p] = h[m[p] + 1][p]}
<1>12. 0 \in U
  <2>1. \A p \in D : m[p] + 1 + 0 = m[p] + 1 OBVIOUS
  <2> QED BY <2>1
<1>13. ASSUME NEW k \in Nat, k \in U PROVE k + 1 \in U
  <2>1. SUFFICES ASSUME NEW p \in D PROVE h[m[p] + 1 + (k + 1)][p] = h[m[p] + 1][p] OBVIOUS
  <2>2. PICK i \in Nat : i = m[p] + 1 + k /\ m[p] < i /\ m[p] + 1 + (k + 1) = i + 1 OBVIOUS
  <2>3. h[i + 1][p] = h[i][p] BY <1>11, <2>2
  <2>4. h[i][p] = h[m[p] + 1][p] BY <1>13, <2>2
  <2> QED BY <2>2, <2>3, <2>4
<1> HIDE DEF U
<1>14. \A k \in Nat : k \in U BY <1>12, <1>13, NatSetInduction
<1>15. \A p \in D, i \in Nat : m[p] < i => h[i][p] = h[m[p] + 1][p]
  <2> TAKE p \in D, i \in Nat
  <2>1. SUFFICES ASSUME m[p] < i PROVE h[i][p] = h[m[p] + 1][p] OBVIOUS
  <2>2. PICK k \in Nat : m[p] + 1 + k = i
    <3>1. i - (m[p] + 1) \in Nat /\ m[p] + 1 + (i - (m[p] + 1)) = i BY <2>1
    <3> QED BY <3>1
  <2>3. k \in U BY <1>14
  <2> QED BY <2>2, <2>3 DEF U
<1> DEFINE f == [p \in D |-> h[m[p] + 1][p]]
<1>16. f \in [D -> R]
  <2>1. \A p \in D : h[m[p] + 1][p] \in R
    <3> TAKE p \in D
    <3>1. m[p] + 1 \in Nat OBVIOUS
    <3>2. h[m[p] + 1] \in Fs BY <1>5, <3>1
    <3> QED BY <3>2 DEF Fs
  <2> QED BY <2>1
<1>17. \A p \in D : f[p] = IF p \in S THEN base[p] ELSE F[<<p, f[next[p]]>>]
  <2> TAKE p \in D
  <2>1. f[p] = h[m[p] + 1][p] OBVIOUS
  <2>2. m[p] \in Nat OBVIOUS
  <2>3. h[m[p] + 1][p] = IF p \in S THEN base[p] ELSE F[<<p, h[m[p]][next[p]]>>] BY <1>7, <2>2
  <2>4. CASE p \in S BY <2>1, <2>3, <2>4
  <2>5. CASE p \notin S
    <3>1. next[p] \in D /\ m[next[p]] < m[p] BY <2>5
    <3>2. h[m[p]][next[p]] = h[m[next[p]] + 1][next[p]] BY <1>15, <2>2, <3>1
    <3>3. f[next[p]] = h[m[next[p]] + 1][next[p]] BY <3>1
    <3> HIDE DEF f
    <3> QED BY <2>1, <2>3, <2>5, <3>2, <3>3
  <2> QED BY <2>4, <2>5
<1>18. f = [p \in D |-> f[p]] OBVIOUS
<1> HIDE DEF f
<1>19. Made(f, D, S, base, F, next) BY <1>17, <1>18 DEF Made
<1> QED BY <1>16, <1>19
(* Powers of any integer.                                                  *)
Multiplied(i) == [q \in (Nat \ {0}) \X Int |-> i * q[2]]
Pow(i, n) == (CHOOSE s \in [Nat -> Int] : Recursive(s, Nat, 1, Multiplied(i)))[n]

(* A power from the one before.                                            *)
LEMMA PowIs ==
  ASSUME NEW i \in Int, NEW n \in Nat
  PROVE  Pow(i, n) \in Int /\ Pow(i, 0) = 1 /\ Pow(i, n + 1) = i * Pow(i, n)
<1> DEFINE G == Multiplied(i) s == CHOOSE f \in [Nat -> Int] : Recursive(f, Nat, 1, G)
<1>1. \A k \in Nat \ {0}, e \in Int : G[<<k, e>>] \in Int /\ G[<<k, e>>] = i * e
  <2> TAKE k \in Nat \ {0}, e \in Int
  <2>1. <<k, e>> \in (Nat \ {0}) \X Int /\ <<k, e>>[2] = e OBVIOUS
  <2>2. G[<<k, e>>] = i * e BY <2>1 DEF Multiplied
  <2>3. i * e \in Int OBVIOUS
  <2> QED BY <2>2, <2>3
<1> HIDE DEF G
<1>2. \E f \in [Nat -> Int] : Recursive(f, Nat, 1, G)
  <2>1. \A k \in Nat \ {0}, e \in Int : G[<<k, e>>] \in Int BY <1>1
  <2>2. 1 \in Int OBVIOUS
  <2> QED BY <2>1, <2>2, NatRecursion
<1>3. s \in [Nat -> Int] /\ Recursive(s, Nat, 1, G) BY <1>2
<1>4. \A k \in Nat : Pow(i, k) = s[k] BY DEF Pow, G
<1> HIDE DEF s
<1>5. s[0] = 1 BY <1>3 DEF Recursive
<1>6. s[n + 1] = i * s[n]
  <2>1. n + 1 \in Nat \ {0} /\ (n + 1) - 1 = n OBVIOUS
  <2>2. s[n + 1] = G[<<n + 1, s[n]>>] BY <1>3, <2>1 DEF Recursive
  <2>3. s[n] \in Int BY <1>3
  <2> QED BY <1>1, <2>1, <2>2, <2>3
<1> QED BY <1>3, <1>4, <1>5, <1>6

(* Powers of natural numbers.                                              *)
LEMMA PowNat ==
  ASSUME NEW i \in Nat, NEW n \in Nat
  PROVE  Pow(i, n) \in Nat
<1> DEFINE T == {k \in Nat : Pow(i, k) \in Nat}
<1>1. 0 \in T BY PowIs
<1>2. ASSUME NEW k \in Nat, k \in T PROVE k + 1 \in T
  <2>1. Pow(i, k + 1) = i * Pow(i, k) BY PowIs
  <2>2. PICK e \in Nat : e = Pow(i, k) BY <1>2
  <2>3. i * e \in Nat OBVIOUS
  <2> QED BY <2>1, <2>2, <2>3
<1> HIDE DEF T
<1>3. n \in T BY <1>1, <1>2, NatSetInduction
<1> QED BY <1>3 DEF T

(* Powers of a sum.                                                        *)
LEMMA PowSum ==
  ASSUME NEW i \in Int, NEW m \in Nat, NEW n \in Nat
  PROVE  Pow(i, m + n) = Pow(i, m) * Pow(i, n)
<1> DEFINE T == {k \in Nat : Pow(i, m + k) = Pow(i, m) * Pow(i, k)}
<1>1. PICK p \in Int : p = Pow(i, m) BY PowIs
<1>2. 0 \in T
  <2>1. Pow(i, 0) = 1 /\ m + 0 = m BY PowIs
  <2>2. p * 1 = p OBVIOUS
  <2> QED BY <1>1, <2>1, <2>2
<1>3. ASSUME NEW k \in Nat, k \in T PROVE k + 1 \in T
  <2>1. PICK e \in Int : e = Pow(i, k) BY PowIs
  <2>2. m + (k + 1) = (m + k) + 1 /\ m + k \in Nat /\ k + 1 \in Nat OBVIOUS
  <2>3. Pow(i, (m + k) + 1) = i * Pow(i, m + k) BY <2>2, PowIs
  <2>4. Pow(i, m + k) = p * e BY <1>1, <1>3, <2>1
  <2>5. Pow(i, k + 1) = i * e BY <2>1, PowIs
  <2>6. i * (p * e) = p * (i * e) OBVIOUS
  <2> QED BY <1>1, <2>2, <2>3, <2>4, <2>5, <2>6
<1> HIDE DEF T
<1>4. n \in T BY <1>2, <1>3, NatSetInduction
<1> QED BY <1>4 DEF T
(* Remainders.                                                             *)
Same(g, h, m) == g % m = h % m

(* Remainders for the provers.                                             *)
LEMMA ModIs ==
  ASSUME NEW g \in Nat, NEW m \in Nat \ {0}
  PROVE  /\ g % m \in Nat /\ g % m < m /\ g % m \in 0..m - 1
         /\ \E q \in Nat : g = q * m + (g % m)
         /\ g < m => g % m = g
         /\ (g % m) % m = g % m
<1>1. g \div m \in Nat /\ g % m \in 0..m - 1 /\ g = m * (g \div m) + (g % m) BY DivMod
<1>2. PICK q \in Nat, r \in 0..m - 1 : q = g \div m /\ r = g % m /\ g = m * q + r BY <1>1
<1>3. g = q * m + r BY <1>2
<1>4. g < m => g % m = g
  <2>1. SUFFICES ASSUME g < m PROVE g % m = g OBVIOUS
  <2>2. g \in 0..m - 1 /\ 0 * m + g = g BY <2>1
  <2> QED BY <2>2, EuclidOnce
<1>5. r % m = r
  <2>1. r \in Nat /\ 0 * m + r = r OBVIOUS
  <2> QED BY <2>1, EuclidOnce
<1> QED BY <1>2, <1>3, <1>4, <1>5

(* A number is a multiple and its remainder.                               *)
LEMMA ModSplit ==
  ASSUME NEW g \in Nat, NEW m \in Nat \ {0}
  PROVE  \E q \in Nat, r \in 0..m - 1 : r = g % m /\ g = q * m + r
<1>1. g \div m \in Nat /\ g % m \in 0..m - 1 /\ g = m * (g \div m) + (g % m) BY DivMod
<1>2. PICK q \in Nat, r \in 0..m - 1 : q = g \div m /\ r = g % m /\ g = m * q + r BY <1>1
<1>3. g = q * m + r BY <1>2
<1> QED BY <1>2, <1>3

(* A multiple more leaves the same.                                        *)
LEMMA ModOfMultiple ==
  ASSUME NEW g \in Nat, NEW m \in Nat \ {0}, NEW k \in Nat
  PROVE  (k * m + g) % m = g % m
<1>1. PICK q \in Nat, r \in 0..m - 1 : r = g % m /\ g = q * m + r BY ModSplit
<1>2. (k + q) * m + r = k * m + g BY <1>1
<1>3. k + q \in Nat /\ k * m + g \in Nat OBVIOUS
<1>4. PICK s \in Nat : s = k * m + g BY <1>3
<1>5. PICK t \in Nat : t = k + q BY <1>3
<1>6. t * m + r = s BY <1>2, <1>4, <1>5
<1>7. r = s % m BY <1>6, EuclidOnce
<1> QED BY <1>1, <1>4, <1>7

(* Factors may be reduced first.                                           *)
LEMMA ModTimes ==
  ASSUME NEW g \in Nat, NEW h \in Nat, NEW m \in Nat \ {0}
  PROVE  ((g % m) * (h % m)) % m = (g * h) % m
<1>1. PICK q \in Nat, r \in 0..m - 1 : r = g % m /\ g = q * m + r BY ModSplit
<1>2. PICK s \in Nat, t \in 0..m - 1 : t = h % m /\ h = s * m + t BY ModSplit
<1>3. g * h = (q * s * m + q * t + r * s) * m + r * t BY <1>1, <1>2
<1>4. q * s * m + q * t + r * s \in Nat /\ r * t \in Nat
  <2>1. q * s * m \in Nat OBVIOUS
  <2>2. q * t \in Nat OBVIOUS
  <2>3. r * s \in Nat OBVIOUS
  <2>4. r * t \in Nat OBVIOUS
  <2> QED BY <2>1, <2>2, <2>3, <2>4
<1>5. PICK k \in Nat, z \in Nat : k = q * s * m + q * t + r * s /\ z = r * t BY <1>4
<1>6. g * h = k * m + z BY <1>3, <1>5
<1>7. (k * m + z) % m = z % m BY ModOfMultiple
<1> QED BY <1>1, <1>2, <1>5, <1>6, <1>7

(* Products of what leaves the same leave the same.                        *)
LEMMA SameTimes ==
  ASSUME NEW g \in Nat, NEW h \in Nat, NEW e \in Nat, NEW f \in Nat, NEW m \in Nat \ {0},
         Same(g, e, m), Same(h, f, m)
  PROVE  Same(g * h, e * f, m)
<1>1. ((g % m) * (h % m)) % m = (g * h) % m BY ModTimes
<1>2. ((e % m) * (f % m)) % m = (e * f) % m BY ModTimes
<1> QED BY <1>1, <1>2 DEF Same

-----------------------------------------------------------------------------
(* Greatest common divisors.                                               *)

(* Divisors.                                                               *)
LEMMA DividesIs ==
  ASSUME NEW d \in Nat \ {0}, NEW g \in Nat
  PROVE  /\ g % d = 0 <=> \E k \in Nat : g = k * d
         /\ g % d = 0 /\ g # 0 => d <= g
<1>1. PICK q \in Nat, r \in 0..d - 1 : r = g % d /\ g = q * d + r BY ModSplit
<1>2. ASSUME NEW k \in Nat, g = k * d PROVE g % d = 0
  <2>1. k * d + 0 = g /\ 0 \in 0..d - 1 BY <1>2
  <2> QED BY <2>1, EuclidOnce
<1>3. r = 0 => g = q * d BY <1>1
<1>4. q # 0 => d <= q * d
  <2>1. SUFFICES ASSUME q # 0 PROVE d <= q * d OBVIOUS
  <2>2. 1 * d <= q * d BY <2>1, TimesMonotone
  <2> QED BY <2>2
<1>5. q = 0 => q * d = 0 OBVIOUS
<1> QED BY <1>1, <1>2, <1>3, <1>4, <1>5

(* d divides both numbers exactly when it divides the second and what the  *)
(* division of the first by it leaves.                                     *)
LEMMA DividesRemainder ==
  ASSUME NEW d \in Nat \ {0}, NEW i \in Nat, NEW j \in Nat \ {0}, j % d = 0
  PROVE  i % d = 0 <=> (i % j) % d = 0
<1>1. PICK q \in Nat, r \in 0..j - 1 : r = i % j /\ i = q * j + r BY ModSplit
<1>2. PICK k \in Nat : j = k * d BY DividesIs
<1>3. PICK h \in Nat : h = q * k OBVIOUS
<1>4. i = h * d + r
  <2>1. q * j = h * d BY <1>2, <1>3
  <2> QED BY <1>1, <2>1
<1>5. (h * d + r) % d = r % d
  <2>1. r \in Nat OBVIOUS
  <2> QED BY <2>1, ModOfMultiple
<1> QED BY <1>1, <1>4, <1>5

(* Euclid's step.                                                          *)
LEMMA GreatestNext ==
  ASSUME NEW i \in Nat, NEW j \in Nat \ {0}
  PROVE  GreatestDivisor(i, j) = GreatestDivisor(j, i % j)
<1> DEFINE r == i % j
           S == {d \in 1..j : i % d = 0 /\ j % d = 0}
           U == {d \in 1..r : j % d = 0 /\ r % d = 0}
<1>1. r \in Nat /\ r < j BY ModIs
<1>2. GreatestDivisor(i, j) = Max(S) BY DEF GreatestDivisor
<1>3. CASE r = 0
  <2>1. GreatestDivisor(j, r) = j BY <1>3 DEF GreatestDivisor
  <2>2. j % j = 0
    <3>1. j = 1 * j OBVIOUS
    <3> QED BY <3>1, DividesIs
  <2>3. j \in S /\ \A d \in S : j >= d BY <1>3, <2>2
  <2>4. Max(S) \in S /\ \A d \in S : Max(S) >= d
    <3> HIDE DEF S
    <3> QED BY <2>3 DEF Max
  <2>5. Max(S) \in 1..j BY <2>4
  <2>6. Max(S) = j BY <2>3, <2>4, <2>5
  <2> QED BY <1>2, <2>1, <2>6
<1>4. CASE r # 0
  <2>1. GreatestDivisor(j, r) = Max(U) BY <1>4 DEF GreatestDivisor
  <2>2. \A d \in Nat \ {0} : j % d = 0 => (i % d = 0 <=> r % d = 0) BY DividesRemainder
  <2>3. \A d \in Nat \ {0} : r % d = 0 => d <= r BY <1>1, <1>4, DividesIs
  <2> HIDE DEF r
  <2>4. S = U
    <3>1. ASSUME NEW d \in S PROVE d \in U
      <4>1. d \in Nat \ {0} /\ i % d = 0 /\ j % d = 0 OBVIOUS
      <4>2. r % d = 0 BY <2>2, <4>1
      <4>3. d <= r BY <2>3, <4>1, <4>2
      <4> QED BY <1>1, <4>1, <4>2, <4>3
    <3>2. ASSUME NEW d \in U PROVE d \in S
      <4>1. d \in Nat \ {0} /\ r % d = 0 /\ j % d = 0 /\ d <= r BY <1>1
      <4>2. i % d = 0 BY <2>2, <4>1
      <4> QED BY <1>1, <4>1, <4>2
    <3> QED BY <3>1, <3>2
  <2> HIDE DEF S, U
  <2> QED BY <1>2, <2>1, <2>4 DEF r
<1> QED BY <1>3, <1>4

(* The greatest divisor is a number.                                       *)
LEMMA GreatestType ==
  ASSUME NEW i \in Nat, NEW j \in Nat
  PROVE  GreatestDivisor(i, j) \in Nat
<1>1. CASE j = 0 BY <1>1 DEF GreatestDivisor
<1>2. CASE j # 0
  <2> DEFINE S == {d \in 1..j : i % d = 0 /\ j % d = 0}
  <2>1. 1 \in S
    <3>1. \A g \in Nat : g % 1 = 0
      <4> TAKE g \in Nat
      <4>1. g = g * 1 OBVIOUS
      <4> QED BY <4>1, DividesIs
    <3> QED BY <1>2, <3>1
  <2>2. S \in SUBSET (0..j) BY <1>2
  <2> HIDE DEF S
  <2>3. Max(S) \in S BY <2>1, <2>2, HasGreatest
  <2>4. GreatestDivisor(i, j) = Max(S) BY <1>2 DEF GreatestDivisor, S
  <2>5. Max(S) \in 0..j BY <2>2, <2>3
  <2>6. GreatestDivisor(i, j) \in 0..j BY Zenon, <2>4, <2>5
  <2> QED BY <2>6
<1> QED BY <1>1, <1>2

(* Euclid's algorithm gives the greatest common divisor.                   *)
LEMMA GcdIs ==
  ASSUME NEW a \in Numbers, NEW b \in Numbers
  PROVE  gcd(a, b) \in Numbers /\ Value(gcd(a, b)) = GreatestDivisor(Value(a), Value(b))
<1> DEFINE P == Numbers \X Numbers
           S == {p \in P : p[2] = <<>>}
           next == [p \in P |-> <<p[2], divide(p[1], p[2]).rem>>]
           m == [p \in P |-> Value(p[2])]
           first == [p \in P |-> p[1]]
           F == [q \in P \X Numbers |-> q[2]]
           Is(e) == e = [p \in P |-> IF p[2] = <<>> THEN p[1] ELSE e[<<p[2], divide(p[1], p[2]).rem>>]]
           g == CHOOSE e : Is(e)
<1>1. \A p \in P : p[1] \in Numbers /\ p[2] \in Numbers /\ m[p] = Value(p[2]) /\ first[p] = p[1]
                   /\ next[p] = <<p[2], divide(p[1], p[2]).rem>> /\ (p \in S <=> p[2] = <<>>)
  OBVIOUS
<1>2. \A p \in P, r \in Numbers : F[<<p, r>>] = r OBVIOUS
<1>3. \A u, v \in Numbers : <<u, v>> \in P /\ <<u, v>>[1] = u /\ <<u, v>>[2] = v OBVIOUS
<1> HIDE DEF P, S, next, m, first, F
<1>4. \A p \in P : p[2] # <<>> =>
         /\ next[p] \in P /\ m[next[p]] < m[p] /\ next[p][1] = p[2]
         /\ Value(next[p][2]) = Value(p[1]) % Value(p[2])
  <2> TAKE p \in P
  <2>1. SUFFICES ASSUME p[2] # <<>>
                 PROVE  /\ next[p] \in P /\ m[next[p]] < m[p] /\ next[p][1] = p[2]
                        /\ Value(next[p][2]) = Value(p[1]) % Value(p[2])
    OBVIOUS
  <2>2. PICK u \in Numbers, v \in Numbers : u = p[1] /\ v = p[2] BY <1>1
  <2>3. divide(u, v).rem \in Numbers /\ Value(divide(u, v).rem) = Value(u) % Value(v)
        /\ Value(divide(u, v).rem) < Value(v)
    BY <2>1, <2>2, QuotientIs
  <2>4. next[p] = <<v, divide(u, v).rem>> BY <1>1, <2>2
  <2>5. next[p] \in P /\ next[p][1] = v /\ next[p][2] = divide(u, v).rem BY <1>3, <2>3, <2>4
  <2>6. m[next[p]] = Value(next[p][2]) /\ m[p] = Value(v) BY <1>1, <2>2, <2>5
  <2> QED BY <2>2, <2>3, <2>5, <2>6
<1>5. Is(g)
  <2>1. Measured(P, S, next, m)
    <3>1. \A p \in P : m[p] \in Nat BY <1>1, NumbersAre
    <3> QED BY <1>1, <1>4, <3>1 DEF Measured
  <2>2. MadeIn(P, Numbers, S, first, F) BY <1>1, <1>2 DEF MadeIn
  <2>3. Numbers # {} BY EmptyIs
  <2>4. PICK f \in [P -> Numbers] : Made(f, P, S, first, F, next) BY <2>1, <2>2, <2>3, MeasuredRecursion
  <2>5. \A p \in P : f[p] = IF p[2] = <<>> THEN p[1] ELSE f[<<p[2], divide(p[1], p[2]).rem>>]
    <3> TAKE p \in P
    <3>1. f[p] = IF p \in S THEN first[p] ELSE F[<<p, f[next[p]]>>] BY <2>4 DEF Made
    <3>2. CASE p[2] = <<>> BY <1>1, <3>1, <3>2
    <3>3. CASE p[2] # <<>>
      <4>1. f[next[p]] \in Numbers BY <1>4, <2>4, <3>3
      <4>2. F[<<p, f[next[p]]>>] = f[next[p]] BY <1>2, <4>1
      <4> QED BY <1>1, <3>1, <3>3, <4>2
    <3> QED BY <3>2, <3>3
  <2>6. f = [p \in P |-> f[p]] BY <2>4
  <2>7. Is(f) BY <2>5, <2>6
  <2> QED BY <2>7
<1>6. gcd(a, b) = g[<<a, b>>] BY Zenon DEF gcd, P
<1> HIDE DEF g
<1>7. \A p \in P : g[p] = IF p[2] = <<>> THEN p[1] ELSE g[next[p]] BY <1>1, <1>5
<1> DEFINE T == {k \in Nat : \A p \in P : m[p] = k =>
                    g[p] \in Numbers /\ Value(g[p]) = GreatestDivisor(Value(p[1]), Value(p[2]))}
<1>8. \A k \in Nat : (\A i \in 0..k - 1 : i \in T) => k \in T
  <2> TAKE k \in Nat
  <2>1. SUFFICES ASSUME \A i \in 0..k - 1 : i \in T, NEW p \in P, m[p] = k
                 PROVE  g[p] \in Numbers /\ Value(g[p]) = GreatestDivisor(Value(p[1]), Value(p[2]))
    OBVIOUS
  <2>2. PICK u \in Numbers, v \in Numbers : u = p[1] /\ v = p[2] BY <1>1
  <2>3. Value(u) \in Nat /\ Value(v) \in Nat BY NumbersAre
  <2>4. CASE v = <<>>
    <3>1. g[p] = u BY <1>7, <2>2, <2>4
    <3>2. Value(v) = 0 BY <2>4, EmptyIs
    <3>3. GreatestDivisor(Value(u), Value(v)) = Value(u) BY <3>2 DEF GreatestDivisor
    <3> QED BY <2>2, <3>1, <3>3
  <2>5. CASE v # <<>>
    <3>1. /\ next[p] \in P /\ m[next[p]] < m[p] /\ next[p][1] = v
          /\ Value(next[p][2]) = Value(u) % Value(v)
      BY <1>4, <2>2, <2>5
    <3>2. g[p] = g[next[p]] BY <1>7, <2>2, <2>5
    <3>3. m[next[p]] \in Nat BY <1>1, <3>1, NumbersAre
    <3>4. m[next[p]] \in T
      <4>1. m[next[p]] \in 0..k - 1 BY <2>1, <3>1, <3>3
      <4> QED BY <2>1, <4>1
    <3>5. g[next[p]] \in Numbers
          /\ Value(g[next[p]]) = GreatestDivisor(Value(v), Value(u) % Value(v))
      BY <3>1, <3>4
    <3>6. GreatestDivisor(Value(u), Value(v)) = GreatestDivisor(Value(v), Value(u) % Value(v))
      <4>1. Value(v) # 0 BY <2>5, Bounds
      <4> QED BY <2>3, <4>1, GreatestNext
    <3> QED BY <2>2, <3>2, <3>5, <3>6
  <2> QED BY <2>4, <2>5
<1> HIDE DEF T
<1>9. \A k \in Nat : k \in T BY <1>8, NatSetStrongInduction
<1>10. <<a, b>> \in P /\ <<a, b>>[1] = a /\ <<a, b>>[2] = b BY <1>3
<1>11. m[<<a, b>>] \in Nat BY <1>1, <1>10, NumbersAre
<1>12. g[<<a, b>>] \in Numbers /\ Value(g[<<a, b>>]) = GreatestDivisor(Value(a), Value(b))
  <2>1. m[<<a, b>>] \in T BY <1>9, <1>11
  <2> QED BY <1>10, <2>1 DEF T
<1> QED BY <1>6, <1>12

(* GCD gives the greatest common divisor.                                  *)
THEOREM GCDIs ==
  ASSUME NEW a \in Signeds, NEW b \in Signeds, ~isNegative(a), ~isNegative(b)
  PROVE  GCD(a, b) \in Signeds /\ IntOf(GCD(a, b)) = GreatestDivisor(IntOf(a), IntOf(b))
<1>1. a.array \in Numbers /\ b.array \in Numbers BY SignedIs
<1>2. IntOf(a) = Value(a.array) /\ IntOf(b) = Value(b.array)
  <2>1. /\ ~(IntOf(a) < 0) /\ Magnitude(IntOf(a)) = Value(a.array)
        /\ ~(IntOf(b) < 0) /\ Magnitude(IntOf(b)) = Value(b.array)
    BY SignedIs
  <2> QED BY <2>1 DEF Magnitude
<1>3. gcd(a.array, b.array) \in Numbers
      /\ Value(gcd(a.array, b.array)) = GreatestDivisor(Value(a.array), Value(b.array))
  BY <1>1, GcdIs
<1>4. GCD(a, b) = [neg |-> FALSE, array |-> gcd(a.array, b.array)] BY DEF GCD
<1>5. Value(gcd(a.array, b.array)) \in Nat BY <1>3, NumbersAre
<1> QED BY <1>2, <1>3, <1>4, <1>5, MadeIs

-----------------------------------------------------------------------------
(* Their coefficients.                                                     *)

(* A row's fields.                                                         *)
LEMMA RowsAre ==
  ASSUME NEW w
  PROVE  /\ w \in Rows => w.r \in Signeds /\ w.x \in Signeds /\ w.y \in Signeds
         /\ \A r, s, t \in Signeds : /\ [r |-> r, x |-> s, y |-> t] \in Rows
                                     /\ [r |-> r, x |-> s, y |-> t].r = r
                                     /\ [r |-> r, x |-> s, y |-> t].x = s
                                     /\ [r |-> r, x |-> s, y |-> t].y = t
<1>1. Objects = Signeds BY DEF Objects, Signeds
<1>2. Rows = [r : Signeds, x : Signeds, y : Signeds] BY <1>1 DEF Rows
<1> QED BY <1>2

(* What NextRow makes of two rows.                                         *)
LEMMA NextRowIs ==
  ASSUME NEW u \in Rows, NEW v \in Rows, ~isZero(v.r), NEW w, w = NextRow(u, v, div(u.r, v.r))
  PROVE  /\ w \in Rows /\ Value(w.r.array) < Value(v.r.array)
         /\ LET q == Truncated(IntOf(u.r), IntOf(v.r))
            IN  /\ IntOf(w.r) = IntOf(u.r) - IntOf(v.r) * q
                /\ IntOf(w.x) = IntOf(u.x) - q * IntOf(v.x)
                /\ IntOf(w.y) = IntOf(u.y) - q * IntOf(v.y)
<1> DEFINE q == Truncated(IntOf(u.r), IntOf(v.r))
           d == div(u.r, v.r)
           s == minus(u.x, times(d.quo, v.x))
           t == minus(u.y, times(d.quo, v.y))
<1>1. /\ u.r \in Signeds /\ u.x \in Signeds /\ u.y \in Signeds
      /\ v.r \in Signeds /\ v.x \in Signeds /\ v.y \in Signeds
  BY RowsAre
<1>2. d.quo \in Signeds /\ IntOf(d.quo) = q BY <1>1, DivQuoIs
<1>3. d.rem \in Signeds /\ IntOf(d.rem) = IntOf(u.r) - IntOf(v.r) * q BY <1>1, ModuloIs
<1>4. Value(d.rem.array) < Value(v.r.array)
  <2>1. d.rem.array = divide(u.r.array, v.r.array).rem BY DEF div, Signed
  <2>2. u.r.array \in Numbers /\ v.r.array \in Numbers /\ v.r.array # <<>> BY <1>1, SignedIs DEF isZero
  <2> QED BY <2>1, <2>2, QuotientIs
<1>5. w = [r |-> d.rem, x |-> s, y |-> t] BY DEF NextRow
<1> HIDE DEF d, q
<1>6. s \in Signeds /\ IntOf(s) = IntOf(u.x) - q * IntOf(v.x)
  <2>1. times(d.quo, v.x) \in Signeds /\ IntOf(times(d.quo, v.x)) = q * IntOf(v.x) BY <1>1, <1>2, TimesIs
  <2> QED BY <1>1, <2>1, MinusAllIs
<1>7. t \in Signeds /\ IntOf(t) = IntOf(u.y) - q * IntOf(v.y)
  <2>1. times(d.quo, v.y) \in Signeds /\ IntOf(times(d.quo, v.y)) = q * IntOf(v.y) BY <1>1, <1>2, TimesIs
  <2> QED BY <1>1, <2>1, MinusAllIs
<1> HIDE DEF s, t
<1>8. w \in Rows /\ w.r = d.rem /\ w.x = s /\ w.y = t BY <1>3, <1>5, <1>6, <1>7, RowsAre
<1> QED BY <1>3, <1>4, <1>6, <1>7, <1>8 DEF q

(* The remainder of a row is its coefficients' combination of g and h.     *)
Combines(w, g, h) ==
    w \in Rows /\ IntOf(w.r) >= 0 /\ IntOf(w.r) = IntOf(w.x) * g + IntOf(w.y) * h

(* A step keeps both rows combinations, and their greatest divisor.        *)
LEMMA RowCombines ==
  ASSUME NEW g \in Int, NEW h \in Int, NEW u, NEW v, Combines(u, g, h), Combines(v, g, h),
         ~isZero(v.r), NEW w, w = NextRow(u, v, div(u.r, v.r))
  PROVE  /\ Combines(w, g, h)
         /\ GreatestDivisor(IntOf(u.r), IntOf(v.r)) = GreatestDivisor(IntOf(v.r), IntOf(w.r))
<1>0. u \in Rows /\ v \in Rows BY DEF Combines
<1>1. /\ u.r \in Signeds /\ u.x \in Signeds /\ u.y \in Signeds
      /\ v.r \in Signeds /\ v.x \in Signeds /\ v.y \in Signeds
  BY <1>0, RowsAre
<1>2. PICK i \in Nat, j \in Nat \ {0} : i = IntOf(u.r) /\ j = IntOf(v.r)
  <2>1. IntOf(u.r) \in Int /\ IntOf(v.r) \in Int /\ IntOf(v.r) # 0 BY <1>1, SignedIs
  <2>2. IntOf(u.r) \in Nat /\ IntOf(v.r) \in Nat \ {0} BY <2>1 DEF Combines
  <2> QED BY <2>2
<1>3. PICK a \in Int, b \in Int, c \in Int, d \in Int :
           a = IntOf(u.x) /\ b = IntOf(u.y) /\ c = IntOf(v.x) /\ d = IntOf(v.y)
  BY <1>1, SignedIs
<1>4. i = a * g + b * h /\ j = c * g + d * h BY <1>2, <1>3 DEF Combines
<1>5. PICK q \in Nat, r \in 0..j - 1 : q = i \div j /\ r = i % j /\ i = j * q + r
  <2>1. i \div j \in Nat /\ i % j \in 0..j - 1 /\ i = j * (i \div j) + (i % j) BY DivMod
  <2> QED BY <2>1
<1>6. Truncated(i, j) = q
  <2>1. ~(i < 0) /\ ~(j < 0) OBVIOUS
  <2> QED BY <1>5, <2>1 DEF Truncated, Magnitude
<1>7. /\ w \in Rows
      /\ IntOf(w.r) = i - j * q /\ IntOf(w.x) = a - q * c /\ IntOf(w.y) = b - q * d
  BY <1>0, <1>2, <1>3, <1>6, NextRowIs
<1>8. IntOf(w.r) = r
  <2>1. PICK k \in Int : k = j * q OBVIOUS
  <2>2. i = k + r /\ IntOf(w.r) = i - k BY <1>5, <1>7, <2>1
  <2> QED BY <2>2
<1>9. i - j * q = (a - q * c) * g + (b - q * d) * h
  <2>1. (a - q * c) * g + (b - q * d) * h = (a * g + b * h) - (c * g + d * h) * q OBVIOUS
  <2> QED BY <1>4, <2>1
<1>10. Combines(w, g, h) BY <1>7, <1>8, <1>9 DEF Combines
<1>11. GreatestDivisor(i, j) = GreatestDivisor(j, r) BY <1>5, GreatestNext
<1> QED BY <1>2, <1>8, <1>10, <1>11

(* Euclid's algorithm with coefficients, as extendedGCD does it.           *)
LEMMA ExtendedIs ==
  ASSUME NEW a \in Signeds, NEW b \in Signeds, ~isNegative(a), ~isNegative(b),
         NEW c, c = extendedGCD(a, b)
  PROVE  Combines(c, IntOf(a), IntOf(b)) /\ IntOf(c.r) = GreatestDivisor(IntOf(a), IntOf(b))
<1> DEFINE P == Rows \X Rows
           S == {p \in P : isZero(p[2].r)}
           next == [p \in P |-> <<p[2], NextRow(p[1], p[2], div(p[1].r, p[2].r))>>]
           m == [p \in P |-> Value(p[2].r.array)]
           first == [p \in P |-> p[1]]
           F == [q \in P \X Rows |-> q[2]]
           Is(e) == e = [p \in P |-> IF isZero(p[2].r) THEN p[1]
                                     ELSE e[<<p[2], NextRow(p[1], p[2], div(p[1].r, p[2].r))>>]]
           f == CHOOSE e : Is(e)
           one == [r |-> a, x |-> FromInt(1), y |-> FromInt(0)]
           two == [r |-> b, x |-> FromInt(0), y |-> FromInt(1)]
           g == IntOf(a)
           h == IntOf(b)
<1>1. \A p \in P : /\ p[1] \in Rows /\ p[2] \in Rows /\ m[p] = Value(p[2].r.array) /\ first[p] = p[1]
                   /\ next[p] = <<p[2], NextRow(p[1], p[2], div(p[1].r, p[2].r))>>
                   /\ (p \in S <=> isZero(p[2].r))
  OBVIOUS
<1>2. \A p \in P, r \in Rows : F[<<p, r>>] = r OBVIOUS
<1>3. \A u, v \in Rows : <<u, v>> \in P /\ <<u, v>>[1] = u /\ <<u, v>>[2] = v OBVIOUS
<1> HIDE DEF P, S, next, m, first, F
<1>4. \A p \in P : ~isZero(p[2].r) =>
         /\ next[p] \in P /\ m[next[p]] < m[p] /\ next[p][1] = p[2]
         /\ next[p][2] = NextRow(p[1], p[2], div(p[1].r, p[2].r))
  <2> TAKE p \in P
  <2>1. SUFFICES ASSUME ~isZero(p[2].r)
                 PROVE  /\ next[p] \in P /\ m[next[p]] < m[p] /\ next[p][1] = p[2]
                        /\ next[p][2] = NextRow(p[1], p[2], div(p[1].r, p[2].r))
    OBVIOUS
  <2>2. PICK u \in Rows, v \in Rows : u = p[1] /\ v = p[2] BY <1>1
  <2>3. PICK w : w = NextRow(u, v, div(u.r, v.r)) OBVIOUS
  <2>4. w \in Rows /\ Value(w.r.array) < Value(v.r.array) BY <2>1, <2>2, <2>3, NextRowIs
  <2>5. next[p] = <<v, w>> BY <1>1, <2>2, <2>3
  <2>6. next[p] \in P /\ next[p][1] = v /\ next[p][2] = w BY <1>3, <2>4, <2>5
  <2>7. m[next[p]] = Value(w.r.array) /\ m[p] = Value(v.r.array) BY <1>1, <2>2, <2>6
  <2> QED BY <2>2, <2>3, <2>4, <2>6, <2>7
<1>5. \A p \in P : m[p] \in Nat
  <2> TAKE p \in P
  <2>1. p[2].r \in Signeds BY <1>1, RowsAre
  <2> QED BY <1>1, <2>1, SignedIs
<1>6. one \in Rows /\ two \in Rows /\ Combines(one, g, h) /\ Combines(two, g, h)
      /\ one.r = a /\ two.r = b
  <2>1. 0 \in -(Base - 1)..Base - 1 /\ 1 \in -(Base - 1)..Base - 1
    <3>1. Base \in Nat \ {0, 1} BY BaseIs
    <3> QED BY <3>1
  <2>2. FromInt(0) \in Signeds /\ FromInt(1) \in Signeds /\ IntOf(FromInt(0)) = 0 /\ IntOf(FromInt(1)) = 1
    BY <2>1, FromIntIs
  <2>3. /\ one \in Rows /\ one.r = a /\ one.x = FromInt(1) /\ one.y = FromInt(0)
        /\ two \in Rows /\ two.r = b /\ two.x = FromInt(0) /\ two.y = FromInt(1)
    BY <2>2, RowsAre
  <2>4. g \in Int /\ h \in Int /\ g >= 0 /\ h >= 0 BY SignedIs
  <2> HIDE DEF one, two, g, h
  <2>5. g = 1 * g + 0 * h /\ h = 0 * g + 1 * h BY <2>4
  <2>6. IntOf(one.r) = g /\ IntOf(two.r) = h BY <2>3 DEF g, h
  <2> QED BY <2>2, <2>3, <2>4, <2>5, <2>6 DEF Combines
<1>7. Is(f)
  <2>1. Measured(P, S, next, m) BY <1>1, <1>4, <1>5 DEF Measured
  <2>2. MadeIn(P, Rows, S, first, F) BY <1>1, <1>2 DEF MadeIn
  <2>3. Rows # {} BY <1>6
  <2>4. PICK e \in [P -> Rows] : Made(e, P, S, first, F, next) BY <2>1, <2>2, <2>3, MeasuredRecursion
  <2>5. \A p \in P : e[p] = IF isZero(p[2].r) THEN p[1]
                            ELSE e[<<p[2], NextRow(p[1], p[2], div(p[1].r, p[2].r))>>]
    <3> TAKE p \in P
    <3>1. e[p] = IF p \in S THEN first[p] ELSE F[<<p, e[next[p]]>>] BY <2>4 DEF Made
    <3>2. CASE isZero(p[2].r) BY <1>1, <3>1, <3>2
    <3>3. CASE ~isZero(p[2].r)
      <4>1. e[next[p]] \in Rows BY <1>4, <2>4, <3>3
      <4>2. F[<<p, e[next[p]]>>] = e[next[p]] BY <1>2, <4>1
      <4> QED BY <1>1, <3>1, <3>3, <4>2
    <3> QED BY <3>2, <3>3
  <2>6. e = [p \in P |-> e[p]] BY <2>4
  <2>7. Is(e) BY <2>5, <2>6
  <2> QED BY <2>7
<1>8. extendedGCD(a, b) = f[<<one, two>>] BY Zenon DEF extendedGCD, P
<1> HIDE DEF f
<1>9. \A p \in P : f[p] = IF isZero(p[2].r) THEN p[1] ELSE f[next[p]]
  <2> TAKE p \in P
  <2>1. f[p] = IF isZero(p[2].r) THEN p[1]
               ELSE f[<<p[2], NextRow(p[1], p[2], div(p[1].r, p[2].r))>>]
    BY <1>7
  <2> QED BY <1>1, <2>1
<1> HIDE DEF one, two
<1> DEFINE Good(p) == Combines(p[1], g, h) /\ Combines(p[2], g, h)
           Right(p) == Combines(f[p], g, h)
                       /\ IntOf(f[p].r) = GreatestDivisor(IntOf(p[1].r), IntOf(p[2].r))
           T == {k \in Nat : \A p \in P : m[p] = k /\ Good(p) => Right(p)}
<1>10. \A k \in Nat : (\A i \in 0..k - 1 : i \in T) => k \in T
  <2> TAKE k \in Nat
  <2>1. SUFFICES ASSUME \A i \in 0..k - 1 : i \in T, NEW p \in P, m[p] = k, Good(p)
                 PROVE  Right(p)
    OBVIOUS
  <2>2. PICK u \in Rows, v \in Rows : u = p[1] /\ v = p[2] BY <1>1
  <2>3. g \in Int /\ h \in Int BY SignedIs
  <2>4. CASE isZero(v.r)
    <3>1. f[p] = u BY <1>9, <2>2, <2>4
    <3>2. IntOf(v.r) = 0
      <4>1. v.r \in Signeds BY RowsAre
      <4> QED BY <2>4, <4>1, SignedIs
    <3>3. GreatestDivisor(IntOf(u.r), IntOf(v.r)) = IntOf(u.r) BY <3>2 DEF GreatestDivisor
    <3> QED BY <2>1, <2>2, <3>1, <3>3
  <2>5. CASE ~isZero(v.r)
    <3>1. PICK w : w = NextRow(u, v, div(u.r, v.r)) OBVIOUS
    <3>2. next[p] \in P /\ m[next[p]] < m[p] /\ next[p][1] = v /\ next[p][2] = w
      BY <1>4, <2>2, <2>5, <3>1
    <3>3. f[p] = f[next[p]] BY <1>9, <2>2, <2>5
    <3>4. /\ Combines(w, g, h)
          /\ GreatestDivisor(IntOf(u.r), IntOf(v.r)) = GreatestDivisor(IntOf(v.r), IntOf(w.r))
      <4>1. Combines(u, g, h) /\ Combines(v, g, h) BY <2>1, <2>2
      <4> HIDE DEF g, h
      <4> QED BY <2>3, <2>5, <3>1, <4>1, RowCombines
    <3>5. m[next[p]] \in T
      <4>1. m[next[p]] \in 0..k - 1 BY <1>5, <2>1, <3>2
      <4> QED BY <2>1, <4>1
    <3>6. Good(next[p]) BY <2>1, <2>2, <3>2, <3>4
    <3>7. Right(next[p]) BY <3>2, <3>5, <3>6
    <3> QED BY <2>2, <3>2, <3>3, <3>4, <3>7
  <2> QED BY <2>4, <2>5
<1> HIDE DEF T
<1>11. \A k \in Nat : k \in T BY <1>10, NatSetStrongInduction
<1>12. <<one, two>> \in P /\ <<one, two>>[1] = one /\ <<one, two>>[2] = two BY <1>3, <1>6
<1>13. m[<<one, two>>] \in T BY <1>5, <1>11, <1>12
<1>14. Right(<<one, two>>) BY <1>6, <1>12, <1>13 DEF T
<1> QED BY <1>6, <1>8, <1>12, <1>14

(* extendedGCD's coefficients combine its arguments to their greatest      *)
(* common divisor.                                                         *)
THEOREM BezoutIs ==
  ASSUME NEW a \in Signeds, NEW b \in Signeds, ~isNegative(a), ~isNegative(b)
  PROVE  /\ Combined(extendedGCD(a, b), a, b) \in Signeds
         /\ IntOf(Combined(extendedGCD(a, b), a, b)) = GreatestDivisor(IntOf(a), IntOf(b))
<1>1. PICK c : c = extendedGCD(a, b) OBVIOUS
<1>2. Combines(c, IntOf(a), IntOf(b)) /\ IntOf(c.r) = GreatestDivisor(IntOf(a), IntOf(b))
  BY <1>1, ExtendedIs
<1>3. c.x \in Signeds /\ c.y \in Signeds BY <1>2, RowsAre DEF Combines
<1>4. times(c.x, a) \in Signeds /\ IntOf(times(c.x, a)) = IntOf(c.x) * IntOf(a) BY <1>3, TimesIs
<1>5. times(c.y, b) \in Signeds /\ IntOf(times(c.y, b)) = IntOf(c.y) * IntOf(b) BY <1>3, TimesIs
<1>6. /\ Combined(c, a, b) \in Signeds
      /\ IntOf(Combined(c, a, b)) = IntOf(times(c.x, a)) + IntOf(times(c.y, b))
  BY <1>4, <1>5, PlusIs DEF Combined
<1> QED BY <1>1, <1>2, <1>4, <1>5, <1>6 DEF Combines

-----------------------------------------------------------------------------
(* Digits.                                                                 *)

(* The remainder by a product, digit and rest.                             *)
LEMMA TwoRemainders ==
  ASSUME NEW g \in Nat, NEW p \in Nat \ {0}, NEW b \in Nat \ {0}
  PROVE  g % (b * p) = (g % p) + ((g \div p) % b) * p
<1>1. PICK q \in Nat, r \in 0..p - 1 : q = g \div p /\ r = g % p /\ g = q * p + r
  <2>1. g \div p \in Nat /\ g % p \in 0..p - 1 /\ g = p * (g \div p) + (g % p) BY DivMod
  <2>2. PICK q \in Nat, r \in 0..p - 1 : q = g \div p /\ r = g % p /\ g = p * q + r BY <2>1
  <2>3. p * q = q * p OBVIOUS
  <2> QED BY <2>2, <2>3
<1>2. PICK s \in Nat, t \in 0..b - 1 : t = q % b /\ q = s * b + t BY ModSplit
<1>3. q * p = s * (b * p) + t * p BY <1>2
<1>4. (t + 1) * p <= b * p
  <2>1. t + 1 \in Nat /\ t + 1 <= b OBVIOUS
  <2> QED BY <2>1, TimesMonotone
<1>5. (t + 1) * p = t * p + p /\ t * p \in Nat /\ b * p \in Nat OBVIOUS
<1>6. b * p \in Nat \ {0}
  <2>1. 1 * p <= b * p BY TimesMonotone
  <2> QED BY <1>5, <2>1
<1>7. PICK m \in Nat \ {0}, z \in Nat : m = b * p /\ z = r + t * p BY <1>5, <1>6
<1>8. z \in 0..m - 1 BY <1>4, <1>5, <1>7
<1>9. s * m + z = g BY <1>1, <1>3, <1>5, <1>7
<1>10. z = g % m BY <1>8, <1>9, EuclidOnce
<1> QED BY <1>1, <1>2, <1>7, <1>10

(* The digits of a word.                                                   *)
LEMMA DigitsOfWord ==
  ASSUME NEW w \in Nat, NEW n \in Nat, NEW g \in Nat, g < Pw(w, n),
         NEW d, \A j \in 1..n : d[j] = (g \div 2 ^ (w * (j - 1))) % 2 ^ w
  PROVE  W(d, n, w) = g /\ \A j \in 1..n : d[j] \in 0..2 ^ w - 1
<1>1. PICK b \in Nat \ {0} : b = 2 ^ w BY PowerPositive
<1>2. \A j \in 1..n : /\ d[j] = (g \div Pw(w, j - 1)) % b /\ d[j] \in 0..b - 1
  <2> TAKE j \in 1..n
  <2>1. j - 1 \in Nat OBVIOUS
  <2>2. PICK p \in Nat \ {0} : p = Pw(w, j - 1) BY <2>1, PwIs
  <2>3. d[j] = (g \div p) % b BY <1>1, <2>2 DEF Pw
  <2>4. g \div p \in Nat BY DivMod
  <2>5. (g \div p) % b \in 0..b - 1 BY <2>4, ModIs
  <2> QED BY <2>2, <2>3, <2>5
<1> DEFINE T == {k \in Nat : k <= n => W(d, k, w) = g % Pw(w, k)}
<1>3. 0 \in T
  <2>1. W(d, 0, w) = 0 /\ Pw(w, 0) = 1 BY WType, PwIs
  <2>2. g % 1 = 0
    <3>1. g = g * 1 OBVIOUS
    <3> QED BY <3>1, DividesIs
  <2> QED BY <2>1, <2>2
<1>4. ASSUME NEW k \in Nat, k \in T PROVE k + 1 \in T
  <2>1. SUFFICES ASSUME k + 1 <= n PROVE W(d, k + 1, w) = g % Pw(w, k + 1) OBVIOUS
  <2>2. k + 1 \in 1..n /\ (k + 1) - 1 = k /\ k <= n BY <2>1
  <2>3. PICK p \in Nat \ {0} : p = Pw(w, k) BY PwIs
  <2>4. Pw(w, k + 1) = b * p BY <1>1, <2>3, PwIs
  <2>5. d[k + 1] = (g \div p) % b /\ d[k + 1] \in Int BY <1>2, <2>2, <2>3
  <2>6. W(d, k + 1, w) = W(d, k, w) + d[k + 1] * p BY <2>3, <2>5, WNext
  <2>7. W(d, k, w) = g % p BY <1>4, <2>2, <2>3
  <2>8. g % (b * p) = (g % p) + ((g \div p) % b) * p BY TwoRemainders
  <2> QED BY <2>4, <2>5, <2>6, <2>7, <2>8
<1> HIDE DEF T
<1>5. n \in T BY <1>3, <1>4, NatSetInduction
<1>6. W(d, n, w) = g % Pw(w, n) BY <1>5 DEF T
<1>7. g % Pw(w, n) = g
  <2>1. PICK p \in Nat \ {0} : p = Pw(w, n) BY PwIs
  <2> QED BY <2>1, ModIs
<1> QED BY <1>1, <1>2, <1>6, <1>7

(* Words from their digits, n of w bits to a word.                         *)
Block(d, k, n) == [j \in 1..n |-> d[k * n + j]]
Blocks(d, r, N, n, w) ==
    \A k \in 0..N - 1 : /\ r[k + 1] \in Int /\ W(Block(d, k, n), n, w) = r[k + 1]
                        /\ \A j \in 1..n : d[k * n + j] \in Int
(* The digits of all the words make the number.                            *)
LEMMA BlocksAre ==
  ASSUME NEW w \in Nat, NEW n \in Nat, w * n = WordBits, NEW N \in Nat, NEW d, NEW r,
         Blocks(d, r, N, n, w)
  PROVE  W(d, N * n, w) = V(r, N)
<1> DEFINE T == {k \in Nat : k <= N => W(d, k * n, w) = V(r, k)}
<1>1. 0 \in T
  <2>1. 0 * n = 0 OBVIOUS
  <2> QED BY <2>1, WType, VType
<1>2. ASSUME NEW k \in Nat, k \in T PROVE k + 1 \in T
  <2>1. SUFFICES ASSUME k + 1 <= N PROVE W(d, (k + 1) * n, w) = V(r, k + 1) OBVIOUS
  <2>2. k \in 0..N - 1 /\ k <= N BY <2>1
  <2>3. r[k + 1] \in Int /\ W(Block(d, k, n), n, w) = r[k + 1] /\ \A j \in 1..n : d[k * n + j] \in Int
    BY <2>2 DEF Blocks
  <2>4. PICK l \in Nat : l = k * n OBVIOUS
  <2>5. (k + 1) * n = l + n BY <2>4
  <2>6. Follows(Block(d, k, n), d, l, n)
    <3>1. \A j \in 1..n : Block(d, k, n)[j] = d[l + j] BY <2>4 DEF Block
    <3> QED BY <2>3, <2>4, <3>1 DEF Follows
  <2>7. W(d, l + n, w) = W(d, l, w) + Pw(w, l) * r[k + 1] BY <2>3, <2>6, WSplit
  <2>8. Pw(w, l) = PB(k)
    <3>1. w * l = WordBits * k
      <4>1. w * (k * n) = (w * n) * k OBVIOUS
      <4> QED BY <2>4, <4>1
    <3> QED BY <3>1 DEF PB, Pw
  <2>9. V(r, k + 1) = V(r, k) + r[k + 1] * PB(k) BY <2>3, VNext
  <2>10. W(d, l, w) = V(r, k) BY <1>2, <2>2, <2>4
  <2>11. PB(k) * r[k + 1] = r[k + 1] * PB(k)
    <3>1. PB(k) \in Int BY PBIs
    <3> QED BY <2>3, <3>1
  <2> QED BY <2>5, <2>7, <2>8, <2>9, <2>10, <2>11
<1> HIDE DEF T
<1>3. N \in T BY <1>1, <1>2, NatSetInduction
<1> QED BY <1>3 DEF T

(* Digits gives proper digits that make the number.                        *)
LEMMA DigitsIs ==
  ASSUME NEW v \in Arrays, NEW w \in Nat, NEW n \in Nat \ {0}, w * n = WordBits,
         NEW d, d = Digits(v, w, n)
  PROVE  /\ d = [i \in 1..Len(v) * n |-> d[i]] /\ Len(d) = Len(v) * n /\ Len(v) * n \in Nat
         /\ \A i \in 1..Len(v) * n : d[i] \in 0..2 ^ w - 1 /\ d[i] \in Nat
         /\ W(d, Len(v) * n, w) = V(v, Len(v))
<1> DEFINE N == Len(v)
<1>1. N \in Nat /\ N * n \in Nat /\ \A i \in 1..N : v[i] \in 0..Base - 1 /\ v[i] \in Nat BY ArraysAre
<1>2. PICK b \in Nat \ {0} : b = 2 ^ w BY PowerPositive
<1>3. d = [i \in 1..N * n |-> (v[(i - 1) \div n + 1] \div 2 ^ (w * ((i - 1) % n))) % b]
  BY <1>2 DEF Digits
<1>4. d = [i \in 1..N * n |-> d[i]]
  <2> DEFINE e == [i \in 1..N * n |-> (v[(i - 1) \div n + 1] \div 2 ^ (w * ((i - 1) % n))) % b]
  <2>1. e = [i \in 1..N * n |-> e[i]] OBVIOUS
  <2> HIDE DEF e
  <2> QED BY <1>3, <2>1 DEF e
<1>5. \A i \in 1..N * n : d[i] = (v[(i - 1) \div n + 1] \div 2 ^ (w * ((i - 1) % n))) % b BY <1>3
<1> HIDE DEF N
<1>6. \A k \in 0..N - 1, j \in 1..n :
         /\ k * n + j \in 1..N * n
         /\ d[k * n + j] = (v[k + 1] \div 2 ^ (w * (j - 1))) % b
  <2> TAKE k \in 0..N - 1, j \in 1..n
  <2>1. PICK l \in Nat : l = k * n BY <1>1
  <2>2. (k + 1) * n <= N * n /\ (k + 1) * n = l + n
    <3>1. k + 1 \in Nat /\ k + 1 <= N BY <1>1
    <3> QED BY <1>1, <2>1, <3>1, TimesMonotone
  <2>3. l + j \in 1..N * n BY <1>1, <2>1, <2>2
  <2>4. PICK i \in Nat : i = l + (j - 1) /\ (l + j) - 1 = i BY <2>1
  <2>5. k = i \div n /\ j - 1 = i % n
    <3>1. j - 1 \in 0..n - 1 /\ k \in Nat /\ k * n + (j - 1) = i BY <2>1, <2>4
    <3>2. PICK h \in 0..n - 1 : h = j - 1 BY <3>1
    <3>3. k * n + h = i BY <3>1, <3>2
    <3>4. k = i \div n /\ h = i % n BY <3>1, <3>3, EuclidOnce
    <3> QED BY <3>2, <3>4
  <2>6. d[l + j] = (v[i \div n + 1] \div 2 ^ (w * (i % n))) % b BY <1>5, <2>3, <2>4
  <2> QED BY <2>1, <2>3, <2>5, <2>6
<1>7. \A k \in 0..N - 1 : /\ W(Block(d, k, n), n, w) = v[k + 1]
                          /\ \A j \in 1..n : d[k * n + j] \in 0..b - 1
  <2> TAKE k \in 0..N - 1
  <2>1. k + 1 \in 1..N BY <1>1
  <2>2. PICK g \in Nat : g = v[k + 1] /\ g < Base BY <1>1, <2>1, BaseIs
  <2>3. g < Pw(w, n) BY <2>2 DEF Pw, Base
  <2>4. \A j \in 1..n : Block(d, k, n)[j] = (g \div 2 ^ (w * (j - 1))) % 2 ^ w
    BY <1>2, <1>6, <2>2 DEF Block
  <2>5. W(Block(d, k, n), n, w) = g /\ \A j \in 1..n : Block(d, k, n)[j] \in 0..2 ^ w - 1
    BY <2>3, <2>4, DigitsOfWord
  <2> QED BY <1>2, <2>2, <2>5 DEF Block
<1>8. Blocks(d, v, N, n, w)
  <2>1. \A k \in 0..N - 1 : k + 1 \in 1..N BY <1>1
  <2>2. \A k \in 0..N - 1 : v[k + 1] \in Int BY <1>1, <2>1
  <2> QED BY <1>7, <2>2 DEF Blocks
<1>9. W(d, N * n, w) = V(v, N) BY <1>1, <1>8, BlocksAre
<1>10. \A i \in 1..N * n : d[i] \in 0..b - 1 /\ d[i] \in Nat
  <2> TAKE i \in 1..N * n
  <2>1. PICK h \in Nat : h = i - 1 BY <1>1
  <2>2. PICK q \in Nat, r \in 0..n - 1 : h = q * n + r
    <3>1. \E q \in Nat, r \in 0..n - 1 : r = h % n /\ h = q * n + r BY ModSplit
    <3> QED BY <3>1
  <2>3. q \in 0..N - 1
    <3>1. SUFFICES ASSUME N <= q PROVE FALSE BY <1>1
    <3>2. N * n <= q * n BY <1>1, <3>1, TimesMonotone
    <3> QED BY <1>1, <2>1, <2>2, <3>2
  <2>4. r + 1 \in 1..n /\ i = q * n + (r + 1)
    <3>1. q * n \in Nat OBVIOUS
    <3> QED BY <1>1, <2>1, <2>2, <3>1
  <2>5. d[q * n + (r + 1)] \in 0..b - 1 BY <1>7, <2>3, <2>4
  <2>6. d[i] \in 0..b - 1 BY <2>4, <2>5
  <2> QED BY <2>6
<1>11. Len(d) = N * n
  <2>1. d \in [1..N * n -> 0..b - 1] BY <1>4, <1>10
  <2>2. d \in Seq(0..b - 1) BY <1>1, <2>1
  <2> QED BY <1>1, <2>1, <2>2
<1> QED BY <1>1, <1>2, <1>4, <1>9, <1>10, <1>11 DEF N
(* A number taken together from its highest digit.                         *)
FromHighest(top, d, N, w) ==
    /\ top[0] = 0
    /\ \A i \in 1..N : top[i] = top[i - 1] * 2 ^ w + d[N + 1 - i]

(* From the highest digit, doubled up, or from the lowest, by weights.     *)
LEMMA FromHighestIs ==
  ASSUME NEW w \in Nat, NEW N \in Nat, NEW d, \A i \in 1..N : d[i] \in Nat,
         NEW top, FromHighest(top, d, N, w)
  PROVE  top[N] = W(d, N, w) /\ \A i \in 0..N : top[i] \in Nat
<1>1. PICK b \in Nat : b = 2 ^ w BY PowerPositive
<1> DEFINE T == {i \in Nat : i <= N => /\ top[i] \in Nat
                                       /\ top[i] * Pw(w, N - i) + W(d, N - i, w) = W(d, N, w)}
<1>2. 0 \in T
  <2>1. top[0] = 0 BY DEF FromHighest
  <2>2. Pw(w, N) \in Nat /\ W(d, N, w) \in Int BY PwIs, WType
  <2>3. 0 * Pw(w, N) + W(d, N, w) = W(d, N, w) BY <2>2
  <2>4. N - 0 = N OBVIOUS
  <2> QED BY <2>1, <2>3, <2>4
<1>3. ASSUME NEW i \in Nat, i \in T PROVE i + 1 \in T
  <2>1. SUFFICES ASSUME i + 1 <= N
                 PROVE  /\ top[i + 1] \in Nat
                        /\ top[i + 1] * Pw(w, N - (i + 1)) + W(d, N - (i + 1), w) = W(d, N, w)
    OBVIOUS
  <2>2. PICK k \in Nat : k = N - (i + 1) BY <2>1
  <2>3. N - i = k + 1 /\ N + 1 - (i + 1) = k + 1 /\ i + 1 \in 1..N /\ (i + 1) - 1 = i /\ k + 1 \in 1..N
        /\ i <= N
    BY <2>1, <2>2
  <2>4. PICK t \in Nat : t = top[i] BY <1>3, <2>3
  <2>5. PICK g \in Nat : g = d[k + 1] BY <2>3
  <2>6. top[i + 1] = t * b + g BY <1>1, <2>3, <2>4, <2>5 DEF FromHighest
  <2>7a. PICK p \in Nat : p = Pw(w, k) BY PwIs
  <2>7. Pw(w, k + 1) = b * p BY <1>1, <2>7a, PwIs
  <2>8. PICK u \in Int : u = W(d, k, w) BY WType
  <2>9. W(d, k + 1, w) = u + g * p BY <2>5, <2>7a, <2>8, WNext
  <2>10. t * (b * p) + (u + g * p) = W(d, N, w) BY <1>3, <2>3, <2>4, <2>7, <2>9, <2>7a
  <2>11. (t * b + g) * p + u = t * (b * p) + (u + g * p) OBVIOUS
  <2>12. t * b + g \in Nat OBVIOUS
  <2> QED BY <2>2, <2>6, <2>7a, <2>8, <2>10, <2>11, <2>12
<1> HIDE DEF T
<1>4. \A i \in Nat : i \in T BY <1>2, <1>3, NatSetInduction
<1>5. \A i \in 0..N : top[i] \in Nat BY <1>4 DEF T
<1>6. top[N] * Pw(w, 0) + W(d, 0, w) = W(d, N, w)
  <2>1. N - N = 0 OBVIOUS
  <2> QED BY <1>4, <2>1 DEF T
<1>7. top[N] \in Nat /\ Pw(w, 0) = 1 /\ W(d, 0, w) = 0
  <2>1. N \in 0..N OBVIOUS
  <2> QED BY <1>5, <2>1, PwIs, WType
<1> QED BY <1>5, <1>6, <1>7

(* There is such a reading.                                                *)
LEMMA HasHighest ==
  ASSUME NEW w \in Nat, NEW N \in Nat, NEW d, \A i \in 1..N : d[i] \in Nat
  PROVE  \E top \in [0..N -> Nat] : FromHighest(top, d, N, w)
<1>1. PICK b \in Nat : b = 2 ^ w BY PowerPositive
<1> DEFINE F == [q \in (1..N) \X Nat |-> q[2] * b + d[N + 1 - q[1]]]
<1>2. \A i \in 1..N, e \in Nat : F[<<i, e>>] \in Nat /\ F[<<i, e>>] = e * b + d[N + 1 - i]
  <2> TAKE i \in 1..N, e \in Nat
  <2>1. N + 1 - i \in 1..N OBVIOUS
  <2>2. <<i, e>> \in (1..N) \X Nat OBVIOUS
  <2>3. F[<<i, e>>] = e * b + d[N + 1 - i] BY <2>2
  <2>4. PICK g \in Nat : g = d[N + 1 - i] BY <2>1
  <2>5. e * b + g \in Nat OBVIOUS
  <2> QED BY <2>3, <2>4, <2>5
<1> HIDE DEF F
<1>3. PICK top \in [0..N -> Nat] : Recursive(top, 0..N, 0, F) BY <1>2, Recursion
<1>4. top[0] = 0 BY <1>3 DEF Recursive
<1>5. \A i \in 1..N : top[i] = top[i - 1] * b + d[N + 1 - i]
  <2> TAKE i \in 1..N
  <2>1. i \in 0..N /\ i # 0 /\ i - 1 \in 0..N OBVIOUS
  <2>2. top[i] = F[<<i, top[i - 1]>>] BY <1>3, <2>1 DEF Recursive
  <2>3. top[i - 1] \in Nat BY <2>1
  <2> QED BY <1>2, <2>2, <2>3
<1> QED BY <1>1, <1>4, <1>5 DEF FromHighest

-----------------------------------------------------------------------------
(* Bytes.                                                                  *)

(* cleanup cuts what is 0 above the last word, or byte, that is not 0.     *)
LEMMA CleanupCuts ==
  ASSUME NEW v \in Arrays
  PROVE  \E k \in 0..Len(v) :
            /\ Len(cleanup(v)) = k /\ \A i \in 1..k : cleanup(v)[i] = v[i]
            /\ \A i \in k + 1..Len(v) : v[i] = 0
<1> DEFINE n == Len(v)
           S == {0} \cup {i \in DOMAIN v : v[i] # 0}
           k == Max(S)
           c == SubSeq(v, 1, k)
<1>1. /\ v \in Seq(Int) /\ n \in Nat /\ DOMAIN v = 1..n /\ v = [i \in 1..n |-> v[i]]
      /\ \A i \in 1..n : v[i] \in 0..Base - 1 /\ v[i] \in Int
  BY ArraysAre
<1> HIDE DEF n
<1>2. S \in SUBSET (0..n) /\ S # {} BY <1>1
<1>3. k \in S /\ \A s \in S : s <= k
  <2> HIDE DEF S
  <2> QED BY <1>1, <1>2, HasGreatest
<1>4. k \in 0..n /\ k \in Nat /\ k <= n BY <1>1, <1>2, <1>3
<1>5. \A i \in k + 1..n : v[i] = 0
  <2> TAKE i \in k + 1..n
  <2>1. i \in 1..n /\ ~(i <= k) BY <1>1, <1>4
  <2> QED BY <1>1, <1>3, <2>1
<1>6. cleanup(v) = c BY DEF cleanup
<1> HIDE DEF S, k
<1>7. Len(c) = k /\ \A i \in 1..k : c[i] = v[i]
  <2>1. \A i \in 1..k : i \in 1..n BY <1>1, <1>4
  <2>2. c = [i \in 1..k |-> v[i]] /\ Len(c) = k BY <1>1, <1>4, SubSeqProperties
  <2> HIDE DEF c
  <2> QED BY <2>1, <2>2
<1> HIDE DEF c
<1> QED BY <1>4, <1>5, <1>6, <1>7 DEF n

ByteBits == WordBits \div WordBytes

(* Bytes are digits of words.                                              *)
LEMMA ByteIs ==
  /\ ByteBits \in Nat \ {0} /\ WordBytes \in Nat \ {0} /\ ByteBits * WordBytes = WordBits
  /\ ByteBase = 2 ^ ByteBits /\ ByteBase \in Nat \ {0} /\ ByteBase <= Base
<1>1. WordBits \in Nat \ {0} /\ WordBytes \in Nat \ {0} /\ WordBits % WordBytes = 0 BY WordAssumption
<1>2. ByteBits \in Nat /\ WordBits = WordBytes * ByteBits + (WordBits % WordBytes)
  BY <1>1, DivMod DEF ByteBits
<1>3. ByteBits \in Nat /\ WordBits = WordBytes * ByteBits BY <1>1, <1>2
<1>4. ByteBits # 0 BY <1>1, <1>3
<1>5. ByteBits * WordBytes = WordBits BY <1>1, <1>3
<1>6. ByteBits <= WordBits
  <2>1. 1 * ByteBits <= WordBytes * ByteBits BY <1>1, <1>3, TimesMonotone
  <2> QED BY <1>3, <2>1
<1>7. 2 ^ ByteBits <= 2 ^ WordBits BY <1>1, <1>3, <1>6, PowerGrows
<1>8. ByteBase = 2 ^ ByteBits BY DEF ByteBase, ByteBits
<1>9. 2 ^ ByteBits \in Nat \ {0} BY <1>3, PowerPositive
<1> QED BY <1>1, <1>3, <1>4, <1>5, <1>7, <1>8, <1>9 DEF Base

(* The bytes of a number, without the zeros above them.                    *)
LEMMA BytesOfIs ==
  ASSUME NEW v \in Numbers, NEW c, c = u32to8(v)
  PROVE  /\ c \in Numbers /\ W(c, Len(c), ByteBits) = Value(v)
         /\ \A i \in 1..Len(c) : c[i] \in 0..ByteBase - 1
<1> DEFINE d == Digits(v, ByteBits, WordBytes)
<1>1. /\ ByteBits \in Nat \ {0} /\ WordBytes \in Nat \ {0} /\ ByteBits * WordBytes = WordBits
      /\ ByteBase = 2 ^ ByteBits /\ ByteBase \in Nat \ {0} /\ ByteBase <= Base
  BY ByteIs
<1>2. c = cleanup(d) BY DEF u32to8, ByteBits
<1>3. v \in Arrays /\ Value(v) = V(v, Len(v)) BY NumbersAre
<1> HIDE DEF d
<1>4. PICK N \in Nat : N = Len(v) * WordBytes
  <2>1. Len(v) \in Nat BY NumbersAre
  <2> QED BY <1>1, <2>1
<1>5. /\ d = [i \in 1..N |-> d[i]] /\ Len(d) = N
      /\ \A i \in 1..N : d[i] \in 0..ByteBase - 1 /\ d[i] \in Nat
      /\ W(d, N, ByteBits) = V(v, Len(v))
  BY <1>1, <1>3, <1>4, DigitsIs DEF d
<1>6. \A i \in 1..N : d[i] \in 0..Base - 1
  <2>1. Base \in Nat BY BaseIs
  <2> QED BY <1>1, <1>5, <2>1
<1>7. d \in Arrays BY <1>5, <1>6, ArrayMade
<1>8. PICK k \in 0..N : /\ Len(c) = k /\ \A i \in 1..k : c[i] = d[i]
                        /\ \A i \in k + 1..N : d[i] = 0
  <2>1. \E k \in 0..Len(d) : /\ Len(cleanup(d)) = k /\ \A i \in 1..k : cleanup(d)[i] = d[i]
                             /\ \A i \in k + 1..Len(d) : d[i] = 0
    BY <1>7, CleanupCuts
  <2>2. Len(d) = N BY <1>5
  <2> QED BY <1>2, <2>1, <2>2
<1>9. c \in Numbers BY <1>2, <1>7, CleanupIs
<1>10. \A i \in 1..k : c[i] = d[i] /\ i \in 1..N BY <1>4, <1>8
<1>11. W(c, k, ByteBits) = W(d, k, ByteBits)
  <2>1. \A i \in 1..k : c[i] = d[i] /\ c[i] \in Int BY <1>5, <1>10
  <2>2. k \in Nat BY <1>8
  <2>3. ByteBits \in Nat BY <1>1
  <2> QED BY ONLY <2>1, <2>2, <2>3, WExt
<1>12. W(d, N, ByteBits) = W(d, k, ByteBits)
  <2>1. k \in Nat /\ k <= N BY <1>8
  <2> QED BY <1>1, <1>4, <1>8, <2>1, WZeros
<1> QED BY <1>3, <1>5, <1>8, <1>9, <1>10, <1>11, <1>12

(* One word from its bytes.                                                *)
LEMMA WordOfBytesIs ==
  ASSUME NEW bytes, NEW top, NEW d, \A j \in 1..WordBytes : d[j] \in Nat,
         \A j \in 1..WordBytes : Word(bytes, top + 1 - j) = d[WordBytes + 1 - j]
  PROVE  WordOfBytes(bytes, top) = W(d, WordBytes, ByteBits)
<1> DEFINE n == WordBytes
           Is(f) == f = [k \in 0..WordBytes |->
                           IF k = 0 THEN 0 ELSE f[k - 1] * ByteBase + Word(bytes, top + 1 - k)]
           word == CHOOSE f : Is(f)
<1>1. n \in Nat /\ ByteBits \in Nat /\ ByteBase = 2 ^ ByteBits BY ByteIs
<1>2. PICK f \in [0..n -> Nat] : FromHighest(f, d, n, ByteBits) BY <1>1, HasHighest
<1>3. Is(f)
  <2>1. \A k \in 0..n : f[k] = IF k = 0 THEN 0 ELSE f[k - 1] * ByteBase + Word(bytes, top + 1 - k)
    <3> TAKE k \in 0..n
    <3>1. CASE k = 0 BY <1>2, <3>1 DEF FromHighest
    <3>2. CASE k # 0
      <4>1. k \in 1..n BY <1>1, <3>2
      <4> QED BY <1>1, <1>2, <3>2, <4>1 DEF FromHighest
    <3> QED BY <3>1, <3>2
  <2>2. f = [k \in 0..n |-> f[k]] BY <1>2
  <2> QED BY <2>1, <2>2
<1>4. Is(word) BY <1>3
<1>5. WordOfBytes(bytes, top) = word[n] BY Zenon DEF WordOfBytes
<1> HIDE DEF word
<1>6. FromHighest(word, d, n, ByteBits)
  <2>1. word[0] = 0 BY <1>1, <1>4
  <2>2. \A k \in 1..n : word[k] = word[k - 1] * 2 ^ ByteBits + d[n + 1 - k]
    <3> TAKE k \in 1..n
    <3>1. k \in 0..n /\ k # 0 BY <1>1
    <3>2. word[k] = word[k - 1] * ByteBase + Word(bytes, top + 1 - k) BY <1>4, <3>1
    <3> QED BY <1>1, <3>2
  <2> QED BY <2>1, <2>2 DEF FromHighest
<1> QED BY <1>1, <1>5, <1>6, FromHighestIs

(* The words from all the bytes: a number when the last byte is not 0.     *)
LEMMA FromBytesIs ==
  ASSUME NEW c \in Numbers, \A i \in 1..Len(c) : c[i] \in 0..ByteBase - 1,
         NEW r, r = u8to32(c)
  PROVE  r \in Numbers /\ Value(r) = W(c, Len(c), ByteBits)
<1> DEFINE L == Len(c)
           n == WordBytes
           w == ByteBits
           M == (L + n - 1) \div n
           e == [i \in 1..M * n |-> Word(c, i)]
<1>1. w \in Nat \ {0} /\ n \in Nat \ {0} /\ w * n = WordBits /\ ByteBase = 2 ^ w /\ ByteBase \in Nat \ {0}
  BY ByteIs
<1>2. c \in Arrays /\ L \in Nat /\ DOMAIN c = 1..L BY NumbersAre, ArraysAre
<1>3. L + n - 1 \in Nat BY <1>1, <1>2
<1>4. M \in Nat /\ L <= M * n /\ M * n < L + n /\ M * n \in Nat
  <2>1. PICK g \in Nat : g = L + n - 1 BY <1>3
  <2> HIDE DEF n
  <2>2. g \div n \in Nat /\ g % n \in 0..n - 1 /\ g = n * (g \div n) + (g % n) BY <1>1, DivMod
  <2>3. PICK q \in Nat, h \in 0..n - 1 : q = g \div n /\ g = n * q + h BY <2>2
  <2>4. n * q = q * n /\ q * n \in Nat BY <1>1
  <2>5. M = q BY <2>1, <2>3
  <2> QED BY <1>1, <1>2, <2>1, <2>3, <2>4, <2>5
<1>5. r = [i \in 1..M |-> WordOfBytes(c, i * n)] BY DEF u8to32
<1> HIDE DEF L, n, w, M, e
<1>6. \A i \in 1..M * n : /\ e[i] \in 0..ByteBase - 1 /\ e[i] \in Nat /\ e[i] = Word(c, i)
                          /\ (i <= L => e[i] = c[i]) /\ (i > L => e[i] = 0)
  <2> TAKE i \in 1..M * n
  <2>1. e[i] = Word(c, i) BY DEF e
  <2>2. CASE i <= L
    <3>1. i \in 1..L BY <1>2, <1>4, <2>2
    <3>2. Word(c, i) = c[i] BY <1>2, <3>1 DEF Word
    <3> QED BY <1>1, <1>2, <1>4, <2>1, <2>2, <3>1, <3>2 DEF L
  <2>3. CASE i > L
    <3>1. i \notin DOMAIN c BY <1>2, <1>4, <2>3
    <3>2. Word(c, i) = 0 BY <3>1 DEF Word
    <3> QED BY <1>1, <1>2, <1>4, <2>1, <2>3, <3>2
  <2> QED BY <1>2, <1>4, <2>2, <2>3
<1>7. \A k \in 0..M - 1, j \in 1..n : k * n + j \in 1..M * n
  <2> TAKE k \in 0..M - 1, j \in 1..n
  <2>1. k + 1 \in Nat /\ k + 1 <= M BY <1>4
  <2>2. (k + 1) * n <= M * n BY <1>1, <1>4, <2>1, TimesMonotone
  <2>3. (k + 1) * n = k * n + n /\ k * n \in Nat BY <1>1
  <2> QED BY <1>1, <1>4, <2>2, <2>3
<1>8. \A k \in 0..M - 1 : /\ r[k + 1] = W(Block(e, k, n), n, w) /\ r[k + 1] \in 0..Base - 1
                          /\ \A j \in 1..n : e[k * n + j] \in Int
  <2> TAKE k \in 0..M - 1
  <2>1. k + 1 \in 1..M BY <1>4
  <2>2. r[k + 1] = WordOfBytes(c, (k + 1) * n) BY <1>5, <2>1
  <2>3. PICK l \in Nat : l = k * n /\ (k + 1) * n = l + n BY <1>1
  <2> DEFINE d == Block(e, k, n)
  <2>4. \A j \in 1..n : /\ d[j] = e[l + j] /\ l + j \in 1..M * n
                        /\ d[j] \in 0..ByteBase - 1 /\ d[j] \in Nat
    <3>1. \A j \in 1..n : d[j] = e[l + j] BY <2>3 DEF Block
    <3>2. \A j \in 1..n : l + j \in 1..M * n BY <1>7, <2>3
    <3> QED BY <1>6, <3>1, <3>2
  <2> HIDE DEF d
  <2>5. \A j \in 1..n : Word(c, l + n + 1 - j) = d[n + 1 - j]
    <3> TAKE j \in 1..n
    <3>1. n + 1 - j \in 1..n /\ l + (n + 1 - j) = l + n + 1 - j BY <1>1, <2>3
    <3> QED BY <1>6, <2>4, <3>1
  <2>6. WordOfBytes(c, l + n) = W(d, n, w)
    <3>1. \A j \in 1..WordBytes : d[j] \in Nat BY <2>4 DEF n
    <3>2. \A j \in 1..WordBytes : Word(c, (l + n) + 1 - j) = d[WordBytes + 1 - j] BY <2>5 DEF n
    <3> QED BY <3>1, <3>2, WordOfBytesIs DEF n, w
  <2>7. W(d, n, w) \in 0..Pw(w, n) - 1
    <3>1. \A j \in 1..n : d[j] \in 0..2 ^ w - 1 BY <1>1, <2>4
    <3>2. w \in Nat /\ n \in Nat BY <1>1
    <3> QED BY <3>1, <3>2, WBound
  <2>8. Pw(w, n) = Base BY <1>1 DEF Pw, Base
  <2>9. \A j \in 1..n : e[k * n + j] \in Int BY <1>6, <1>7
  <2> QED BY <2>2, <2>3, <2>6, <2>7, <2>8, <2>9 DEF d
<1>9. r \in Arrays /\ Len(r) = M
  <2>1. r = [i \in 1..M |-> r[i]]
    <3>1. DOMAIN r = 1..M BY <1>5
    <3>2. \A i \in 1..M : r[i] = WordOfBytes(c, i * n) BY <1>5
    <3> QED BY <1>5, <3>2
  <2>2. \A i \in 1..M : r[i] \in 0..Base - 1
    <3> TAKE i \in 1..M
    <3>1. i - 1 \in 0..M - 1 /\ (i - 1) + 1 = i BY <1>4
    <3> QED BY <1>8, <3>1
  <2> QED BY <1>4, <2>1, <2>2, ArrayMade
<1>10. V(r, M) = W(e, M * n, w)
  <2>1. Blocks(e, r, M, n, w)
    <3>1. Base \in Nat BY BaseIs
    <3>2. \A k \in 0..M - 1 : r[k + 1] \in Int BY <1>8, <3>1
    <3> QED BY <1>8, <3>2 DEF Blocks
  <2> QED BY <1>1, <1>4, <2>1, BlocksAre
<1>11. W(e, M * n, w) = W(c, L, w)
  <2>1. PICK m \in Nat : m = M * n /\ L <= m BY <1>4
  <2>2. \A i \in L + 1..m : e[i] = 0
    <3> TAKE i \in L + 1..m
    <3>1. i \in 1..m /\ i > L BY <1>2, <2>1
    <3> QED BY <1>6, <2>1, <3>1
  <2>3. W(e, m, w) = W(e, L, w) BY <1>1, <1>2, <2>1, <2>2, WZeros
  <2>4. \A i \in 1..L : e[i] = c[i] /\ e[i] \in Int
    <3> TAKE i \in 1..L
    <3>1. i \in 1..m /\ i <= L BY <1>2, <2>1
    <3> QED BY <1>6, <2>1, <3>1
  <2>5. W(e, L, w) = W(c, L, w) BY <1>1, <1>2, <2>4, WExt
  <2> QED BY <2>1, <2>3, <2>5
<1>12. r \in Numbers
  <2>1. CASE M = 0
    <3>1. r = <<>> BY <1>9, <2>1 DEF Arrays
    <3> QED BY <3>1, EmptyIs
  <2>2. CASE M # 0
    <3>1. SUFFICES ASSUME r[M] = 0 PROVE FALSE BY <1>9, NumberMade
    <3>2. PICK k \in Nat : k + 1 = M /\ k \in 0..M - 1 BY <1>4, <2>2
    <3>3. PICK l \in Nat : l = k * n /\ M * n = l + n BY <1>1, <3>2
    <3>4. PICK h \in Nat : h + 1 = L /\ l <= h
      <4>1. l < L BY <1>1, <1>2, <1>4, <3>3
      <4> QED BY <1>2, <3>3, <4>1
    <3>5. V(r, M) = V(r, k)
      <4>1. \A i \in k + 1..M : r[i] = 0 BY <3>1, <3>2
      <4> QED BY <1>4, <3>2, <4>1, VZeros
    <3>6. V(r, k) < PB(k)
      <4>1. \A i \in 1..k : r[i] \in 0..Base - 1
        <5> TAKE i \in 1..k
        <5>1. i - 1 \in 0..M - 1 /\ (i - 1) + 1 = i BY <1>4, <3>2
        <5> QED BY <1>8, <5>1
      <4>2. V(r, k) \in 0..PB(k) - 1 BY <4>1, VBound
      <4>3. PB(k) \in Nat BY PBIs
      <4> QED BY <4>2, <4>3
    <3>7. PB(k) = Pw(w, l)
      <4>1. w * l = WordBits * k
        <5>1. w * (k * n) = (w * n) * k BY <1>1
        <5> QED BY <1>1, <3>3, <5>1
      <4> QED BY <4>1 DEF PB, Pw
    <3>8. Pw(w, l) <= Pw(w, h) BY <1>1, <3>3, <3>4, PwGrows
    <3>9. Pw(w, h) <= W(c, L, w)
      <4>1. PICK g \in Nat : g = c[L] /\ g # 0
        <5>1. L \in 1..L /\ c # <<>> BY <3>4, EmptyIs DEF L
        <5>2. c[L] # 0 BY <5>1 DEF Numbers, L
        <5>3. c[L] \in Nat BY <1>1, <5>1 DEF L
        <5> QED BY <5>2, <5>3
      <4>2. PICK p \in Nat : p = Pw(w, h) BY <1>1, PwIs
      <4>3. W(c, L, w) = W(c, h, w) + g * p
        <5>1. c[L] \in Int /\ L = h + 1 BY <3>4, <4>1
        <5> QED BY <1>1, <4>1, <4>2, <5>1, WNext
      <4>4. W(c, h, w) \in 0..p - 1
        <5>1. \A i \in 1..h : c[i] \in 0..2 ^ w - 1
          <6>1. \A i \in 1..h : i \in 1..L BY <3>4
          <6> QED BY <1>1, <6>1 DEF L
        <5> QED BY <1>1, <4>2, <5>1, WBound
      <4>5. 1 * p <= g * p BY <4>1, TimesMonotone
      <4>6. g * p \in Nat OBVIOUS
      <4> QED BY <4>2, <4>3, <4>4, <4>5, <4>6
    <3>10. PB(k) \in Nat /\ Pw(w, h) \in Nat /\ W(c, L, w) \in Int BY <1>1, <1>2, PBIs, PwIs, WType
    <3>11. V(r, k) = W(c, L, w) BY <1>10, <1>11, <3>5
    <3> QED BY <3>6, <3>7, <3>8, <3>9, <3>10, <3>11
  <2> QED BY <2>1, <2>2
<1> QED BY <1>9, <1>10, <1>11, <1>12, NumbersAre DEF L, w

(* getBytes, and the constructor from bytes after it, give the absolute    *)
(* value back.                                                             *)
THEOREM RebyteIs ==
  ASSUME NEW a \in Signeds
  PROVE  /\ FromBytes(getBytes(a)) \in Signeds
         /\ IntOf(FromBytes(getBytes(a))) = Magnitude(IntOf(a))
<1>1. PICK v \in Numbers : v = a.array BY SignedIs
<1>2. PICK c : c = u32to8(v) OBVIOUS
<1>3. /\ c \in Numbers /\ W(c, Len(c), ByteBits) = Value(v)
      /\ \A i \in 1..Len(c) : c[i] \in 0..ByteBase - 1
  BY <1>2, BytesOfIs
<1>4. cleanup(c) = c
  <2>1. c \in Arrays BY <1>3, NumbersAre
  <2> QED BY <1>3, <2>1, CleanupIs
<1>5. u8to32(c) \in Numbers /\ Value(u8to32(c)) = Value(v) BY <1>3, FromBytesIs
<1>6. FromBytes(getBytes(a)) = [neg |-> FALSE, array |-> u8to32(c)]
  BY <1>1, <1>2, <1>4 DEF FromBytes, getBytes
<1>7. Value(v) \in Nat /\ Magnitude(IntOf(a)) = Value(v) BY <1>1, NumbersAre, SignedIs
<1> QED BY <1>5, <1>6, <1>7, MadeIs

-----------------------------------------------------------------------------
(* Printing and reading.                                                   *)

(* A number of one word.                                                   *)
LEMMA OneWord ==
  ASSUME NEW w \in 0..Base - 1, w # 0
  PROVE  <<w>> \in Numbers /\ <<w>> # <<>> /\ Value(<<w>>) = w
<1> DEFINE v == <<w>>
<1>1. Len(v) = 1 /\ v[1] = w /\ v = [i \in 1..1 |-> v[i]] OBVIOUS
<1> HIDE DEF v
<1>2. \A i \in 1..1 : v[i] \in 0..Base - 1 BY <1>1
<1>3. v \in Arrays BY <1>1, <1>2, ArrayMade
<1>4. v \in Numbers BY <1>1, <1>3, NumberMade
<1>5. Value(v) = V(v, 1) BY <1>1, <1>4, NumbersAre
<1>6. v[1] \in Int /\ 1 = 0 + 1 BY <1>1, BaseIs
<1>7. V(v, 1) = V(v, 0) + v[1] * PB(0) BY <1>6, VNext
<1>8. V(v, 0) = 0 /\ PB(0) = 1 BY VType, PBIs
<1>9. Value(v) = w BY <1>1, <1>5, <1>6, <1>7, <1>8
<1>10. v # <<>> BY <1>1, EmptyIs
<1> QED BY <1>4, <1>9, <1>10 DEF v

(* The only word of a number below the base.                               *)
LEMMA OnlyWord ==
  ASSUME NEW v \in Numbers, Value(v) < Base
  PROVE  Value(v) = IF v = <<>> THEN 0 ELSE v[1]
<1>1. CASE v = <<>> BY <1>1, EmptyIs
<1>2. CASE v # <<>>
  <2>1. PICK w \in 0..Base - 1 : w = Value(v) BY NumbersAre, BaseIs
  <2>2. w # 0 BY <1>2, <2>1, Bounds
  <2>3. <<w>> \in Numbers /\ Value(<<w>>) = w BY <2>2, OneWord
  <2>4. v = <<w>> BY <2>1, <2>3, IsLessIs
  <2>5. <<w>>[1] = w OBVIOUS
  <2> QED BY <1>2, <2>1, <2>4, <2>5
<1> QED BY <1>1, <1>2

(* Two divisions are one by the product.                                   *)
LEMMA DivTwice ==
  ASSUME NEW g \in Nat, NEW b \in Nat \ {0}, NEW p \in Nat \ {0}
  PROVE  (g \div b) \div p = g \div (b * p)
<1>1. PICK q \in Nat, r \in 0..b - 1 : q = g \div b /\ g = b * q + r BY DivMod
<1>2. PICK s \in Nat, t \in 0..p - 1 : s = q \div p /\ q = p * s + t BY DivMod
<1>3. b * q = s * (b * p) + b * t
  <2>1. b * (p * s + t) = s * (b * p) + b * t OBVIOUS
  <2> QED BY <1>2, <2>1
<1>4. (t + 1) * b <= p * b
  <2>1. t + 1 \in Nat /\ t + 1 <= p OBVIOUS
  <2> QED BY <2>1, TimesMonotone
<1>5. (t + 1) * b = b * t + b /\ b * t \in Nat /\ b * p \in Nat /\ p * b = b * p OBVIOUS
<1>6. b * p \in Nat \ {0}
  <2>1. 1 * b <= p * b BY TimesMonotone
  <2> QED BY <1>5, <2>1
<1>7. PICK m \in Nat \ {0}, z \in Nat : m = b * p /\ z = b * t + r BY <1>5, <1>6
<1>8. z \in 0..m - 1 BY <1>4, <1>5, <1>7
<1>9. s * m + z = g BY <1>1, <1>3, <1>5, <1>7
<1>10. s = g \div m BY <1>8, <1>9, EuclidOnce
<1> QED BY <1>1, <1>2, <1>7, <1>10

(* Powers of positive numbers.                                             *)
LEMMA PowPositive ==
  ASSUME NEW b \in Nat \ {0}, NEW n \in Nat
  PROVE  Pow(b, n) \in Nat \ {0}
<1> DEFINE T == {k \in Nat : Pow(b, k) \in Nat \ {0}}
<1>1. 0 \in T
  <2>1. Pow(b, 0) = 1 BY PowIs
  <2> QED BY <2>1
<1>2. ASSUME NEW k \in Nat, k \in T PROVE k + 1 \in T
  <2>1. PICK p \in Nat \ {0} : p = Pow(b, k) BY <1>2
  <2>2. Pow(b, k + 1) = b * p BY <2>1, PowIs
  <2>3. 1 * p <= b * p /\ b * p \in Nat BY TimesMonotone
  <2> QED BY <2>2, <2>3
<1> HIDE DEF T
<1>3. n \in T BY <1>1, <1>2, NatSetInduction
<1> QED BY <1>3 DEF T

(* The digits of g, the highest first: what is printed of it.              *)
Prints(s, g, b) ==
    /\ s \in Seq(0..b - 1) /\ g < Pow(b, Len(s))
    /\ \A i \in 1..Len(s) : s[Len(s) + 1 - i] = (g \div Pow(b, i - 1)) % b

(* One more digit is printed.                                              *)
LEMMA PrintsMore ==
  ASSUME NEW b \in Nat \ {0}, NEW g \in Nat, NEW s, Prints(s, g \div b, b)
  PROVE  Prints(Append(s, g % b), g, b)
<1> DEFINE t == Append(s, g % b)
<1>1. g \div b \in Nat /\ g % b \in 0..b - 1 /\ g = b * (g \div b) + (g % b) BY DivMod
<1>2. PICK q \in Nat, r \in 0..b - 1 : q = g \div b /\ r = g % b /\ g = b * q + r BY <1>1
<1>3. /\ s \in Seq(0..b - 1) /\ Len(s) \in Nat /\ q < Pow(b, Len(s))
      /\ \A i \in 1..Len(s) : s[Len(s) + 1 - i] = (q \div Pow(b, i - 1)) % b
  <2>1. Prints(s, q, b) BY <1>2
  <2>2. /\ s \in Seq(0..b - 1) /\ q < Pow(b, Len(s))
        /\ \A i \in 1..Len(s) : s[Len(s) + 1 - i] = (q \div Pow(b, i - 1)) % b
    BY <2>1 DEF Prints
  <2>3. Len(s) \in Nat BY <2>2
  <2> QED BY <2>2, <2>3, Zenon
<1>4. PICK n \in Nat : n = Len(s) BY <1>3
<1>5. /\ t \in Seq(0..b - 1) /\ Len(t) = n + 1 /\ t[n + 1] = r
      /\ \A i \in 1..n : t[i] = s[i]
  BY <1>2, <1>3, <1>4
<1> HIDE DEF t
<1>6. g < Pow(b, n + 1)
  <2>1. PICK p \in Nat : p = Pow(b, n) BY PowPositive
  <2>2. Pow(b, n + 1) = b * p BY <2>1, PowIs
  <2>3. q + 1 \in Nat /\ q + 1 <= p BY <1>3, <1>4, <2>1
  <2>4. (q + 1) * b <= p * b BY <2>3, TimesMonotone
  <2>5. (q + 1) * b = b * q + b /\ p * b = b * p /\ b * q \in Nat /\ b * p \in Nat OBVIOUS
  <2> QED BY <1>2, <2>2, <2>4, <2>5
<1>7. \A i \in 1..n + 1 : t[(n + 1) + 1 - i] = (g \div Pow(b, i - 1)) % b
  <2> TAKE i \in 1..n + 1
  <2>1. CASE i = 1
    <3>1. Pow(b, i - 1) = 1
      <4>1. i - 1 = 0 BY <2>1
      <4> QED BY <4>1, PowIs
    <3>2. (n + 1) + 1 - i = n + 1 BY <2>1
    <3>3. g \div 1 = g
      <4>1. g * 1 + 0 = g /\ 0 \in 0..1 - 1 OBVIOUS
      <4> QED BY <4>1, EuclidOnce
    <3> QED BY <1>2, <1>5, <3>1, <3>2, <3>3
  <2>2. CASE i # 1
    <3>1. PICK j \in Nat : j + 2 = i /\ j + 1 \in 1..n /\ (j + 1) - 1 = j /\ i - 1 = j + 1 BY <2>2
    <3>2. (n + 1) + 1 - i = n + 1 - (j + 1) /\ n + 1 - (j + 1) \in 1..n BY <3>1
    <3>3. t[n + 1 - (j + 1)] = (q \div Pow(b, j)) % b BY <1>3, <1>4, <1>5, <3>1, <3>2
    <3>4. PICK p \in Nat \ {0} : p = Pow(b, j) BY PowPositive
    <3>5. Pow(b, j + 1) = b * p BY <3>4, PowIs
    <3>6. q \div p = g \div (b * p) BY <1>2, DivTwice
    <3> QED BY <3>1, <3>2, <3>3, <3>4, <3>5, <3>6
  <2> QED BY <2>1, <2>2
<1> QED BY <1>2, <1>5, <1>6, <1>7 DEF Prints, t

(* The digit that a division by the radix gives.                           *)
LEMMA DivideByRadix ==
  ASSUME NEW b \in 2..Base - 1, NEW v \in Numbers
  PROVE  /\ divide(v, <<b>>).quo \in Numbers
         /\ Value(divide(v, <<b>>).quo) = Value(v) \div b
         /\ v # <<>> => Value(divide(v, <<b>>).quo) < Value(v)
         /\ \A s : WithLast(s, divide(v, <<b>>).rem) = Append(s, Value(v) % b)
<1>1. b \in Nat \ {0, 1} /\ b \in 0..Base - 1 /\ b # 0 /\ b < Base BY BaseIs
<1>2. <<b>> \in Numbers /\ <<b>> # <<>> /\ Value(<<b>>) = b BY <1>1, OneWord
<1>3. /\ divide(v, <<b>>).quo \in Numbers /\ divide(v, <<b>>).rem \in Numbers
      /\ Value(divide(v, <<b>>).quo) = Value(v) \div b
      /\ Value(divide(v, <<b>>).rem) = Value(v) % b
      /\ Value(divide(v, <<b>>).rem) < b
  BY <1>2, QuotientIs
<1>4. ASSUME v # <<>> PROVE Value(v) \div b < Value(v)
  <2>1. Value(v) \in Nat \ {0} BY <1>4, Bounds, NumbersAre
  <2> QED BY <1>1, <2>1, QuotientSmaller
<1>5. PICK r \in Numbers : r = divide(v, <<b>>).rem BY <1>3
<1>6. Value(r) < Base
  <2>1. Value(r) \in Nat /\ Base \in Nat BY NumbersAre, BaseIs
  <2> QED BY <1>1, <1>3, <1>5, <2>1
<1>7. Value(r) = IF r = <<>> THEN 0 ELSE r[1] BY <1>6, OnlyWord
<1>8. \A s : WithLast(s, r) = Append(s, Value(v) % b) BY <1>3, <1>5, <1>7 DEF WithLast
<1> QED BY <1>3, <1>4, <1>5, <1>8

(* The digits of a number are printed.                                     *)
LEMMA DigitsOfIs ==
  ASSUME NEW b \in 2..Base - 1, NEW array \in Numbers
  PROVE  Prints(DigitsOf(array, b), Value(array), b)
<1> DEFINE R == Seq(0..b - 1)
           S == {<<>>}
           next == [v \in Numbers |-> divide(v, <<b>>).quo]
           m == [v \in Numbers |-> Value(v)]
           none == [v \in Numbers |-> <<>>]
           F == [q \in Numbers \X R |-> WithLast(q[2], divide(q[1], <<b>>).rem)]
           Is(e) == e = [v \in Numbers |->
                           IF v = <<>> THEN <<>>
                           ELSE WithLast(e[divide(v, <<b>>).quo], divide(v, <<b>>).rem)]
           g == CHOOSE e : Is(e)
<1>1. b \in Nat \ {0, 1} /\ b \in Nat \ {0} BY BaseIs
<1>2. \A v \in Numbers : /\ Value(v) \in Nat /\ m[v] = Value(v) /\ none[v] = <<>>
                         /\ next[v] = divide(v, <<b>>).quo
                         /\ next[v] \in Numbers /\ Value(next[v]) = Value(v) \div b
                         /\ v # <<>> => Value(next[v]) < Value(v)
  <2> TAKE v \in Numbers
  <2>1. Value(v) \in Nat BY NumbersAre
  <2>2. m[v] = Value(v) /\ none[v] = <<>> /\ next[v] = divide(v, <<b>>).quo OBVIOUS
  <2> HIDE DEF m, none, next
  <2>3. /\ divide(v, <<b>>).quo \in Numbers
        /\ Value(divide(v, <<b>>).quo) = Value(v) \div b
        /\ v # <<>> => Value(divide(v, <<b>>).quo) < Value(v)
    BY DivideByRadix
  <2> QED BY <2>1, <2>2, <2>3
<1>3. \A v \in Numbers, s \in R : /\ F[<<v, s>>] = WithLast(s, divide(v, <<b>>).rem)
                                  /\ F[<<v, s>>] \in R
  <2> TAKE v \in Numbers, s \in R
  <2>1. F[<<v, s>>] = WithLast(s, divide(v, <<b>>).rem) OBVIOUS
  <2>2. WithLast(s, divide(v, <<b>>).rem) = Append(s, Value(v) % b) BY DivideByRadix
  <2>3. Value(v) % b \in 0..b - 1 BY <1>1, <1>2, ModIs
  <2>4. Append(s, Value(v) % b) \in R BY <2>3
  <2> QED BY <2>1, <2>2, <2>4
<1>4. <<>> \in R OBVIOUS
<1> HIDE DEF R, next, m, none, F
<1>5. Is(g)
  <2>1. Measured(Numbers, S, next, m) BY <1>2 DEF Measured
  <2>2. MadeIn(Numbers, R, S, none, F)
    <3>1. \A v \in Numbers : v \in S => none[v] \in R BY <1>2, <1>4
    <3> QED BY <1>3, <3>1 DEF MadeIn
  <2>3. R # {} BY <1>4
  <2> HIDE DEF S
  <2>4. PICK f \in [Numbers -> R] : Made(f, Numbers, S, none, F, next)
    BY <2>1, <2>2, <2>3, MeasuredRecursion
  <2>5. \A v \in Numbers : f[v] = IF v = <<>> THEN <<>>
                                  ELSE WithLast(f[divide(v, <<b>>).quo], divide(v, <<b>>).rem)
    <3> TAKE v \in Numbers
    <3>1. f[v] = IF v \in S THEN none[v] ELSE F[<<v, f[next[v]]>>] BY <2>4 DEF Made
    <3>2. v \in S <=> v = <<>> BY DEF S
    <3>3. f[next[v]] \in R BY <1>2
    <3>4. F[<<v, f[next[v]]>>] = WithLast(f[next[v]], divide(v, <<b>>).rem) BY <1>3, <3>3
    <3> QED BY <1>2, <3>1, <3>2, <3>4
  <2>6. f = [v \in Numbers |-> f[v]] BY <2>4
  <2>7. Is(f) BY <2>5, <2>6
  <2> QED BY <2>7
<1>6. DigitsOf(array, b) = g[array] BY Zenon DEF DigitsOf
<1> HIDE DEF g
<1>7. \A v \in Numbers : /\ v = <<>> => g[v] = <<>>
                         /\ v # <<>> => g[v] = Append(g[next[v]], Value(v) % b)
  <2> TAKE v \in Numbers
  <2>1. g[v] = IF v = <<>> THEN <<>>
               ELSE WithLast(g[divide(v, <<b>>).quo], divide(v, <<b>>).rem) BY <1>5
  <2>2. WithLast(g[next[v]], divide(v, <<b>>).rem) = Append(g[next[v]], Value(v) % b)
    BY DivideByRadix
  <2> QED BY <1>2, <2>1, <2>2
<1> DEFINE T == {k \in Nat : \A v \in Numbers : Value(v) = k => Prints(g[v], k, b)}
<1>8. \A k \in Nat : (\A i \in 0..k - 1 : i \in T) => k \in T
  <2> TAKE k \in Nat
  <2>1. SUFFICES ASSUME \A i \in 0..k - 1 : i \in T, NEW v \in Numbers, Value(v) = k
                 PROVE  Prints(g[v], k, b)
    OBVIOUS
  <2>2. CASE v = <<>>
    <3>1. g[v] = <<>> /\ k = 0 BY <1>7, <2>1, <2>2, EmptyIs
    <3>2. Len(<<>>) = 0 /\ Pow(b, 0) = 1 BY <1>1, PowIs
    <3>3. 0 < Pow(b, Len(<<>>)) BY <3>2
    <3>4. \A i \in 1..Len(<<>>) : FALSE BY <3>2
    <3>5. <<>> \in Seq(0..b - 1) OBVIOUS
    <3>6. Prints(<<>>, 0, b) BY <3>3, <3>4, <3>5 DEF Prints
    <3> QED BY <3>1, <3>6
  <2>3. CASE v # <<>>
    <3>1. g[v] = Append(g[next[v]], k % b) BY <1>7, <2>1, <2>3
    <3>2. PICK u \in Numbers : u = next[v] /\ Value(u) = k \div b /\ Value(u) < k BY <1>2, <2>1, <2>3
    <3>3. Value(u) \in 0..k - 1 BY <3>2, NumbersAre
    <3>4. Value(u) \in T BY <2>1, <3>3
    <3>5. Prints(g[u], k \div b, b) BY <3>2, <3>4
    <3>6. Prints(Append(g[u], k % b), k, b) BY <1>1, <3>5, PrintsMore
    <3> QED BY <3>1, <3>2, <3>6
  <2> QED BY <2>2, <2>3
<1> HIDE DEF T
<1>9. \A k \in Nat : k \in T BY <1>8, NatSetStrongInduction
<1>10. Value(array) \in T BY <1>2, <1>9
<1> QED BY <1>6, <1>10 DEF T

Parts == [array : Numbers, mult : Numbers]

(* One more digit is read.                                                 *)
LEMMA WithDigitIs ==
  ASSUME NEW b \in 2..Base - 1, NEW d \in 0..b - 1, NEW t \in Parts
  PROVE  /\ WithDigit(t, d, b) \in Parts
         /\ Value(WithDigit(t, d, b).mult) = b * Value(t.mult)
         /\ Value(WithDigit(t, d, b).array) = Value(t.array) + d * Value(t.mult)
<1>1. b \in 0..Base - 1 /\ d \in 0..Base - 1 /\ b \in Nat /\ d \in Nat BY BaseIs
<1>2. PICK u \in Numbers, v \in Numbers : u = t.array /\ v = t.mult BY DEF Parts
<1>3. PICK p \in Nat, q \in Nat : p = Value(u) /\ q = Value(v) BY NumbersAre
<1>4. multiplyWord(v, b) \in Numbers /\ Value(multiplyWord(v, b)) = q * b BY <1>1, <1>3, MultiplyWordIs
<1>5. multiplyWord(v, d) \in Numbers /\ Value(multiplyWord(v, d)) = q * d BY <1>1, <1>3, MultiplyWordIs
<1>6. /\ add(u, multiplyWord(v, d), 0) \in Numbers
      /\ Value(add(u, multiplyWord(v, d), 0)) = p + q * d
  BY <1>3, <1>5, SumOfNumbers
<1>7. PICK w \in Numbers : /\ w = IF d = 0 THEN u ELSE add(u, multiplyWord(v, d), 0)
                           /\ Value(w) = p + d * q
  <2>1. q * d = d * q BY <1>1
  <2>2. d = 0 => p + d * q = p BY <1>3
  <2>3. CASE d = 0 BY <1>3, <2>2, <2>3
  <2>4. CASE d # 0 BY <1>6, <2>1, <2>4
  <2> QED BY <2>3, <2>4
<1>8. WithDigit(t, d, b) = [array |-> w, mult |-> multiplyWord(v, b)] BY <1>2, <1>7 DEF WithDigit
<1>9. q * b = b * q BY <1>1
<1>10. WithDigit(t, d, b) \in Parts BY <1>4, <1>8 DEF Parts
<1> QED BY <1>2, <1>3, <1>4, <1>7, <1>8, <1>9, <1>10

(* Digits that are printed are read as the number.                         *)
LEMMA ParsedIs ==
  ASSUME NEW b \in 2..Base - 1, NEW g \in Nat, NEW s, Prints(s, g, b)
  PROVE  Parsed(s, b) \in Numbers /\ Value(Parsed(s, b)) = g
<1> DEFINE n == Len(s)
           first == [array |-> <<>>, mult |-> <<1>>]
           F == [p \in (1..n) \X Parts |-> WithDigit(p[2], s[n + 1 - p[1]], b)]
           Is(e) == e = [i \in 0..Len(s) |->
                           IF i = 0 THEN [array |-> <<>>, mult |-> <<1>>]
                           ELSE WithDigit(e[i - 1], s[Len(s) + 1 - i], b)]
           t == CHOOSE e : Is(e)
<1>1. /\ n \in Nat /\ g < Pow(b, n) /\ b \in Nat \ {0} /\ 1 \in 0..Base - 1
      /\ \A i \in 1..n : /\ n + 1 - i \in 1..n /\ s[n + 1 - i] \in 0..b - 1
                         /\ s[n + 1 - i] = (g \div Pow(b, i - 1)) % b
  <2>1. s \in Seq(0..b - 1) BY DEF Prints
  <2>2. n \in Nat /\ \A i \in 1..n : s[i] \in 0..b - 1 BY <2>1
  <2>3. \A i \in 1..n : n + 1 - i \in 1..n BY <2>2
  <2>4. b \in Nat \ {0} /\ 1 \in 0..Base - 1 BY BaseIs
  <2>5. g < Pow(b, n) /\ \A i \in 1..n : s[n + 1 - i] = (g \div Pow(b, i - 1)) % b BY DEF Prints
  <2> QED BY <2>2, <2>3, <2>4, <2>5
<1>2. first \in Parts /\ Value(first.array) = 0 /\ Value(first.mult) = 1
  <2>1. <<1>> \in Numbers /\ Value(<<1>>) = 1 BY <1>1, OneWord
  <2>2. <<>> \in Numbers /\ Value(<<>>) = 0 BY EmptyIs
  <2> QED BY <2>1, <2>2 DEF Parts
<1>3. \A i \in 1..n, e \in Parts : /\ F[<<i, e>>] = WithDigit(e, s[n + 1 - i], b)
                                   /\ F[<<i, e>>] \in Parts
  <2> TAKE i \in 1..n, e \in Parts
  <2>1. F[<<i, e>>] = WithDigit(e, s[n + 1 - i], b) OBVIOUS
  <2>2. s[n + 1 - i] \in 0..b - 1 BY <1>1
  <2>3. WithDigit(e, s[n + 1 - i], b) \in Parts BY <2>2, WithDigitIs
  <2> QED BY <2>1, <2>3
<1> HIDE DEF F
<1>4. Is(t)
  <2>1. PICK f \in [0..n -> Parts] : Recursive(f, 0..n, first, F)
    BY <1>1, <1>2, <1>3, Recursion, Zenon
  <2>2. \A i \in 0..n : f[i] = IF i = 0 THEN first ELSE WithDigit(f[i - 1], s[n + 1 - i], b)
    <3> TAKE i \in 0..n
    <3>1. f[i] = IF i = 0 THEN first ELSE F[<<i, f[i - 1]>>] BY <2>1 DEF Recursive
    <3>2. i # 0 => i \in 1..n /\ i - 1 \in 0..n BY <1>1
    <3>3. i # 0 => f[i - 1] \in Parts BY <2>1, <3>2
    <3> QED BY <1>3, <3>1, <3>2, <3>3
  <2>3. f = [i \in 0..n |-> f[i]] BY <2>1
  <2>4. Is(f) BY <2>2, <2>3
  <2> QED BY <2>4
<1>5. Parsed(s, b) = t[n].array BY Zenon DEF Parsed
<1> HIDE DEF t
<1>6. t[0] = first /\ \A i \in 1..n : t[i] = WithDigit(t[i - 1], s[n + 1 - i], b)
  <2>1. 0 \in 0..n /\ \A i \in 1..n : i \in 0..n /\ i # 0 BY <1>1
  <2> QED BY <1>4, <2>1
<1> HIDE DEF first, n
<1> DEFINE T == {i \in Nat : i <= n => /\ t[i] \in Parts /\ Value(t[i].mult) = Pow(b, i)
                                       /\ Value(t[i].array) = g % Pow(b, i)}
<1>7. 0 \in T
  <2>1. Pow(b, 0) = 1 BY <1>1, PowIs
  <2>2. g % 1 = 0
    <3>1. g * 1 + 0 = g /\ 0 \in 0..1 - 1 OBVIOUS
    <3> QED BY <3>1, EuclidOnce
  <2> QED BY <1>2, <1>6, <2>1, <2>2
<1>8. ASSUME NEW i \in Nat, i \in T PROVE i + 1 \in T
  <2>1. SUFFICES ASSUME i + 1 <= n
                 PROVE  /\ t[i + 1] \in Parts /\ Value(t[i + 1].mult) = Pow(b, i + 1)
                        /\ Value(t[i + 1].array) = g % Pow(b, i + 1)
    OBVIOUS
  <2>2. i + 1 \in 1..n /\ (i + 1) - 1 = i /\ i <= n BY <1>1, <2>1
  <2>3. PICK p \in Nat \ {0} : p = Pow(b, i) BY <1>1, PowPositive
  <2>4. Pow(b, i + 1) = b * p BY <1>1, <2>3, PowIs
  <2>5. PICK d \in 0..b - 1 : d = s[n + 1 - (i + 1)] /\ d = (g \div p) % b BY <1>1, <2>2, <2>3
  <2>6. PICK e \in Parts : e = t[i] /\ Value(e.mult) = p /\ Value(e.array) = g % p
    BY <1>8, <2>2, <2>3
  <2>7. t[i + 1] = WithDigit(e, d, b) BY <1>6, <2>2, <2>5, <2>6
  <2>8. /\ WithDigit(e, d, b) \in Parts /\ Value(WithDigit(e, d, b).mult) = b * p
        /\ Value(WithDigit(e, d, b).array) = (g % p) + d * p
    BY <2>6, WithDigitIs
  <2>9. g % (b * p) = (g % p) + ((g \div p) % b) * p BY <1>1, TwoRemainders
  <2> QED BY <2>4, <2>5, <2>7, <2>8, <2>9
<1> HIDE DEF T
<1>9. n \in T BY <1>1, <1>7, <1>8, NatSetInduction
<1>10. t[n] \in Parts /\ Value(t[n].array) = g % Pow(b, n) BY <1>1, <1>9 DEF T
<1>11. g % Pow(b, n) = g
  <2>1. PICK p \in Nat \ {0} : p = Pow(b, n) BY <1>1, PowPositive
  <2> QED BY <1>1, <2>1, ModIs
<1> QED BY <1>5, <1>10, <1>11 DEF Parts

(* toString, and the constructor from a string after it, give the number   *)
(* back.                                                                   *)
THEOREM ReparseIs ==
  ASSUME NEW a \in Signeds, NEW b \in 2..Base - 1
  PROVE  /\ Parse(toString(a, b), b) \in Signeds
         /\ IntOf(Parse(toString(a, b), b)) = IntOf(a)
<1> DEFINE s == toString(a, b).digits
<1>1. PICK v \in Numbers : v = a.array BY SignedIs
<1>2. Value(v) \in Nat BY NumbersAre
<1>3. toString(a, b).neg = isNegative(a) /\ s = IF isZero(a) THEN <<0>> ELSE DigitsOf(v, b)
  BY <1>1 DEF toString
<1> HIDE DEF s
<1>4. Prints(s, Value(v), b)
  <2>1. CASE isZero(a)
    <3>1. Value(v) = 0 BY <1>1, <2>1, SignedIs
    <3>2. s = <<0>> BY <1>3, <2>1
    <3>3. b \in Nat \ {0} BY BaseIs
    <3>4. Len(<<0>>) = 1 /\ <<0>>[1] = 0 /\ <<0>> \in Seq(0..b - 1) BY <3>3
    <3>5. Pow(b, 0) = 1 /\ Pow(b, 0 + 1) = b * Pow(b, 0) BY <3>3, PowIs
    <3>6. 0 < Pow(b, 1) BY <3>3, <3>5
    <3>7. 0 \div 1 = 0 /\ 0 % b = 0
      <4>1. 0 * 1 + 0 = 0 /\ 0 \in 0..1 - 1 /\ 0 * b + 0 = 0 /\ 0 \in 0..b - 1 BY <3>3
      <4>2. 0 = 0 \div 1 BY <4>1, EuclidOnce
      <4>3. 0 = 0 % b BY <3>3, <4>1, EuclidOnce
      <4> QED BY <4>2, <4>3
    <3>8. \A i \in 1..1 : 1 + 1 - i = 1 /\ i - 1 = 0 OBVIOUS
    <3>9. \A i \in 1..1 : <<0>>[1 + 1 - i] = (0 \div Pow(b, i - 1)) % b BY <3>4, <3>5, <3>7, <3>8
    <3> QED BY <3>1, <3>2, <3>4, <3>6, <3>9 DEF Prints
  <2>2. CASE ~isZero(a) BY <1>3, <2>2, DigitsOfIs
  <2> QED BY <2>1, <2>2
<1>5. Parsed(s, b) \in Numbers /\ Value(Parsed(s, b)) = Value(v) BY <1>2, <1>4, ParsedIs
<1>6. Parse(toString(a, b), b) = [neg |-> isNegative(a), array |-> Parsed(s, b)]
  BY <1>3 DEF Parse, s
<1>7. /\ IntOf(a) \in Int /\ Magnitude(IntOf(a)) = Value(v)
      /\ isNegative(a) <=> IntOf(a) < 0
      /\ isNegative(a) \in BOOLEAN
  BY <1>1, SignedIs
<1>8. CASE IntOf(a) < 0
  <2>1. isNegative(a) = TRUE BY <1>7, <1>8
  <2>2. IntOf(a) = -Value(v) BY <1>2, <1>7, <1>8 DEF Magnitude
  <2> QED BY <1>5, <1>6, <1>7, <1>8, <2>1, <2>2, MadeIs
<1>9. CASE ~(IntOf(a) < 0)
  <2>1. isNegative(a) = FALSE BY <1>7, <1>9
  <2>2. IntOf(a) = Value(v) BY <1>7, <1>9 DEF Magnitude
  <2> QED BY <1>2, <1>5, <1>6, <1>7, <1>9, <2>1, <2>2, MadeIs
<1> QED BY <1>8, <1>9

-----------------------------------------------------------------------------
(* Powers modulo a number.                                                 *)

(* A remainder leaves itself.                                              *)
LEMMA SameMod ==
  ASSUME NEW g \in Nat, NEW m \in Nat \ {0}
  PROVE  g % m \in Nat /\ g % m < m /\ Same(g % m, g, m)
<1>1. g % m \in Nat /\ g % m < m /\ (g % m) % m = g % m BY ModIs
<1> QED BY <1>1 DEF Same

SquareAnd(p, q) == p * p * q

(* The reference's step.                                                   *)
LEMMA SquareTimesIs ==
  ASSUME NEW h \in Nat, NEW j \in Nat, NEW p \in Nat, NEW q \in Nat, NEW m \in Nat \ {0},
         Same(h, p, m), Same(j, q, m)
  PROVE  SquareTimes(h, j, m) = SquareAnd(p, q) % m
<1>1. PICK z \in Nat : z = h * h OBVIOUS
<1>2. PICK y \in Nat : y = p * p OBVIOUS
<1>3. Same(z, y, m)
  <2>1. Same(h * h, p * p, m) BY SameTimes
  <2> QED BY <1>1, <1>2, <2>1
<1>4. z % m \in Nat /\ Same(z % m, y, m)
  <2>1. z % m \in Nat /\ Same(z % m, z, m) BY SameMod
  <2> QED BY <1>3, <2>1 DEF Same
<1>5. PICK u \in Nat : u = z % m /\ Same(u, y, m) BY <1>4
<1>6. Same(u * j, y * q, m) BY <1>5, SameTimes
<1>7. SquareTimes(h, j, m) = (u * j) % m BY <1>1, <1>5 DEF SquareTimes
<1> QED BY <1>2, <1>6, <1>7 DEF Same, SquareAnd

(* The reference: 1, or the power's remainder.                             *)
Remains(i, n, m) == IF n = 0 THEN 1 ELSE Pow(i, n) % m

(* The reference at half the exponent.                                     *)
LEMMA HalfPower ==
  ASSUME NEW i \in Nat, NEW n \in Nat \ {0}, NEW m \in Nat \ {0}
  PROVE  /\ n \div 2 \in Nat /\ n \div 2 < n /\ Remains(i, n \div 2, m) \in Nat
         /\ Remains(i, n, m)
              = SquareTimes(Remains(i, n \div 2, m), IF n % 2 = 1 THEN i % m ELSE 1, m)
<1>1. PICK q \in Nat, r \in Nat : r \in 0..1 /\ q = n \div 2 /\ r = n % 2 /\ n = 2 * q + r
  <2>1. n \div 2 \in Nat /\ n % 2 \in 0..2 - 1 /\ n = 2 * (n \div 2) + (n % 2) BY DivMod
  <2> QED BY <2>1
<1>2. q < n BY <1>1
<1>3. PICK p \in Nat : p = Pow(i, q) BY PowNat
<1>4. PICK h \in Nat : h = Remains(i, q, m) /\ Same(h, p, m)
  <2>1. CASE q = 0
    <3>1. p = 1 BY <1>3, <2>1, PowIs
    <3>2. Remains(i, q, m) = 1 BY <2>1 DEF Remains
    <3> QED BY <3>1, <3>2 DEF Same
  <2>2. CASE q # 0
    <3>1. Remains(i, q, m) = p % m BY <1>3, <2>2 DEF Remains
    <3>2. p % m \in Nat /\ Same(p % m, p, m) BY SameMod
    <3> QED BY <3>1, <3>2
  <2> QED BY <2>1, <2>2
<1>5. PICK g \in Nat : g = Pow(i, r) BY PowNat
<1>6. PICK j \in Nat : j = (IF r = 1 THEN i % m ELSE 1) /\ Same(j, g, m)
  <2>1. Pow(i, 0) = 1 /\ Pow(i, 0 + 1) = i * Pow(i, 0) BY PowIs
  <2>2. Pow(i, 1) = i BY <2>1
  <2>3. i % m \in Nat /\ Same(i % m, i, m) BY SameMod
  <2>4. CASE r = 1 BY <1>5, <2>2, <2>3, <2>4
  <2>5. CASE r # 1
    <3>1. r = 0 BY <1>1, <2>5
    <3>2. g = 1 BY <1>5, <2>1, <3>1
    <3> QED BY <2>5, <3>2 DEF Same
  <2> QED BY <2>4, <2>5
<1>7. SquareTimes(h, j, m) = SquareAnd(p, g) % m BY <1>4, <1>6, SquareTimesIs
<1>8. Pow(i, n) = SquareAnd(p, g)
  <2>1. PICK e \in Nat : e = q + q OBVIOUS
  <2>2. Pow(i, e) = p * p BY <1>3, <2>1, PowSum
  <2>3. Pow(i, e + r) = Pow(i, e) * Pow(i, r) BY PowSum
  <2>4. e + r = n BY <1>1, <2>1
  <2> QED BY <1>5, <2>2, <2>3, <2>4 DEF SquareAnd
<1>9. Remains(i, n, m) = SquareAnd(p, g) % m BY <1>8 DEF Remains
<1> QED BY <1>1, <1>2, <1>4, <1>6, <1>7, <1>9

(* The reference computes the power's remainder.                           *)
LEMMA PowerModuloIs ==
  ASSUME NEW i \in Nat, NEW n \in Nat, NEW m \in Nat \ {0}
  PROVE  PowerModulo(i, n, m) = Remains(i, n, m) /\ Remains(i, n, m) \in Nat
<1> DEFINE Is(f) == f = [e \in Nat |->
                           IF e = 0 THEN 1
                           ELSE SquareTimes(f[e \div 2], IF e % 2 = 1 THEN i % m ELSE 1, m)]
           power == CHOOSE f : Is(f)
           known == [e \in Nat |-> Remains(i, e, m)]
<1>1. \A e \in Nat : known[e] = Remains(i, e, m) OBVIOUS
<1>2. known = [e \in Nat |-> known[e]] OBVIOUS
<1> HIDE DEF known
<1>3. Remains(i, 0, m) = 1 BY DEF Remains
<1>4. Is(known)
  <2>1. \A e \in Nat : known[e] = IF e = 0 THEN 1
                       ELSE SquareTimes(known[e \div 2], IF e % 2 = 1 THEN i % m ELSE 1, m)
    <3> TAKE e \in Nat
    <3>1. CASE e = 0 BY <1>1, <1>3, <3>1
    <3>2. CASE e # 0
      <4>1. e \in Nat \ {0} BY <3>2
      <4>2. e \div 2 \in Nat
            /\ Remains(i, e, m)
                 = SquareTimes(Remains(i, e \div 2, m), IF e % 2 = 1 THEN i % m ELSE 1, m)
        BY <4>1, HalfPower
      <4>3. known[e \div 2] = Remains(i, e \div 2, m) BY <1>1, <4>2
      <4> QED BY <1>1, <3>2, <4>2, <4>3
    <3> QED BY <3>1, <3>2
  <2> QED BY <1>2, <2>1
<1>5. Is(power) BY <1>4
<1>6. PowerModulo(i, n, m) = power[n] BY Zenon DEF PowerModulo
<1> HIDE DEF power
<1> DEFINE T == {k \in Nat : power[k] = Remains(i, k, m)}
<1>7. \A k \in Nat : (\A j \in 0..k - 1 : j \in T) => k \in T
  <2> TAKE k \in Nat
  <2>1. SUFFICES ASSUME \A j \in 0..k - 1 : j \in T PROVE power[k] = Remains(i, k, m) OBVIOUS
  <2>2. CASE k = 0 BY <1>3, <1>5, <2>2
  <2>3. CASE k # 0
    <3>1. k \in Nat \ {0} BY <2>3
    <3>2. /\ k \div 2 \in Nat /\ k \div 2 < k
          /\ Remains(i, k, m)
               = SquareTimes(Remains(i, k \div 2, m), IF k % 2 = 1 THEN i % m ELSE 1, m)
      BY <3>1, HalfPower
    <3>3. k \div 2 \in 0..k - 1 BY <3>2
    <3>4. power[k \div 2] = Remains(i, k \div 2, m) BY <2>1, <3>3
    <3>5. power[k] = SquareTimes(power[k \div 2], IF k % 2 = 1 THEN i % m ELSE 1, m)
      BY <1>5, <2>3
    <3> QED BY <3>2, <3>4, <3>5
  <2> QED BY <2>2, <2>3
<1> HIDE DEF T
<1>8. n \in T BY <1>7, NatSetStrongInduction
<1>9. Remains(i, n, m) \in Nat
  <2>1. CASE n = 0 BY <2>1 DEF Remains
  <2>2. CASE n # 0
    <3>1. PICK p \in Nat : p = Pow(i, n) BY PowNat
    <3>2. p % m \in Nat BY SameMod
    <3> QED BY <2>2, <3>1, <3>2 DEF Remains
  <2> QED BY <2>1, <2>2
<1> QED BY <1>6, <1>8, <1>9 DEF T
(* One modular product.                                                    *)
LEMMA ModMultiplyIs ==
  ASSUME NEW a \in Numbers, NEW b \in Numbers, NEW m \in Numbers, m # <<>>
  PROVE  /\ modMultiply(a, b, m) \in Numbers /\ Value(m) \in Nat \ {0}
         /\ Value(modMultiply(a, b, m)) = (Value(a) * Value(b)) % Value(m)
         /\ Value(modMultiply(a, b, m)) < Value(m)
<1>1. multiply(a, b) \in Numbers /\ Value(multiply(a, b)) = Value(a) * Value(b) BY MultiplyIs
<1>2. PICK p \in Numbers : p = multiply(a, b) BY <1>1
<1>3. /\ divide(p, m).rem \in Numbers /\ Value(divide(p, m).rem) = Value(p) % Value(m)
      /\ Value(divide(p, m).rem) < Value(m)
  BY QuotientIs
<1>4. Value(m) \in Nat \ {0} BY Bounds, NumbersAre
<1> QED BY <1>1, <1>2, <1>3, <1>4 DEF modMultiply

(* r is a to the n, up to multiples of m.                                  *)
Powers(r, a, n, m) == r \in Numbers /\ Same(Value(r), Pow(a, n), m)

(* The product of two powers is that of the exponents' sum.                *)
LEMMA PowersTimes ==
  ASSUME NEW m \in Numbers, m # <<>>, NEW a \in Nat, NEW j \in Nat, NEW k \in Nat,
         NEW r, NEW s, Powers(r, a, j, Value(m)), Powers(s, a, k, Value(m))
  PROVE  /\ Powers(modMultiply(r, s, m), a, j + k, Value(m))
         /\ Value(modMultiply(r, s, m)) = Pow(a, j + k) % Value(m)
         /\ Value(modMultiply(r, s, m)) < Value(m)
<1>1. r \in Numbers /\ s \in Numbers BY DEF Powers
<1>2. /\ modMultiply(r, s, m) \in Numbers
      /\ Value(modMultiply(r, s, m)) = (Value(r) * Value(s)) % Value(m)
      /\ Value(modMultiply(r, s, m)) < Value(m)
  BY <1>1, ModMultiplyIs
<1>3. PICK M \in Nat \ {0} : M = Value(m) BY Bounds, NumbersAre
<1>4. PICK g \in Nat, h \in Nat : g = Value(r) /\ h = Value(s) BY <1>1, NumbersAre
<1>5. PICK p \in Nat : p = Pow(a, j) BY PowNat
<1>6. PICK q \in Nat : q = Pow(a, k) BY PowNat
<1>7. Same(g, p, M) /\ Same(h, q, M) BY <1>3, <1>4, <1>5, <1>6 DEF Powers
<1>8. Same(g * h, p * q, M) BY <1>7, SameTimes
<1>9. Pow(a, j + k) = p * q BY <1>5, <1>6, PowSum
<1>10. Value(modMultiply(r, s, m)) = (p * q) % M BY <1>2, <1>3, <1>4, <1>8 DEF Same
<1>11. PICK z \in Nat : z = p * q OBVIOUS
<1>12. Same(z % M, z, M) BY SameMod
<1> QED BY <1>2, <1>3, <1>9, <1>10, <1>11, <1>12 DEF Powers

(* The powers that every method starts from.                               *)
LEMMA FirstPowers ==
  ASSUME NEW a \in Nat, NEW m \in Nat \ {0}
  PROVE  /\ <<1>> \in Numbers /\ Value(<<1>>) = 1 /\ Powers(<<1>>, a, 0, m)
         /\ \A r \in Numbers : Value(r) = a => Powers(r, a, 1, m)
<1>1. 1 \in 0..Base - 1 BY BaseIs
<1>2. <<1>> \in Numbers /\ Value(<<1>>) = 1 BY <1>1, OneWord
<1>3. Pow(a, 0) = 1 /\ Pow(a, 0 + 1) = a * Pow(a, 0) BY PowIs
<1>4. Pow(a, 1) = a BY <1>3
<1> QED BY <1>2, <1>3, <1>4 DEF Powers, Same

(* The bits of the exponent.                                               *)
LEMMA BitsAre ==
  ASSUME NEW e \in Numbers, NEW bits, bits = Bits(e)
  PROVE  \E n \in Nat : /\ Len(bits) = n /\ W(bits, n, 1) = Value(e)
                        /\ \A i \in 1..n : bits[i] \in 0..1 /\ bits[i] \in Nat
                        /\ e # <<>> => n # 0
<1>1. WordBits \in Nat \ {0} /\ 1 * WordBits = WordBits BY WordAssumption
<1>2. e \in Arrays /\ Len(e) \in Nat /\ Value(e) = V(e, Len(e)) BY NumbersAre
<1>3. bits = Digits(e, 1, WordBits) BY DEF Bits
<1>4. PICK n \in Nat : n = Len(e) * WordBits BY <1>1, <1>2
<1>5. PICK w \in Nat : w = 1 OBVIOUS
<1>6. /\ Len(bits) = n /\ \A i \in 1..n : bits[i] \in 0..2 ^ w - 1 /\ bits[i] \in Nat
      /\ W(bits, n, w) = V(e, Len(e))
  <2>1. w * WordBits = WordBits /\ bits = Digits(e, w, WordBits) BY <1>1, <1>3, <1>5
  <2>2. PICK b \in Nat \ {0} : b = WordBits BY <1>1
  <2>3. w * b = WordBits /\ bits = Digits(e, w, b) BY <2>1, <2>2
  <2>4. e \in Arrays BY <1>2
  <2>5. /\ Len(bits) = Len(e) * b
        /\ \A i \in 1..Len(e) * b : bits[i] \in 0..2 ^ w - 1 /\ bits[i] \in Nat
        /\ W(bits, Len(e) * b, w) = V(e, Len(e))
    <3>1. w \in Nat /\ b \in Nat \ {0} BY <1>5, <2>2
    <3> QED BY ONLY <3>1, <2>3, <2>4, DigitsIs
  <2> QED BY <1>4, <2>2, <2>5
<1>8. 2 ^ w - 1 = 1 BY <1>5, PowerOne
<1>7. ASSUME e # <<>> PROVE n # 0
  <2>1. 1 <= Len(e) BY <1>7, Bounds
  <2>2. 1 * WordBits <= Len(e) * WordBits BY <1>1, <1>2, <2>1, TimesMonotone
  <2> QED BY <1>1, <1>4, <2>2
<1> QED BY <1>2, <1>5, <1>6, <1>7, <1>8

(* From the lowest bit: after bits that make g, aa is a to the k.          *)
Pairs == [result : Numbers, aa : Numbers]
Risen(t, a, g, k, m) ==
    t \in Pairs /\ Powers(t.aa, a, k, m) /\ Value(t.result) = Remains(a, g, m)

(* One bit of the exponent.                                                *)
LEMMA NextSquareIs ==
  ASSUME NEW m \in Numbers, m # <<>>, NEW a \in Nat, NEW g \in Nat, NEW k \in Nat \ {0},
         NEW t, Risen(t, a, g, k, Value(m)), NEW bit \in 0..1
  PROVE  Risen(NextSquare(t, bit, m), a, g + bit * k, k + k, Value(m))
<1>1. PICK r \in Numbers, s \in Numbers : r = t.result /\ s = t.aa BY DEF Risen, Pairs
<1>2. PICK M \in Nat \ {0} : M = Value(m) BY Bounds, NumbersAre
<1>3. Powers(s, a, k, M) /\ Value(r) = Remains(a, g, M) BY <1>1, <1>2 DEF Risen
<1>4. k \in Nat OBVIOUS
<1>5. Powers(modMultiply(s, s, m), a, k + k, M) BY <1>2, <1>3, <1>4, PowersTimes
<1>6. Powers(r, a, g, M)
  <2>1. PICK p \in Nat : p = Pow(a, g) BY PowNat
  <2>2. CASE g = 0
    <3>1. Remains(a, g, M) = 1 BY <2>2 DEF Remains
    <3>2. Pow(a, g) = 1 BY <2>2, PowIs
    <3> QED BY <1>3, <3>1, <3>2 DEF Powers, Same
  <2>3. CASE g # 0
    <3>1. Remains(a, g, M) = p % M BY <2>1, <2>3 DEF Remains
    <3>2. Same(p % M, p, M) BY SameMod
    <3> QED BY <1>3, <2>1, <3>1, <3>2 DEF Powers
  <2> QED BY <2>2, <2>3
<1>7. CASE bit = 0
  <2>1. NextSquare(t, bit, m) = [result |-> r, aa |-> modMultiply(s, s, m)]
    BY <1>1, <1>7 DEF NextSquare
  <2>2. g + bit * k = g BY <1>7
  <2>3. modMultiply(s, s, m) \in Numbers BY <1>5 DEF Powers
  <2> QED BY <1>2, <1>3, <1>5, <2>1, <2>2, <2>3 DEF Risen, Pairs
<1>8. CASE bit = 1
  <2>1. NextSquare(t, bit, m) = [result |-> modMultiply(r, s, m), aa |-> modMultiply(s, s, m)]
    BY <1>1, <1>8 DEF NextSquare
  <2>2. g + bit * k = g + k /\ g + k # 0 BY <1>8
  <2>3. /\ Powers(modMultiply(r, s, m), a, g + k, M)
        /\ Value(modMultiply(r, s, m)) = Pow(a, g + k) % M
    BY <1>2, <1>3, <1>4, <1>6, PowersTimes
  <2>4. modMultiply(s, s, m) \in Numbers /\ modMultiply(r, s, m) \in Numbers
    BY <1>5, <2>3 DEF Powers
  <2>5. Value(modMultiply(r, s, m)) = Remains(a, g + k, M) BY <2>2, <2>3 DEF Remains
  <2> QED BY <1>2, <1>5, <2>1, <2>2, <2>4, <2>5 DEF Risen, Pairs
<1> QED BY <1>7, <1>8

(* From the lowest bit: squares of squares.                                *)
LEMMA ModPowNaiveIs ==
  ASSUME NEW a \in Numbers, NEW e \in Numbers, NEW m \in Numbers, m # <<>>
  PROVE  /\ modPowNaive(a, e, m) \in Numbers
         /\ Value(modPowNaive(a, e, m)) = Remains(Value(a), Value(e), Value(m))
<1> DEFINE bits == Bits(e)
           first == [result |-> <<1>>, aa |-> a]
           Is(f) == f = [i \in 0..Len(bits) |->
                           IF i = 0 THEN [result |-> <<1>>, aa |-> a]
                           ELSE NextSquare(f[i - 1], bits[i], m)]
           t == CHOOSE f : Is(f)
           F == [q \in (1..Len(bits)) \X Pairs |-> NextSquare(q[2], bits[q[1]], m)]
<1>1. PICK n \in Nat : /\ Len(bits) = n /\ W(bits, n, 1) = Value(e)
                       /\ \A i \in 1..n : bits[i] \in 0..1 /\ bits[i] \in Nat
  BY BitsAre
<1>2. PICK A \in Nat : A = Value(a) BY NumbersAre
<1>3. PICK M \in Nat \ {0} : M = Value(m) BY Bounds, NumbersAre
<1>4. Risen(first, A, 0, 1, M) /\ first \in Pairs
  <2>1. <<1>> \in Numbers /\ Value(<<1>>) = 1 /\ Powers(a, A, 1, M) BY <1>2, FirstPowers
  <2>2. Remains(A, 0, M) = 1 BY DEF Remains
  <2> QED BY <2>1, <2>2 DEF Risen, Pairs
<1>5. modPowNaive(a, e, m) = t[n].result BY <1>1, Zenon DEF modPowNaive
<1>6. \A i \in 1..n, q \in Pairs : F[<<i, q>>] = NextSquare(q, bits[i], m) BY <1>1
<1> HIDE DEF F
<1>7. \A i \in 1..n, q \in Pairs : F[<<i, q>>] \in Pairs
  <2> TAKE i \in 1..n, q \in Pairs
  <2>1. q.result \in Numbers /\ q.aa \in Numbers BY DEF Pairs
  <2>2. modMultiply(q.result, q.aa, m) \in Numbers BY <2>1, ModMultiplyIs
  <2>3. modMultiply(q.aa, q.aa, m) \in Numbers BY <2>1, ModMultiplyIs
  <2>4. NextSquare(q, bits[i], m) \in Pairs BY <2>1, <2>2, <2>3 DEF NextSquare, Pairs
  <2> QED BY <1>6, <2>4
<1>8. Is(t)
  <2>1. PICK f \in [0..n -> Pairs] : Recursive(f, 0..n, first, F)
    BY <1>1, <1>4, <1>7, Recursion, Zenon
  <2>2. \A i \in 0..n : f[i] = IF i = 0 THEN first ELSE NextSquare(f[i - 1], bits[i], m)
    <3> TAKE i \in 0..n
    <3>1. f[i] = IF i = 0 THEN first ELSE F[<<i, f[i - 1]>>] BY <2>1 DEF Recursive
    <3>2. i # 0 => i \in 1..n /\ i - 1 \in 0..n OBVIOUS
    <3>3. i # 0 => f[i - 1] \in Pairs BY <2>1, <3>2
    <3> QED BY <1>6, <3>1, <3>2, <3>3
  <2>3. f = [i \in 0..n |-> f[i]] BY <2>1
  <2>4. Is(f) BY <1>1, <2>2, <2>3
  <2> QED BY <2>4
<1> HIDE DEF t
<1>9. t[0] = first /\ \A i \in 1..n : t[i] = NextSquare(t[i - 1], bits[i], m)
  <2>1. 0 \in 0..n /\ \A i \in 1..n : i \in 0..n /\ i # 0 OBVIOUS
  <2> QED BY <1>1, <1>8, <2>1
<1> HIDE DEF first, bits
<1> DEFINE T == {i \in Nat : i <= n => W(bits, i, 1) \in Nat
                                       /\ Risen(t[i], A, W(bits, i, 1), Pw(1, i), M)}
<1>10. 0 \in T
  <2>1. W(bits, 0, 1) = 0 /\ Pw(1, 0) = 1 BY WType, PwIs
  <2> QED BY <1>4, <1>9, <2>1
<1>11. ASSUME NEW i \in Nat, i \in T PROVE i + 1 \in T
  <2>1. SUFFICES ASSUME i + 1 <= n
                 PROVE  W(bits, i + 1, 1) \in Nat
                        /\ Risen(t[i + 1], A, W(bits, i + 1, 1), Pw(1, i + 1), M)
    OBVIOUS
  <2>2. i + 1 \in 1..n /\ (i + 1) - 1 = i /\ i <= n BY <2>1
  <2>3. PICK g \in Nat : g = W(bits, i, 1) /\ Risen(t[i], A, g, Pw(1, i), M) BY <1>11, <2>2
  <2>4. PICK k \in Nat \ {0} : k = Pw(1, i) BY PwIs
  <2>5. Pw(1, i + 1) = k + k
    <3>1. Pw(1, i + 1) = 2 ^ 1 * k BY <2>4, PwIs
    <3> QED BY <3>1, PowerOne
  <2>6. PICK bit \in 0..1 : bit = bits[i + 1] BY <1>1, <2>2
  <2>7. W(bits, i + 1, 1) = g + bit * k
    <3>1. bits[i + 1] \in Int BY <2>6
    <3> QED BY <2>3, <2>4, <2>6, <3>1, WNext
  <2>8. g + bit * k \in Nat OBVIOUS
  <2>9. Risen(NextSquare(t[i], bit, m), A, g + bit * k, k + k, M)
    BY <1>3, <2>3, <2>4, NextSquareIs
  <2>10. t[i + 1] = NextSquare(t[i], bit, m) BY <1>9, <2>2, <2>6
  <2> QED BY <2>5, <2>7, <2>8, <2>9, <2>10
<1> HIDE DEF T
<1>12. n \in T BY <1>10, <1>11, NatSetInduction
<1>13. Risen(t[n], A, Value(e), Pw(1, n), M) BY <1>1, <1>12 DEF T
<1> QED BY <1>2, <1>3, <1>5, <1>13 DEF Risen, Pairs

-----------------------------------------------------------------------------
(* The table of powers.                                                    *)

(* Entry k of the table is a to the k.                                     *)
HasPowers(tab, a, m) == \A k \in 0..2 ^ Window - 1 : Powers(tab[k], a, k, m)

(* The table has the powers.                                               *)
LEMMA TabIs ==
  ASSUME NEW a \in Numbers, NEW m \in Numbers, m # <<>>
  PROVE  HasPowers(Tab(a, m), Value(a), Value(m))
<1> DEFINE Is(f) == f = [i \in 0..2 ^ Window - 1 |->
                           IF i = 0 THEN <<1>> ELSE modMultiply(f[i - 1], a, m)]
           tab == CHOOSE f : Is(f)
           F == [q \in (Nat \ {0}) \X Numbers |-> modMultiply(q[2], a, m)]
<1>1. PICK n \in Nat : n = 2 ^ Window - 1
  <2>1. Window \in Nat BY BigAssumption
  <2>2. 2 ^ Window \in Nat \ {0} BY <2>1, PowerPositive
  <2> QED BY <2>2
<1>2. PICK A \in Nat : A = Value(a) BY NumbersAre
<1>3. PICK M \in Nat \ {0} : M = Value(m) BY Bounds, NumbersAre
<1>4. <<1>> \in Numbers /\ Powers(<<1>>, A, 0, M) /\ Powers(a, A, 1, M) BY <1>2, FirstPowers
<1>5. Tab(a, m) = tab BY Zenon DEF Tab
<1>6. \A i \in 1..n, v \in Numbers : F[<<i, v>>] = modMultiply(v, a, m) OBVIOUS
<1> HIDE DEF F
<1>7. \A i \in 1..n, v \in Numbers : F[<<i, v>>] \in Numbers
  <2> TAKE i \in 1..n, v \in Numbers
  <2>1. modMultiply(v, a, m) \in Numbers BY ModMultiplyIs
  <2> QED BY <1>6, <2>1
<1>8. Is(tab)
  <2>1. PICK f \in [0..n -> Numbers] : Recursive(f, 0..n, <<1>>, F)
    BY <1>4, <1>7, Recursion, Zenon
  <2>2. \A i \in 0..n : f[i] = IF i = 0 THEN <<1>> ELSE modMultiply(f[i - 1], a, m)
    <3> TAKE i \in 0..n
    <3>1. f[i] = IF i = 0 THEN <<1>> ELSE F[<<i, f[i - 1]>>] BY <2>1 DEF Recursive
    <3>2. i # 0 => i \in 1..n /\ i - 1 \in 0..n OBVIOUS
    <3>3. i # 0 => f[i - 1] \in Numbers BY <2>1, <3>2
    <3> QED BY <1>6, <3>1, <3>2, <3>3
  <2>3. f = [i \in 0..n |-> f[i]] BY <2>1
  <2>4. Is(f) BY <1>1, <2>2, <2>3
  <2> QED BY <2>4
<1> HIDE DEF tab
<1>9. tab[0] = <<1>> /\ \A i \in 1..n : tab[i] = modMultiply(tab[i - 1], a, m)
  <2>1. 0 \in 0..n /\ \A i \in 1..n : i \in 0..n /\ i # 0 OBVIOUS
  <2> QED BY <1>1, <1>8, <2>1
<1> DEFINE T == {i \in Nat : i <= n => Powers(tab[i], A, i, M)}
<1>10. 0 \in T BY <1>4, <1>9
<1>11. ASSUME NEW i \in Nat, i \in T PROVE i + 1 \in T
  <2>1. SUFFICES ASSUME i + 1 <= n PROVE Powers(tab[i + 1], A, i + 1, M) OBVIOUS
  <2>2. i + 1 \in 1..n /\ (i + 1) - 1 = i /\ i <= n BY <2>1
  <2>3. Powers(tab[i], A, i, M) BY <1>11, <2>2
  <2>4. Powers(modMultiply(tab[i], a, m), A, i + 1, M) BY <1>3, <1>4, <2>3, PowersTimes
  <2> QED BY <1>9, <2>2, <2>4
<1> HIDE DEF T
<1>12. \A i \in Nat : i \in T BY <1>10, <1>11, NatSetInduction
<1>13. \A i \in 0..n : Powers(tab[i], A, i, M) BY <1>12 DEF T
<1> QED BY <1>1, <1>2, <1>3, <1>5, <1>13 DEF HasPowers

(* Squared once for each bit of a window.                                  *)
LEMMA SquareIs ==
  ASSUME NEW m \in Numbers, m # <<>>, NEW a \in Nat, NEW g \in Nat,
         NEW r, Powers(r, a, g, Value(m))
  PROVE  /\ Powers(Square(r, m), a, 2 * g, Value(m)) /\ Square(r, m) \in Numbers
         /\ Value(Square(r, m)) < Value(m)
<1>1. /\ Powers(modMultiply(r, r, m), a, g + g, Value(m))
      /\ Value(modMultiply(r, r, m)) < Value(m)
  BY PowersTimes
<1>2. g + g = 2 * g OBVIOUS
<1> QED BY <1>1, <1>2 DEF Square, Powers

(* Squared Window times: the exponent grows by Window bits.                *)
LEMMA SquaredWindowTimesIs ==
  ASSUME NEW m \in Numbers, m # <<>>, NEW a \in Nat, NEW g \in Nat,
         NEW r, Powers(r, a, g, Value(m))
  PROVE  Powers(SquaredWindowTimes(r, m), a, g * 2 ^ Window, Value(m))
<1> DEFINE Is(f) == f = [i \in 0..Window |-> IF i = 0 THEN r ELSE Square(f[i - 1], m)]
           s == CHOOSE f : Is(f)
           F == [q \in (Nat \ {0}) \X Numbers |-> Square(q[2], m)]
<1>1. PICK n \in Nat : n = Window BY BigAssumption
<1>2. r \in Numbers BY DEF Powers
<1>3. SquaredWindowTimes(r, m) = s[n] BY <1>1, Zenon DEF SquaredWindowTimes
<1>4. \A i \in 1..n, v \in Numbers : F[<<i, v>>] = Square(v, m) OBVIOUS
<1> HIDE DEF F
<1>5. \A i \in 1..n, v \in Numbers : F[<<i, v>>] \in Numbers
  <2> TAKE i \in 1..n, v \in Numbers
  <2>1. modMultiply(v, v, m) \in Numbers BY ModMultiplyIs
  <2> QED BY <1>4, <2>1 DEF Square
<1>6. Is(s)
  <2>1. PICK f \in [0..n -> Numbers] : Recursive(f, 0..n, r, F) BY <1>2, <1>5, Recursion, Zenon
  <2>2. \A i \in 0..n : f[i] = IF i = 0 THEN r ELSE Square(f[i - 1], m)
    <3> TAKE i \in 0..n
    <3>1. f[i] = IF i = 0 THEN r ELSE F[<<i, f[i - 1]>>] BY <2>1 DEF Recursive
    <3>2. i # 0 => i \in 1..n /\ i - 1 \in 0..n OBVIOUS
    <3>3. i # 0 => f[i - 1] \in Numbers BY <2>1, <3>2
    <3> QED BY <1>4, <3>1, <3>2, <3>3
  <2>3. f = [i \in 0..n |-> f[i]] BY <2>1
  <2>4. Is(f) BY <1>1, <2>2, <2>3
  <2> QED BY <2>4
<1> HIDE DEF s
<1>7. s[0] = r /\ \A i \in 1..n : s[i] = Square(s[i - 1], m)
  <2>1. 0 \in 0..n /\ \A i \in 1..n : i \in 0..n /\ i # 0 OBVIOUS
  <2> QED BY <1>1, <1>6, <2>1
<1> DEFINE T == {i \in Nat : i <= n => Powers(s[i], a, g * 2 ^ i, Value(m))}
<1>8. 0 \in T
  <2>1. g * 2 ^ 0 = g
    <3>1. g * 1 = g OBVIOUS
    <3> QED BY <3>1, PowerOne
  <2> QED BY <1>7, <2>1
<1>9. ASSUME NEW i \in Nat, i \in T PROVE i + 1 \in T
  <2>1. SUFFICES ASSUME i + 1 <= n PROVE Powers(s[i + 1], a, g * 2 ^ (i + 1), Value(m)) OBVIOUS
  <2>2. i + 1 \in 1..n /\ (i + 1) - 1 = i /\ i <= n BY <2>1
  <2>3. PICK p \in Nat : p = 2 ^ i BY PowerPositive
  <2>4. 2 ^ (i + 1) = 2 * p BY <2>3, PowerNext
  <2>5. PICK h \in Nat : h = g * p OBVIOUS
  <2>6. g * (2 * p) = 2 * h BY <2>5
  <2>7. Powers(s[i], a, h, Value(m)) BY <1>9, <2>2, <2>3, <2>5
  <2>8. Powers(Square(s[i], m), a, 2 * h, Value(m)) BY <2>7, SquareIs
  <2> QED BY <1>7, <2>2, <2>4, <2>6, <2>8
<1> HIDE DEF T
<1>10. n \in T BY <1>8, <1>9, NatSetInduction
<1> QED BY <1>1, <1>3, <1>10 DEF T

(* A power that is reduced is the remainder.                               *)
LEMMA PowersExact ==
  ASSUME NEW a \in Nat, NEW n \in Nat, NEW m \in Nat, NEW r, Powers(r, a, n, m), Value(r) < m
  PROVE  r \in Numbers /\ Value(r) = Pow(a, n) % m
<1>1. r \in Numbers /\ Value(r) \in Nat BY NumbersAre DEF Powers
<1>2. Value(r) % m = Value(r)
  <2>1. m \in Nat \ {0} BY <1>1
  <2> QED BY <1>1, <2>1, ModIs
<1> QED BY <1>1, <1>2 DEF Powers, Same

(* One digit of Window bits.                                               *)
LEMMA NextHighIs ==
  ASSUME NEW m \in Numbers, m # <<>>, NEW a \in Nat, NEW g \in Nat, NEW r, Powers(r, a, g, Value(m)),
         NEW tab, HasPowers(tab, a, Value(m)), NEW high \in 0..2 ^ Window - 1
  PROVE  /\ Powers(NextHigh(r, high, tab, m), a, g * 2 ^ Window + high, Value(m))
         /\ Value(NextHigh(r, high, tab, m)) < Value(m)
<1>1. PICK z \in Nat : z = 2 ^ Window BY BigAssumption, PowerPositive
<1>2. PICK h \in Nat : h = high BY <1>1
<1>3. Powers(tab[h], a, h, Value(m)) BY <1>2 DEF HasPowers
<1>4. PICK u \in Nat : u = g * z OBVIOUS
<1>5. PICK s : s = SquaredWindowTimes(r, m) OBVIOUS
<1>6. Powers(s, a, u, Value(m)) BY <1>1, <1>4, <1>5, SquaredWindowTimesIs
<1>7. /\ Powers(modMultiply(s, tab[h], m), a, u + h, Value(m))
      /\ Value(modMultiply(s, tab[h], m)) < Value(m)
  BY <1>3, <1>6, PowersTimes
<1> QED BY <1>1, <1>2, <1>4, <1>5, <1>7 DEF NextHigh

(* All the digits, from the highest.                                       *)
LEMMA WithTableIs ==
  ASSUME NEW m \in Numbers, m # <<>>, NEW a \in Nat, NEW tab, HasPowers(tab, a, Value(m)),
         NEW digits, NEW n \in Nat \ {0}, Len(digits) = n,
         \A i \in 1..n : digits[i] \in 0..2 ^ Window - 1
  PROVE  /\ WithTable(tab, digits, m) \in Numbers /\ W(digits, n, Window) \in Nat
         /\ Value(WithTable(tab, digits, m)) = Pow(a, W(digits, n, Window)) % Value(m)
<1> DEFINE Is(f) == f = [i \in 0..Len(digits) |->
                           IF i = 0 THEN <<1>>
                           ELSE NextHigh(f[i - 1], digits[Len(digits) + 1 - i], tab, m)]
           r == CHOOSE f : Is(f)
           F == [q \in (1..n) \X Numbers |-> NextHigh(q[2], digits[n + 1 - q[1]], tab, m)]
<1>1. Window \in Nat /\ 2 ^ Window \in Nat BY BigAssumption, PowerPositive
<1>2. \A i \in 1..n : digits[i] \in Nat BY <1>1
<1>3. PICK M \in Nat \ {0} : M = Value(m) BY Bounds, NumbersAre
<1>4. <<1>> \in Numbers /\ Powers(<<1>>, a, 0, M) BY FirstPowers
<1>5. WithTable(tab, digits, m) = r[n] BY Zenon DEF WithTable
<1>6. \A i \in 1..n, v \in Numbers : F[<<i, v>>] = NextHigh(v, digits[n + 1 - i], tab, m) OBVIOUS
<1> HIDE DEF F
<1>7. \A i \in 1..n, v \in Numbers : F[<<i, v>>] \in Numbers
  <2> TAKE i \in 1..n, v \in Numbers
  <2>1. PICK h \in 0..2 ^ Window - 1 : h = digits[n + 1 - i]
    <3>1. n + 1 - i \in 1..n OBVIOUS
    <3> QED BY <3>1
  <2>2. PICK g \in Nat : g = Value(v) BY NumbersAre
  <2>3. modMultiply(SquaredWindowTimes(v, m), tab[h], m) \in Numbers
    <3>1. Powers(v, g, 1, M) BY <2>2, FirstPowers
    <3>2. Powers(SquaredWindowTimes(v, m), g, 1 * 2 ^ Window, M) BY <1>3, <3>1, SquaredWindowTimesIs
    <3>3. SquaredWindowTimes(v, m) \in Numbers BY <3>2 DEF Powers
    <3>4. tab[h] \in Numbers BY DEF HasPowers, Powers
    <3> QED BY <3>3, <3>4, ModMultiplyIs
  <2> QED BY <1>6, <2>1, <2>3 DEF NextHigh
<1>8. Is(r)
  <2>1. PICK f \in [0..n -> Numbers] : Recursive(f, 0..n, <<1>>, F)
    BY <1>4, <1>7, Recursion, Zenon
  <2>2. \A i \in 0..n : f[i] = IF i = 0 THEN <<1>> ELSE NextHigh(f[i - 1], digits[n + 1 - i], tab, m)
    <3> TAKE i \in 0..n
    <3>1. f[i] = IF i = 0 THEN <<1>> ELSE F[<<i, f[i - 1]>>] BY <2>1 DEF Recursive
    <3>2. i # 0 => i \in 1..n /\ i - 1 \in 0..n OBVIOUS
    <3>3. i # 0 => f[i - 1] \in Numbers BY <2>1, <3>2
    <3> QED BY <1>6, <3>1, <3>2, <3>3
  <2>3. f = [i \in 0..n |-> f[i]] BY <2>1
  <2>4. Is(f) BY <2>2, <2>3
  <2> QED BY <2>4
<1> HIDE DEF r
<1>9. r[0] = <<1>> /\ \A i \in 1..n : r[i] = NextHigh(r[i - 1], digits[n + 1 - i], tab, m)
  <2>1. 0 \in 0..n /\ \A i \in 1..n : i \in 0..n /\ i # 0 OBVIOUS
  <2> QED BY <1>8, <2>1
<1>10. PICK top \in [0..n -> Nat] : FromHighest(top, digits, n, Window) BY <1>1, <1>2, HasHighest
<1>11. top[n] = W(digits, n, Window) /\ top[n] \in Nat
  <2>1. top[n] = W(digits, n, Window) BY <1>1, <1>2, <1>10, FromHighestIs
  <2> QED BY <2>1
<1> DEFINE T == {i \in Nat : i <= n => /\ Powers(r[i], a, top[i], M)
                                       /\ i # 0 => Value(r[i]) < M}
<1>12. 0 \in T
  <2>1. top[0] = 0 BY <1>10 DEF FromHighest
  <2> QED BY <1>4, <1>9, <2>1
<1>13. ASSUME NEW i \in Nat, i \in T PROVE i + 1 \in T
  <2>1. SUFFICES ASSUME i + 1 <= n PROVE Powers(r[i + 1], a, top[i + 1], M) /\ Value(r[i + 1]) < M
    OBVIOUS
  <2>2. i + 1 \in 1..n /\ (i + 1) - 1 = i /\ i <= n /\ n + 1 - (i + 1) \in 1..n /\ i \in 0..n BY <2>1
  <2>3. PICK g \in Nat : g = top[i] /\ Powers(r[i], a, g, M) BY <1>10, <1>13, <2>2
  <2>4. PICK h \in 0..2 ^ Window - 1 : h = digits[n + 1 - (i + 1)] BY <2>2
  <2>5. top[i + 1] = g * 2 ^ Window + h BY <1>10, <2>2, <2>3, <2>4 DEF FromHighest
  <2>6. /\ Powers(NextHigh(r[i], h, tab, m), a, g * 2 ^ Window + h, M)
        /\ Value(NextHigh(r[i], h, tab, m)) < M
    BY <1>3, <2>3, NextHighIs
  <2>7. r[i + 1] = NextHigh(r[i], h, tab, m) BY <1>9, <2>2, <2>4
  <2> QED BY <2>5, <2>6, <2>7
<1> HIDE DEF T
<1>14. n \in T BY <1>12, <1>13, NatSetInduction
<1>15. Powers(r[n], a, top[n], M) /\ Value(r[n]) < M BY <1>14 DEF T
<1>16. r[n] \in Numbers /\ Value(r[n]) = Pow(a, top[n]) % M
  <2>1. PICK g \in Nat : g = top[n] BY <1>11
  <2>2. Powers(r[n], a, g, M) BY <1>15, <2>1
  <2>3. r[n] \in Numbers /\ Value(r[n]) = Pow(a, g) % M BY <1>15, <2>2, PowersExact
  <2> QED BY <2>1, <2>3
<1> QED BY <1>3, <1>5, <1>11, <1>16

(* The m-ary method.                                                       *)
LEMMA ModPowMaryIs ==
  ASSUME NEW a \in Numbers, NEW e \in Numbers, e # <<>>, NEW m \in Numbers, m # <<>>
  PROVE  /\ modPowMary(a, e, m) \in Numbers
         /\ Value(modPowMary(a, e, m)) = Remains(Value(a), Value(e), Value(m))
<1>1. WordBits \in Nat /\ Window \in Nat \ {0} /\ WordBits % Window = 0
  BY WordAssumption, BigAssumption
<1>2. PICK w \in Nat : w = Window BY <1>1
<1>3. PICK b \in Nat \ {0} : w * b = WordBits /\ b = WordBits \div Window
  <2>1. /\ WordBits \div Window \in Nat
        /\ WordBits = Window * (WordBits \div Window) + (WordBits % Window)
    BY <1>1, DivMod
  <2>2. PICK b \in Nat : b = WordBits \div Window /\ WordBits = Window * b
    <3>1. PICK b \in Nat : b = WordBits \div Window BY <2>1
    <3>2. WordBits = Window * b + 0 BY <1>1, <2>1, <3>1
    <3>3. Window * b + 0 = Window * b BY <1>1
    <3> QED BY <3>1, <3>2, <3>3
  <2>3. WordBits # 0 BY WordAssumption
  <2>4. b # 0
    <3>1. SUFFICES ASSUME b = 0 PROVE FALSE OBVIOUS
    <3>2. Window * 0 = 0 BY <1>1
    <3> QED BY <2>2, <2>3, <3>1, <3>2
  <2> QED BY <1>2, <2>2, <2>4
<1>4. PICK d : d = Digits(e, w, b) OBVIOUS
<1>5. e \in Arrays /\ Len(e) \in Nat \ {0} /\ Value(e) = V(e, Len(e)) BY NumbersAre, Bounds
<1>6. PICK n \in Nat \ {0} : n = Len(e) * b
  <2>1. PICK l \in Nat \ {0} : l = Len(e) BY <1>5
  <2>2. 1 * b <= l * b BY TimesMonotone
  <2>3. l * b \in Nat OBVIOUS
  <2> QED BY <2>1, <2>2, <2>3
<1>7. /\ Len(d) = n /\ \A i \in 1..n : d[i] \in 0..2 ^ w - 1 /\ d[i] \in Nat
      /\ W(d, n, w) = V(e, Len(e))
  <2>1. w * b = WordBits BY <1>3
  <2>2. e \in Arrays BY <1>5
  <2> QED BY <1>4, <1>6, <2>1, <2>2, DigitsIs
<1>8. HasPowers(Tab(a, m), Value(a), Value(m)) BY TabIs
<1>9. Value(a) \in Nat BY NumbersAre
<1>10. /\ WithTable(Tab(a, m), d, m) \in Numbers
       /\ Value(WithTable(Tab(a, m), d, m)) = Pow(Value(a), W(d, n, Window)) % Value(m)
  <2>1. \A i \in 1..n : d[i] \in 0..2 ^ Window - 1 BY <1>2, <1>7
  <2>2. PICK A \in Nat : A = Value(a) BY <1>9
  <2>3. PICK tab : tab = Tab(a, m) OBVIOUS
  <2> QED BY <1>7, <1>8, <2>1, <2>2, <2>3, WithTableIs
<1>11. Value(e) # 0 BY Bounds
<1>12. modPowMary(a, e, m) = WithTable(Tab(a, m), d, m) BY <1>2, <1>3, <1>4 DEF modPowMary
<1> QED BY <1>2, <1>5, <1>7, <1>10, <1>11, <1>12 DEF Remains

-----------------------------------------------------------------------------
(* Windows.                                                                *)

(* Of the exponent read so far, top, r has what the open window has not.   *)
Collecting == [r : Numbers, d : 0..Window - 1, col : Nat]
Collected(s, a, top, m) ==
    /\ s \in Collecting /\ s.col < 2 ^ s.d
    /\ \E k \in Nat : k + s.col = top /\ Powers(s.r, a, k, m)

(* A state put together.                                                   *)
LEMMA CollectedMade ==
  ASSUME NEW r \in Numbers, NEW d \in 0..Window - 1, NEW col \in Nat, col < 2 ^ d,
         NEW a, NEW m, NEW k \in Nat, Powers(r, a, k, m)
  PROVE  Collected([r |-> r, d |-> d, col |-> col], a, k + col, m)
BY DEF Collected, Collecting

(* One bit: it opens a window, joins it or closes it.                      *)
LEMMA AfterBitIs ==
  ASSUME NEW m \in Numbers, m # <<>>, NEW a \in Nat, NEW tab, HasPowers(tab, a, Value(m)),
         NEW top \in Nat, NEW s, Collected(s, a, top, Value(m)), NEW bit \in 0..1
  PROVE  /\ Collected(AfterBit(s, bit, tab, m), a, top * 2 + bit, Value(m))
         /\ Value(AfterBit(s, bit, tab, m).r) < Value(m)
<1>1. PICK M \in Nat \ {0} : M = Value(m) BY Bounds, NumbersAre
<1>2. Window \in Nat \ {0} BY BigAssumption
<1>3. PICK r \in Numbers, d \in 0..Window - 1, col \in Nat : r = s.r /\ d = s.d /\ col = s.col
  BY DEF Collected, Collecting
<1>4. PICK k \in Nat : k + col = top /\ Powers(r, a, k, M) BY <1>1, <1>3 DEF Collected
<1>5. col < 2 ^ d BY <1>3 DEF Collected
<1>6. PICK q \in Numbers : q = Square(r, m) /\ Powers(q, a, 2 * k, M) /\ Value(q) < M
  BY <1>1, <1>4, SquareIs
<1>7. PICK c \in Nat : c = 2 * col + bit OBVIOUS
<1>8. PICK j \in Nat : j = 2 * k /\ Powers(q, a, j, M)
  <2>1. 2 * k \in Nat OBVIOUS
  <2> QED BY <1>6, <2>1
<1>9. j + c = top * 2 + bit BY <1>4, <1>7, <1>8
<1>10. d \in Nat /\ d + 1 \in Nat BY <1>2
<1>11. c < 2 ^ (d + 1)
  <2>1. PICK p \in Nat : p = 2 ^ d BY <1>10, PowerPositive
  <2>2. 2 ^ (d + 1) = 2 * p BY <1>10, <2>1, PowerNext
  <2> QED BY <1>5, <1>7, <2>1, <2>2
<1>12. AfterBit(s, bit, tab, m) = NextBit(q, d, c, bit, tab, m) BY <1>3, <1>6, <1>7 DEF AfterBit
<1>13. CASE bit = 0 /\ d = 0
  <2>1. NextBit(q, d, c, bit, tab, m) = [r |-> q, d |-> 0, col |-> 0] BY <1>13 DEF NextBit
  <2>2. c = 0
    <3>1. col < 1 BY <1>5, <1>13, PowerOne
    <3> QED BY <1>7, <1>13, <3>1
  <2>3. 0 \in 0..Window - 1 /\ 0 < 2 ^ 0 BY <1>2, PowerOne
  <2>4. Collected([r |-> q, d |-> 0, col |-> 0], a, j + 0, M) BY <1>8, <2>3, CollectedMade
  <2>5. j + 0 = top * 2 + bit BY <1>9, <2>2
  <2> QED BY <1>1, <1>6, <1>12, <2>1, <2>4, <2>5
<1>14. CASE ~(bit = 0 /\ d = 0) /\ d + 1 = Window
  <2>1. NextBit(q, d, c, bit, tab, m) = [r |-> modMultiply(q, tab[c], m), d |-> 0, col |-> 0]
    BY <1>14 DEF NextBit
  <2>2. c \in 0..2 ^ Window - 1
    <3>1. PICK z \in Nat : z = 2 ^ Window BY <1>2, PowerPositive
    <3>2. c < z BY <1>11, <1>14, <3>1
    <3> QED BY <3>1, <3>2
  <2>3. Powers(tab[c], a, c, M) BY <1>1, <2>2 DEF HasPowers
  <2>4. /\ Powers(modMultiply(q, tab[c], m), a, j + c, M)
        /\ Value(modMultiply(q, tab[c], m)) < M
    BY <1>1, <1>8, <2>3, PowersTimes
  <2>5. modMultiply(q, tab[c], m) \in Numbers BY <2>4 DEF Powers
  <2>6. 0 \in 0..Window - 1 /\ 0 < 2 ^ 0 BY <1>2, PowerOne
  <2>7. PICK h \in Nat : h = j + c /\ h + 0 = h OBVIOUS
  <2>8. Collected([r |-> modMultiply(q, tab[c], m), d |-> 0, col |-> 0], a, h + 0, M)
    BY <2>4, <2>5, <2>6, <2>7, CollectedMade
  <2> QED BY <1>1, <1>9, <1>12, <2>1, <2>4, <2>7, <2>8
<1>15. CASE ~(bit = 0 /\ d = 0) /\ d + 1 # Window
  <2>1. NextBit(q, d, c, bit, tab, m) = [r |-> q, d |-> d + 1, col |-> c] BY <1>15 DEF NextBit
  <2>2. d + 1 \in 0..Window - 1 BY <1>2, <1>15
  <2>3. Collected([r |-> q, d |-> d + 1, col |-> c], a, j + c, M)
    BY <1>8, <1>11, <2>2, CollectedMade
  <2> QED BY <1>1, <1>6, <1>9, <1>12, <2>1, <2>3
<1> QED BY <1>13, <1>14, <1>15

(* The power's remainder itself.                                           *)
IsPower(r, a, n, m) == r \in Numbers /\ Value(r) = Pow(a, n) % m

(* The window that the last bit leaves open.                               *)
LEMMA ClosedIs ==
  ASSUME NEW m \in Numbers, m # <<>>, NEW a \in Nat, NEW tab, HasPowers(tab, a, Value(m)),
         NEW top \in Nat, NEW s, Collected(s, a, top, Value(m)), Value(s.r) < Value(m)
  PROVE  IsPower(Closed(s, tab, m), a, top, Value(m))
<1>1. PICK M \in Nat \ {0} : M = Value(m) BY Bounds, NumbersAre
<1>2. Window \in Nat \ {0} BY BigAssumption
<1>3. PICK r \in Numbers, d \in 0..Window - 1, col \in Nat : r = s.r /\ d = s.d /\ col = s.col
  BY DEF Collected, Collecting
<1>4. PICK k \in Nat : k + col = top /\ Powers(r, a, k, M) BY <1>1, <1>3 DEF Collected
<1>5. col < 2 ^ d BY <1>3 DEF Collected
<1>6. CASE d = 0
  <2>1. col < 1 BY <1>5, <1>6, PowerOne
  <2>2. k = top BY <1>4, <2>1
  <2>3. Value(r) = Pow(a, k) % M BY <1>1, <1>3, <1>4, PowersExact
  <2> QED BY <1>1, <1>3, <1>6, <2>2, <2>3 DEF Closed, IsPower
<1>7. CASE d # 0
  <2>1. col \in 0..2 ^ Window - 1
    <3>1. d \in Nat /\ d <= Window BY <1>2
    <3>2. 2 ^ d <= 2 ^ Window BY <1>2, <3>1, PowerGrows
    <3>3. PICK z \in Nat : z = 2 ^ Window BY <1>2, PowerPositive
    <3>4. PICK y \in Nat : y = 2 ^ d BY <3>1, PowerPositive
    <3> QED BY <1>5, <3>2, <3>3, <3>4
  <2>2. Powers(tab[col], a, col, M) BY <1>1, <2>1 DEF HasPowers
  <2>3. /\ Powers(modMultiply(r, tab[col], m), a, k + col, M)
        /\ Value(modMultiply(r, tab[col], m)) = Pow(a, k + col) % M
    BY <1>1, <1>4, <2>2, PowersTimes
  <2> QED BY <1>1, <1>3, <1>4, <1>7, <2>3 DEF Closed, Powers, IsPower
<1> QED BY <1>6, <1>7

(* All the bits.                                                           *)
LEMMA WindowsIs ==
  ASSUME NEW m \in Numbers, m # <<>>, NEW a \in Nat, NEW tab, HasPowers(tab, a, Value(m)),
         NEW bits, NEW n \in Nat \ {0}, Len(bits) = n, \A i \in 1..n : bits[i] \in 0..1
  PROVE  /\ Windows(tab, bits, m) \in Numbers /\ W(bits, n, 1) \in Nat
         /\ Value(Windows(tab, bits, m)) = Pow(a, W(bits, n, 1)) % Value(m)
<1> DEFINE first == [r |-> <<1>>, d |-> 0, col |-> 0]
           M == Value(m)
           States == {s \in Collecting : \E top \in Nat : Collected(s, a, top, M)}
           Is(f) == f = [i \in 0..Len(bits) |->
                           IF i = 0 THEN [r |-> <<1>>, d |-> 0, col |-> 0]
                           ELSE AfterBit(f[i - 1], bits[Len(bits) + 1 - i], tab, m)]
           s == CHOOSE f : Is(f)
           F == [q \in (1..n) \X States |-> AfterBit(q[2], bits[n + 1 - q[1]], tab, m)]
<1>1. M \in Nat \ {0} BY Bounds, NumbersAre
<1>2. \A i \in 1..n : bits[i] \in Nat OBVIOUS
<1>3. Collected(first, a, 0, M) /\ first \in States
  <2>1. <<1>> \in Numbers /\ Powers(<<1>>, a, 0, M) BY <1>1, FirstPowers
  <2>2. 0 \in 0..Window - 1 /\ 0 < 2 ^ 0 BY BigAssumption, PowerOne
  <2>3. Collected(first, a, 0 + 0, M) BY <2>1, <2>2, CollectedMade
  <2>4. 0 + 0 = 0 OBVIOUS
  <2>5. Collected(first, a, 0, M) BY <2>3, <2>4
  <2> QED BY <2>5 DEF Collected
<1>4. Windows(tab, bits, m) = Closed(s[n], tab, m) BY Zenon DEF Windows
<1>5. \A i \in 1..n, v \in States : F[<<i, v>>] = AfterBit(v, bits[n + 1 - i], tab, m) OBVIOUS
<1> HIDE DEF F
<1>6. \A i \in 1..n, v \in States : F[<<i, v>>] \in States
  <2> TAKE i \in 1..n, v \in States
  <2>1. PICK bit \in 0..1 : bit = bits[n + 1 - i]
    <3>1. n + 1 - i \in 1..n OBVIOUS
    <3> QED BY <3>1
  <2>2. PICK top \in Nat : Collected(v, a, top, M) OBVIOUS
  <2>3. Collected(AfterBit(v, bit, tab, m), a, top * 2 + bit, M) BY <2>2, AfterBitIs
  <2>4. top * 2 + bit \in Nat OBVIOUS
  <2>5. AfterBit(v, bit, tab, m) \in States BY <2>3, <2>4 DEF Collected
  <2> QED BY <1>5, <2>1, <2>5
<1> HIDE DEF States
<1>7. Is(s)
  <2>1. PICK f \in [0..n -> States] : Recursive(f, 0..n, first, F)
    BY <1>3, <1>6, Recursion, Zenon
  <2>2. \A i \in 0..n : f[i] = IF i = 0 THEN first ELSE AfterBit(f[i - 1], bits[n + 1 - i], tab, m)
    <3> TAKE i \in 0..n
    <3>1. f[i] = IF i = 0 THEN first ELSE F[<<i, f[i - 1]>>] BY <2>1 DEF Recursive
    <3>2. i # 0 => i \in 1..n /\ i - 1 \in 0..n OBVIOUS
    <3>3. i # 0 => f[i - 1] \in States BY <2>1, <3>2
    <3> QED BY <1>5, <3>1, <3>2, <3>3
  <2>3. f = [i \in 0..n |-> f[i]] BY <2>1
  <2>4. Is(f) BY <2>2, <2>3
  <2> QED BY <2>4
<1> HIDE DEF s
<1>8. s[0] = first /\ \A i \in 1..n : s[i] = AfterBit(s[i - 1], bits[n + 1 - i], tab, m)
  <2>1. 0 \in 0..n /\ \A i \in 1..n : i \in 0..n /\ i # 0 OBVIOUS
  <2> QED BY <1>7, <2>1
<1> HIDE DEF first
<1>9. PICK top \in [0..n -> Nat] : FromHighest(top, bits, n, 1) BY <1>2, HasHighest
<1>10. top[n] = W(bits, n, 1) /\ top[n] \in Nat
  <2>1. top[n] = W(bits, n, 1) BY <1>2, <1>9, FromHighestIs
  <2> QED BY <2>1
<1> DEFINE T == {i \in Nat : i <= n => /\ Collected(s[i], a, top[i], M)
                                       /\ i # 0 => Value(s[i].r) < M}
<1>11. 0 \in T
  <2>1. top[0] = 0 BY <1>9 DEF FromHighest
  <2> QED BY <1>3, <1>8, <2>1
<1>12. ASSUME NEW i \in Nat, i \in T PROVE i + 1 \in T
  <2>1. SUFFICES ASSUME i + 1 <= n
                 PROVE  Collected(s[i + 1], a, top[i + 1], M) /\ Value(s[i + 1].r) < M
    OBVIOUS
  <2>2. i + 1 \in 1..n /\ (i + 1) - 1 = i /\ i <= n /\ n + 1 - (i + 1) \in 1..n /\ i \in 0..n BY <2>1
  <2>3. PICK g \in Nat : g = top[i] /\ Collected(s[i], a, g, M) BY <1>9, <1>12, <2>2
  <2>4. PICK bit \in 0..1 : bit = bits[n + 1 - (i + 1)] BY <2>2
  <2>5. top[i + 1] = g * 2 + bit
    <3>1. top[i + 1] = g * 2 ^ 1 + bit BY <1>9, <2>2, <2>3, <2>4 DEF FromHighest
    <3> QED BY <3>1, PowerOne
  <2>6. /\ Collected(AfterBit(s[i], bit, tab, m), a, g * 2 + bit, M)
        /\ Value(AfterBit(s[i], bit, tab, m).r) < M
    BY <2>3, AfterBitIs
  <2>7. s[i + 1] = AfterBit(s[i], bit, tab, m) BY <1>8, <2>2, <2>4
  <2> QED BY <2>5, <2>6, <2>7
<1> HIDE DEF T
<1>13. n \in T BY <1>11, <1>12, NatSetInduction
<1>14. PICK g \in Nat : g = top[n] BY <1>10
<1>15. Collected(s[n], a, g, M) /\ Value(s[n].r) < M BY <1>13, <1>14 DEF T
<1>16. /\ Closed(s[n], tab, m) \in Numbers
       /\ Value(Closed(s[n], tab, m)) = Pow(a, g) % M
  <2>1. PICK q : q = s[n] OBVIOUS
  <2>2. Collected(q, a, g, Value(m)) /\ Value(q.r) < Value(m) BY <1>15, <2>1
  <2>3. IsPower(Closed(q, tab, m), a, g, Value(m))
    BY ONLY m \in Numbers, m # <<>>, a \in Nat, g \in Nat, HasPowers(tab, a, Value(m)), <2>2, ClosedIs
  <2> QED BY <2>1, <2>3 DEF IsPower
<1> QED BY <1>4, <1>10, <1>14, <1>16

(* The method of windows.                                                  *)
LEMMA ModPowCLNWIs ==
  ASSUME NEW a \in Numbers, NEW e \in Numbers, e # <<>>, NEW m \in Numbers, m # <<>>
  PROVE  /\ modPowCLNW(a, e, m) \in Numbers
         /\ Value(modPowCLNW(a, e, m)) = Remains(Value(a), Value(e), Value(m))
<1>1. PICK bits : bits = Bits(e) OBVIOUS
<1>2. PICK n \in Nat : /\ Len(bits) = n /\ W(bits, n, 1) = Value(e) /\ n # 0
                       /\ \A i \in 1..n : bits[i] \in 0..1 /\ bits[i] \in Nat
  BY <1>1, BitsAre
<1>3. PICK A \in Nat : A = Value(a) BY NumbersAre
<1>4. PICK tab : tab = Tab(a, m) OBVIOUS
<1>5. HasPowers(tab, A, Value(m)) BY <1>3, <1>4, TabIs
<1>6. n \in Nat \ {0} /\ \A i \in 1..n : bits[i] \in 0..1 BY <1>2
<1>7. /\ Windows(tab, bits, m) \in Numbers
      /\ Value(Windows(tab, bits, m)) = Pow(A, W(bits, n, 1)) % Value(m)
  BY <1>2, <1>5, <1>6, WindowsIs
<1>8. modPowCLNW(a, e, m) = Windows(tab, bits, m) BY <1>1, <1>4 DEF modPowCLNW
<1>9. Value(e) # 0 BY Bounds
<1> QED BY <1>2, <1>3, <1>7, <1>8, <1>9 DEF Remains

-----------------------------------------------------------------------------
(* Montgomery's method.                                                    *)

(* c undoes the factor z modulo m, and q, which montgomeryCalculateNprim   *)
(* finds, is its witness.                                                  *)
Inverts(c, q, m, z) == z * c = q * m + 1

Folds(s, y, m, z, t, c, h) == s = z * y /\ y + h * m = t * c /\ s < 2 * (m * z)

(* Added up, the product's low k bits are 0.                               *)
LEMMA FoldIs ==
  ASSUME NEW m \in Nat \ {0}, NEW z \in Nat \ {0}, NEW c \in Nat, NEW q \in Nat, Inverts(c, q, m, z),
         NEW t \in Nat, t < m * z, NEW g \in 0..z - 1, NEW h \in Nat, t * q = h * z + g
  PROVE  \E y \in Nat : Folds(g * m + t, y, m, z, t, c, h)
<1>1. g * m + t = z * (t * c - h * m)
  <2>1. g = t * q - h * z OBVIOUS
  <2>2. g * m + t = t * (q * m + 1) - (h * z) * m BY <2>1
  <2>3. q * m + 1 = z * c BY DEF Inverts
  <2>4. t * (z * c) - (h * z) * m = z * (t * c - h * m) OBVIOUS
  <2> QED BY <2>2, <2>3, <2>4
<1>2. PICK y \in Int : y = t * c - h * m OBVIOUS
<1>3. PICK s \in Nat : s = g * m + t
  <2>1. g * m \in Nat OBVIOUS
  <2> QED BY <2>1
<1>4. s = z * y BY <1>1, <1>2, <1>3
<1>5. y >= 0
  <2>1. SUFFICES ASSUME y <= -1 PROVE FALSE OBVIOUS
  <2>2. PICK x1 \in Nat : x1 = -y BY <2>1
  <2>3. 1 * z <= x1 * z BY <2>1, <2>2, TimesMonotone
  <2>4. z * y = -(x1 * z) BY <2>2
  <2>5. x1 * z \in Nat OBVIOUS
  <2> QED BY <1>3, <1>4, <2>3, <2>4, <2>5
<1>6. s < 2 * (m * z)
  <2>1. (g + 1) * m <= z * m
    <3>1. g + 1 \in Nat /\ g + 1 <= z OBVIOUS
    <3> QED BY <3>1, TimesMonotone
  <2>2. (g + 1) * m = g * m + m /\ z * m = m * z /\ g * m \in Nat /\ m * z \in Nat OBVIOUS
  <2> QED BY <1>3, <2>1, <2>2
<1>7. y + h * m = t * c BY <1>2
<1> QED BY <1>3, <1>4, <1>5, <1>6, <1>7 DEF Folds

(* Without them it is the product without the factor, less than twice n.   *)
LEMMA FoldQuotient ==
  ASSUME NEW m \in Nat \ {0}, NEW z \in Nat \ {0}, NEW s \in Nat, NEW y \in Nat,
         NEW t \in Nat, NEW c \in Nat, NEW h \in Nat, Folds(s, y, m, z, t, c, h)
  PROVE  s \div z = y /\ y < 2 * m /\ Same(y, t * c, m)
<1>1. s = z * y /\ y + h * m = t * c /\ s < 2 * (m * z) BY DEF Folds
<1>2. y = s \div z
  <2>1. y * z + 0 = s /\ 0 \in 0..z - 1 BY <1>1
  <2> QED BY <2>1, EuclidOnce
<1>3. y < 2 * m
  <2>1. SUFFICES ASSUME 2 * m <= y PROVE FALSE OBVIOUS
  <2>2. (2 * m) * z <= y * z BY <2>1, TimesMonotone
  <2>3. (2 * m) * z = 2 * (m * z) /\ y * z = z * y /\ y * z \in Nat /\ m * z \in Nat OBVIOUS
  <2> QED BY <1>1, <2>2, <2>3
<1>4. (h * m + y) % m = y % m BY ModOfMultiple
<1>5. h * m + y = t * c BY <1>1
<1> QED BY <1>2, <1>3, <1>4, <1>5 DEF Same

(* One subtraction brings it below n.                                      *)
LEMMA BelowOnce ==
  ASSUME NEW n \in Numbers, n # <<>>, NEW u \in Numbers, Value(u) < 2 * Value(n)
  PROVE  /\ Below(n, u) \in Numbers /\ Value(Below(n, u)) < Value(n)
         /\ Same(Value(Below(n, u)), Value(u), Value(n))
<1>1. PICK m \in Nat \ {0} : m = Value(n) BY Bounds, NumbersAre
<1>2. PICK y \in Nat : y = Value(u) BY NumbersAre
<1>3. isLess(u, n) <=> y < m BY <1>1, <1>2, IsLessIs
<1>4. CASE y < m
  <2>1. Below(n, u) = u BY <1>3, <1>4 DEF Below
  <2> QED BY <1>1, <1>2, <1>4, <2>1 DEF Same
<1>5. CASE ~(y < m)
  <2>1. Below(n, u) = subtract(u, n) BY <1>3, <1>5 DEF Below
  <2>2. subtract(u, n) \in Numbers /\ Value(subtract(u, n)) = y - m BY <1>1, <1>2, <1>5, SubtractIs
  <2>3. PICK d \in Nat : d = y - m BY <1>5
  <2>4. (1 * m + d) % m = d % m BY ModOfMultiple
  <2>5. 1 * m + d = y BY <2>3
  <2>6. d < m BY <1>1, <1>2, <2>3
  <2> QED BY <1>1, <1>2, <2>1, <2>2, <2>3, <2>4, <2>5, <2>6 DEF Same
<1> QED BY <1>4, <1>5

(* Montgomery's reduction of t.                                            *)
LEMMA ReducedIs ==
  ASSUME NEW n \in Numbers, n # <<>>, NEW nPrim \in Numbers, NEW k \in Nat, NEW z \in Nat, z = 2 ^ k,
         NEW c \in Nat, Inverts(c, Value(nPrim), Value(n), z),
         NEW t \in Numbers, NEW g \in Nat, g = Value(t), g < Value(n) * z
  PROVE  /\ Reduced(t, n, nPrim, k) \in Numbers /\ Value(Reduced(t, n, nPrim, k)) < Value(n)
         /\ Same(Value(Reduced(t, n, nPrim, k)), g * c, Value(n))
<1>1. PICK m \in Nat \ {0} : m = Value(n) BY Bounds, NumbersAre
<1>2. PICK q \in Nat : q = Value(nPrim) BY NumbersAre
<1>3. z \in Nat \ {0} BY PowerPositive
<1>4. PICK p \in Numbers : p = multiply(t, nPrim) /\ Value(p) = g * q BY <1>2, MultiplyIs
<1>5. PICK e \in Numbers : e = keepOnly(p, k) /\ Value(e) = Value(p) % z BY <1>4, KeepOnlyIs
<1>6. PICK h \in Nat, r \in 0..z - 1 : r = Value(e) /\ g * q = h * z + r
  <2>1. PICK v \in Nat : v = g * q OBVIOUS
  <2>2. PICK h \in Nat, r \in 0..z - 1 : r = v % z /\ v = h * z + r BY <1>3, ModSplit
  <2> QED BY <1>4, <1>5, <2>1, <2>2
<1>7. PICK f \in Numbers : f = multiply(e, n) /\ Value(f) = r * m BY <1>1, <1>6, MultiplyIs
<1>8. PICK s \in Numbers : s = add(f, t, 0) /\ Value(s) = r * m + g BY <1>7, SumOfNumbers
<1>9. PICK y \in Nat : Folds(r * m + g, y, m, z, g, c, h) BY <1>1, <1>2, <1>3, <1>6, FoldIs
<1>10. PICK S \in Nat : S = Value(s) BY NumbersAre
<1>11. Folds(S, y, m, z, g, c, h) BY <1>8, <1>9, <1>10
<1>12. S \div z = y /\ y < 2 * m /\ Same(y, g * c, m) BY <1>3, <1>11, FoldQuotient
<1>13. PICK u \in Numbers : u = shiftRight(s, k) /\ Value(u) = y BY <1>10, <1>12, ShiftRightIs
<1>14. /\ Below(n, u) \in Numbers /\ Value(Below(n, u)) < m
       /\ Same(Value(Below(n, u)), y, m)
  BY <1>1, <1>12, <1>13, BelowOnce
<1>15. Reduced(t, n, nPrim, k) = Below(n, u)
  BY <1>4, <1>5, <1>7, <1>8, <1>13 DEF Reduced
<1> QED BY <1>1, <1>12, <1>14, <1>15 DEF Same

(* What Montgomery's method works with: n and its inverses modulo z = 2^k. *)
Ready(n, nPrim, k, z, c) ==
    /\ n \in Numbers /\ n # <<>> /\ nPrim \in Numbers /\ k \in Nat /\ z = 2 ^ k /\ z \in Nat \ {0}
    /\ Value(n) <= z /\ c \in Nat /\ Inverts(c, Value(nPrim), Value(n), z)

(* Montgomery's product leaves one factor z of the two.                    *)
LEMMA MontgomeryProductIs ==
  ASSUME NEW n, NEW nPrim, NEW k, NEW z, NEW c, Ready(n, nPrim, k, z, c),
         NEW a \in Numbers, NEW b \in Numbers, NEW g \in Nat, g = Value(a) * Value(b),
         g < Value(n) * z
  PROVE  LET p == montgomeryProduct(a, b, n, nPrim, k)
         IN  p \in Numbers /\ Value(p) < Value(n) /\ Same(Value(p), g * c, Value(n))
<1>1. PICK t \in Numbers : t = multiply(a, b) /\ Value(t) = g BY MultiplyIs
<1>2. montgomeryProduct(a, b, n, nPrim, k) = Reduced(t, n, nPrim, k)
  <2>1. {Reduced(u, n, nPrim, k) : u \in {t}} = {Reduced(t, n, nPrim, k)} OBVIOUS
  <2>2. montgomeryProduct(a, b, n, nPrim, k)
          = CHOOSE r \in {Reduced(u, n, nPrim, k) : u \in {t}} : TRUE
    BY <1>1 DEF montgomeryProduct, With
  <2> QED BY <2>1, <2>2
<1>3. /\ Reduced(t, n, nPrim, k) \in Numbers /\ Value(Reduced(t, n, nPrim, k)) < Value(n)
      /\ Same(Value(Reduced(t, n, nPrim, k)), g * c, Value(n))
  <2>1. /\ n \in Numbers /\ n # <<>> /\ nPrim \in Numbers /\ k \in Nat /\ z = 2 ^ k /\ z \in Nat
        /\ c \in Nat /\ Inverts(c, Value(nPrim), Value(n), z)
    BY DEF Ready
  <2>2. g = Value(t) BY <1>1
  <2> QED BY <2>1, <2>2, ReducedIs
<1> QED BY <1>2, <1>3

(* c takes z away.                                                         *)
LEMMA InverseIsOne ==
  ASSUME NEW m \in Nat \ {0}, NEW z \in Nat, NEW c \in Nat, NEW q \in Nat, Inverts(c, q, m, z)
  PROVE  Same(z * c, 1, m)
<1>1. z * c = q * m + 1 BY DEF Inverts
<1>2. (q * m + 1) % m = 1 % m BY ModOfMultiple
<1> QED BY <1>1, <1>2 DEF Same

(* Montgomery's form of a to the g: times z.                               *)
Formed(s, a, g, n, z) ==
    s \in Numbers /\ Value(s) < Value(n) /\ Same(Value(s), Pow(a, g) * z, Value(n))

(* The product of two powers in the form is a power in the form.           *)
LEMMA FormedTimes ==
  ASSUME NEW n, NEW nPrim, NEW k, NEW z, NEW c, Ready(n, nPrim, k, z, c),
         NEW a \in Nat, NEW g \in Nat, NEW h \in Nat, NEW r, NEW s,
         Formed(r, a, g, n, z), Formed(s, a, h, n, z)
  PROVE  Formed(montgomeryProduct(r, s, n, nPrim, k), a, g + h, n, z)
<1>1. PICK m \in Nat \ {0} : m = Value(n) BY Bounds, NumbersAre DEF Ready
<1>2. /\ z \in Nat \ {0} /\ z \in Nat /\ m <= z /\ c \in Nat /\ nPrim \in Numbers
      /\ Inverts(c, Value(nPrim), m, z)
  BY <1>1 DEF Ready
<1>3. Same(z * c, 1, m)
  <2>1. Value(nPrim) \in Nat BY <1>2, NumbersAre
  <2> QED BY <1>1, <1>2, <2>1, InverseIsOne
<1>4. PICK p \in Nat : p = Pow(a, g) BY PowNat
<1>5. PICK q \in Nat : q = Pow(a, h) BY PowNat
<1>6. r \in Numbers /\ s \in Numbers BY DEF Formed
<1>7. PICK x1 \in Nat, y1 \in Nat : /\ x1 = Value(r) /\ y1 = Value(s) /\ x1 < m /\ y1 < m
                                    /\ Same(x1, p * z, m) /\ Same(y1, q * z, m)
  BY <1>1, <1>4, <1>5, <1>6, NumbersAre DEF Formed
<1>8. PICK w \in Nat : w = x1 * y1 OBVIOUS
<1>9. w < m * z
  <2>1. x1 * y1 <= m * y1 BY <1>7, TimesMonotone
  <2>2. (y1 + 1) * m <= z * m
    <3>1. y1 + 1 \in Nat /\ y1 + 1 <= z BY <1>2, <1>7
    <3> QED BY <1>2, <3>1, TimesMonotone
  <2>3. (y1 + 1) * m = m * y1 + m /\ z * m = m * z /\ m * y1 \in Nat /\ m * z \in Nat BY <1>2
  <2> QED BY <1>8, <2>1, <2>2, <2>3
<1>10. PICK u : u = montgomeryProduct(r, s, n, nPrim, k) OBVIOUS
<1>11. u \in Numbers /\ Value(u) < m /\ Same(Value(u), w * c, m)
  <2>1. w = Value(r) * Value(s) /\ w < Value(n) * z BY <1>1, <1>7, <1>8, <1>9
  <2> QED BY <1>1, <1>6, <1>10, <2>1, MontgomeryProductIs
<1>12. Same(w * c, (p * q) * z, m)
  <2>1. PICK e \in Nat, f \in Nat : e = p * z /\ f = q * z BY <1>2
  <2>2. Same(x1 * y1, e * f, m) BY <1>7, <2>1, SameTimes
  <2>3. PICK v \in Nat : v = e * f OBVIOUS
  <2>4. Same(w, v, m) BY <1>8, <2>2, <2>3
  <2>5. Same(c, c, m) BY DEF Same
  <2>6. Same(w * c, v * c, m) BY <1>2, <2>4, <2>5, SameTimes
  <2>7. PICK b \in Nat, o \in Nat : b = (p * q) * z /\ o = z * c BY <1>2
  <2>8. v * c = b * o
    <3>1. ((p * z) * (q * z)) * c = ((p * q) * z) * (z * c) BY <1>2
    <3> QED BY <2>1, <2>3, <2>7, <3>1
  <2>9. Same(b * o, b * 1, m)
    <3>1. Same(b, b, m) BY DEF Same
    <3>2. Same(o, 1, m) BY <1>3, <2>7
    <3> QED BY <3>1, <3>2, SameTimes
  <2>10. b * 1 = b OBVIOUS
  <2> QED BY <2>6, <2>7, <2>8, <2>9, <2>10 DEF Same
<1>13. Pow(a, g + h) = p * q BY <1>4, <1>5, PowSum
<1> QED BY <1>1, <1>10, <1>11, <1>12, <1>13 DEF Formed, Same

(* The last product, with 1, leaves the form.                              *)
LEMMA FormLeft ==
  ASSUME NEW n, NEW nPrim, NEW k, NEW z, NEW c, Ready(n, nPrim, k, z, c),
         NEW a \in Nat, NEW g \in Nat, NEW s, Formed(s, a, g, n, z)
  PROVE  LET p == montgomeryProduct(s, <<1>>, n, nPrim, k)
         IN  p \in Numbers /\ Value(p) = Pow(a, g) % Value(n)
<1>1. PICK m \in Nat \ {0} : m = Value(n) BY Bounds, NumbersAre DEF Ready
<1>2. /\ z \in Nat \ {0} /\ z \in Nat /\ m <= z /\ c \in Nat /\ nPrim \in Numbers
      /\ Inverts(c, Value(nPrim), m, z)
  BY <1>1 DEF Ready
<1>3. Same(z * c, 1, m)
  <2>1. Value(nPrim) \in Nat BY <1>2, NumbersAre
  <2> QED BY <1>1, <1>2, <2>1, InverseIsOne
<1>4. PICK p \in Nat : p = Pow(a, g) BY PowNat
<1>5. s \in Numbers BY DEF Formed
<1>6. PICK w \in Nat : w = Value(s) /\ w < m /\ Same(w, p * z, m)
  BY <1>1, <1>4, <1>5, NumbersAre DEF Formed
<1>7. <<1>> \in Numbers /\ Value(<<1>>) = 1
  <2>1. 1 \in 0..Base - 1 BY BaseIs
  <2> QED BY <2>1, OneWord
<1>8. w = Value(s) * Value(<<1>>) /\ w < m * z
  <2>1. 1 * m <= z * m BY <1>2, TimesMonotone
  <2>2. z * m = m * z BY <1>2
  <2>3. w * 1 = w OBVIOUS
  <2> QED BY <1>2, <1>6, <1>7, <2>1, <2>2, <2>3
<1>9. PICK u : u = montgomeryProduct(s, <<1>>, n, nPrim, k) OBVIOUS
<1>10. u \in Numbers /\ Value(u) < m /\ Same(Value(u), w * c, m)
  <2>1. w < Value(n) * z BY <1>1, <1>8
  <2>2. PICK one \in Numbers : one = <<1>> BY <1>7
  <2>3. w = Value(s) * Value(one) BY <1>8, <2>2
  <2>4. u = montgomeryProduct(s, one, n, nPrim, k) BY <1>9, <2>2
  <2> QED BY <1>1, <1>5, <2>1, <2>3, <2>4, MontgomeryProductIs
<1>11. Same(w * c, p, m)
  <2>1. PICK e \in Nat : e = p * z BY <1>2
  <2>2. Same(c, c, m) BY DEF Same
  <2>3. Same(w * c, e * c, m) BY <1>2, <1>6, <2>1, <2>2, SameTimes
  <2>4. PICK o \in Nat : o = z * c BY <1>2
  <2>5. e * c = p * o
    <3>1. (p * z) * c = p * (z * c) BY <1>2
    <3> QED BY <2>1, <2>4, <3>1
  <2>6. Same(p * o, p * 1, m)
    <3>1. Same(p, p, m) BY DEF Same
    <3>2. Same(o, 1, m) BY <1>3, <2>4
    <3> QED BY <3>1, <3>2, SameTimes
  <2>7. p * 1 = p OBVIOUS
  <2> QED BY <2>3, <2>5, <2>6, <2>7 DEF Same
<1>12. Value(u) = p % m
  <2>1. PICK v \in Nat : v = Value(u) BY <1>10, NumbersAre
  <2>2. v % m = v BY <1>10, <2>1, ModIs
  <2> QED BY <1>10, <1>11, <2>1, <2>2 DEF Same
<1> QED BY <1>1, <1>4, <1>9, <1>10, <1>12

(* One bit of the exponent.                                                *)
LEMMA NextInFormIs ==
  ASSUME NEW n, NEW nPrim, NEW k, NEW z, NEW c, Ready(n, nPrim, k, z, c),
         NEW a \in Nat, NEW aHat, Formed(aHat, a, 1, n, z),
         NEW g \in Nat, NEW s, Formed(s, a, g, n, z), NEW bit \in 0..1
  PROVE  Formed(NextInForm(aHat, s, bit, n, nPrim, k), a, g * 2 + bit, n, z)
<1>1. PICK u : u = montgomeryProduct(s, s, n, nPrim, k) OBVIOUS
<1>2. PICK h \in Nat : h = g + g OBVIOUS
<1>3. Formed(u, a, h, n, z) BY <1>1, <1>2, FormedTimes
<1>4. NextInForm(aHat, s, bit, n, nPrim, k) = TimesBit(aHat, u, bit, n, nPrim, k)
  BY <1>1 DEF NextInForm
<1>5. CASE bit = 0
  <2>1. TimesBit(aHat, u, bit, n, nPrim, k) = u BY <1>5 DEF TimesBit
  <2>2. h = g * 2 + bit BY <1>2, <1>5
  <2> QED BY <1>3, <1>4, <2>1, <2>2
<1>6. CASE bit = 1
  <2>1. TimesBit(aHat, u, bit, n, nPrim, k) = montgomeryProduct(aHat, u, n, nPrim, k)
    BY <1>6 DEF TimesBit
  <2>2. Formed(montgomeryProduct(aHat, u, n, nPrim, k), a, 1 + h, n, z) BY <1>3, FormedTimes
  <2>3. 1 + h = g * 2 + bit BY <1>2, <1>6
  <2> QED BY <1>4, <2>1, <2>2, <2>3
<1> QED BY <1>5, <1>6

(* All the bits.                                                           *)
LEMMA InFormIs ==
  ASSUME NEW n, NEW nPrim, NEW k, NEW z, NEW c, Ready(n, nPrim, k, z, c),
         NEW a \in Nat, NEW aHat, Formed(aHat, a, 1, n, z), NEW one, Formed(one, a, 0, n, z),
         NEW bits, NEW N \in Nat, Len(bits) = N, \A i \in 1..N : bits[i] \in 0..1
  PROVE  /\ W(bits, N, 1) \in Nat
         /\ Formed(InForm(aHat, one, bits, n, nPrim, k), a, W(bits, N, 1), n, z)
<1> DEFINE States == {v \in Numbers : \E g \in Nat : Formed(v, a, g, n, z)}
           Is(f) == f = [i \in 0..Len(bits) |->
                           IF i = 0 THEN one
                           ELSE NextInForm(aHat, f[i - 1], bits[Len(bits) + 1 - i], n, nPrim, k)]
           s == CHOOSE f : Is(f)
           F == [q \in (1..N) \X States |->
                   NextInForm(aHat, q[2], bits[N + 1 - q[1]], n, nPrim, k)]
<1>1. \A i \in 1..N : bits[i] \in Nat OBVIOUS
<1>2. one \in States BY DEF Formed
<1>3. InForm(aHat, one, bits, n, nPrim, k) = s[N] BY Zenon DEF InForm
<1>4. \A i \in 1..N, v \in States :
         F[<<i, v>>] = NextInForm(aHat, v, bits[N + 1 - i], n, nPrim, k) OBVIOUS
<1> HIDE DEF F
<1>5. \A i \in 1..N, v \in States : F[<<i, v>>] \in States
  <2> TAKE i \in 1..N, v \in States
  <2>1. PICK bit \in 0..1 : bit = bits[N + 1 - i]
    <3>1. N + 1 - i \in 1..N OBVIOUS
    <3> QED BY <3>1
  <2>2. PICK g \in Nat : Formed(v, a, g, n, z) OBVIOUS
  <2>3. PICK h \in Nat : h = g * 2 + bit OBVIOUS
  <2>4. Formed(NextInForm(aHat, v, bit, n, nPrim, k), a, h, n, z) BY <2>2, <2>3, NextInFormIs
  <2>5. NextInForm(aHat, v, bit, n, nPrim, k) \in States BY <2>4 DEF Formed
  <2> QED BY <1>4, <2>1, <2>5
<1> HIDE DEF States
<1>6. Is(s)
  <2>1. PICK f \in [0..N -> States] : Recursive(f, 0..N, one, F)
    BY <1>2, <1>5, Recursion, Zenon
  <2>2. \A i \in 0..N : f[i] = IF i = 0 THEN one
                        ELSE NextInForm(aHat, f[i - 1], bits[N + 1 - i], n, nPrim, k)
    <3> TAKE i \in 0..N
    <3>1. f[i] = IF i = 0 THEN one ELSE F[<<i, f[i - 1]>>] BY <2>1 DEF Recursive
    <3>2. i # 0 => i \in 1..N /\ i - 1 \in 0..N OBVIOUS
    <3>3. i # 0 => f[i - 1] \in States BY <2>1, <3>2
    <3> QED BY <1>4, <3>1, <3>2, <3>3
  <2>3. f = [i \in 0..N |-> f[i]] BY <2>1
  <2>4. Is(f) BY <2>2, <2>3
  <2> QED BY <2>4
<1> HIDE DEF s
<1>7. s[0] = one /\ \A i \in 1..N : s[i] = NextInForm(aHat, s[i - 1], bits[N + 1 - i], n, nPrim, k)
  <2>1. 0 \in 0..N /\ \A i \in 1..N : i \in 0..N /\ i # 0 OBVIOUS
  <2> QED BY <1>6, <2>1
<1>8. PICK top \in [0..N -> Nat] : FromHighest(top, bits, N, 1) BY <1>1, HasHighest
<1>9. top[N] = W(bits, N, 1) /\ top[N] \in Nat
  <2>1. top[N] = W(bits, N, 1) BY <1>1, <1>8, FromHighestIs
  <2> QED BY <2>1
<1> DEFINE T == {i \in Nat : i <= N => Formed(s[i], a, top[i], n, z)}
<1>10. 0 \in T
  <2>1. top[0] = 0 BY <1>8 DEF FromHighest
  <2> QED BY <1>7, <2>1
<1>11. ASSUME NEW i \in Nat, i \in T PROVE i + 1 \in T
  <2>1. SUFFICES ASSUME i + 1 <= N PROVE Formed(s[i + 1], a, top[i + 1], n, z) OBVIOUS
  <2>2. i + 1 \in 1..N /\ (i + 1) - 1 = i /\ i <= N /\ N + 1 - (i + 1) \in 1..N /\ i \in 0..N BY <2>1
  <2>3. PICK g \in Nat : g = top[i] /\ Formed(s[i], a, g, n, z) BY <1>8, <1>11, <2>2
  <2>4. PICK bit \in 0..1 : bit = bits[N + 1 - (i + 1)] BY <2>2
  <2>5. top[i + 1] = g * 2 + bit
    <3>1. top[i + 1] = g * 2 ^ 1 + bit BY <1>8, <2>2, <2>3, <2>4 DEF FromHighest
    <3> QED BY <3>1, PowerOne
  <2>6. Formed(NextInForm(aHat, s[i], bit, n, nPrim, k), a, g * 2 + bit, n, z)
    BY <2>3, NextInFormIs
  <2>7. s[i + 1] = NextInForm(aHat, s[i], bit, n, nPrim, k) BY <1>7, <2>2, <2>4
  <2> QED BY <2>5, <2>6, <2>7
<1> HIDE DEF T
<1>12. N \in T BY <1>10, <1>11, NatSetInduction
<1>13. Formed(s[N], a, top[N], n, z) BY <1>12 DEF T
<1> QED BY <1>3, <1>9, <1>13

(* Montgomery's method, given the inverse: the bits from the highest, in   *)
(* the form, and one product with 1 that leaves it.                        *)
THEOREM MontgomeryIs ==
  ASSUME NEW n, NEW nPrim, NEW k, NEW z, NEW c, Ready(n, nPrim, k, z, c),
         NEW a \in Numbers, NEW e \in Numbers, NEW r \in Numbers, Value(r) = z
  PROVE  /\ Montgomery(a, e, n, r, k, nPrim) \in Numbers
         /\ Value(Montgomery(a, e, n, r, k, nPrim)) = Pow(Value(a), Value(e)) % Value(n)
<1>1. n \in Numbers /\ n # <<>> /\ z \in Nat \ {0} /\ z \in Nat BY DEF Ready
<1>2. PICK m \in Nat \ {0} : m = Value(n) BY <1>1, Bounds, NumbersAre
<1>3. PICK A \in Nat : A = Value(a) BY NumbersAre
<1>4. PICK aHat : aHat = modMultiply(a, r, n) OBVIOUS
<1>5. Formed(aHat, A, 1, n, z)
  <2>1. aHat \in Numbers /\ Value(aHat) = (A * z) % m /\ Value(aHat) < m
    BY <1>1, <1>2, <1>3, <1>4, ModMultiplyIs
  <2>2. Pow(A, 0) = 1 /\ Pow(A, 0 + 1) = A * Pow(A, 0) BY PowIs
  <2>3. Pow(A, 1) = A BY <2>2
  <2>4. PICK y \in Nat : y = A * z BY <1>1
  <2>5. Same(y % m, y, m) BY SameMod
  <2> QED BY <1>2, <2>1, <2>3, <2>4, <2>5 DEF Formed
<1>6. PICK one : one = divide(r, n).rem OBVIOUS
<1>7. Formed(one, A, 0, n, z)
  <2>1. one \in Numbers /\ Value(one) = z % m /\ Value(one) < m BY <1>1, <1>2, <1>6, QuotientIs
  <2>2. Pow(A, 0) = 1 BY PowIs
  <2>3. 1 * z = z BY <1>1
  <2>4. Same(z % m, z, m) BY <1>1, SameMod
  <2> QED BY <1>2, <2>1, <2>2, <2>3, <2>4 DEF Formed
<1>8. PICK bits : bits = Bits(e) OBVIOUS
<1>9. PICK N \in Nat : /\ Len(bits) = N /\ W(bits, N, 1) = Value(e)
                       /\ \A i \in 1..N : bits[i] \in 0..1
  BY <1>8, BitsAre
<1>10. PICK s : s = InForm(aHat, one, bits, n, nPrim, k) OBVIOUS
<1>11. PICK g \in Nat : g = Value(e) BY NumbersAre
<1>12. Formed(s, A, g, n, z) BY <1>5, <1>7, <1>9, <1>10, <1>11, InFormIs
<1>13. LET p == montgomeryProduct(s, <<1>>, n, nPrim, k)
       IN  p \in Numbers /\ Value(p) = Pow(A, g) % Value(n)
  BY <1>12, FormLeft
<1>14. Montgomery(a, e, n, r, k, nPrim) = montgomeryProduct(s, <<1>>, n, nPrim, k)
  BY <1>4, <1>6, <1>8, <1>10 DEF Montgomery
<1> QED BY <1>3, <1>11, <1>13, <1>14

-----------------------------------------------------------------------------
(* The inverse.                                                            *)

(* An odd number shares no divisor with a power of 2.                      *)
LEMMA OddHalf ==
  ASSUME NEW g \in Nat, g % 2 = 1
  PROVE  \E h \in Nat : g = 2 * h + 1
<1>1. PICK q \in Nat, r \in 0..1 : r = g % 2 /\ g = q * 2 + r
  <2>1. PICK q \in Nat, r \in 0..2 - 1 : r = g % 2 /\ g = q * 2 + r BY ModSplit
  <2> QED BY <2>1
<1>2. g = 2 * q + 1 BY <1>1
<1> QED BY <1>2

(* Of a power of 2, only 1 is an odd divisor.                              *)
LEMMA OddDividesPower ==
  ASSUME NEW k \in Nat, NEW d \in Nat \ {0}, NEW h \in Nat, d = 2 * h + 1, (2 ^ k) % d = 0
  PROVE  d = 1
<1> DEFINE T == {i \in Nat : (2 ^ i) % d = 0 => d = 1}
<1>1. 0 \in T
  <2>1. SUFFICES ASSUME 1 % d = 0 PROVE d = 1 BY PowerOne
  <2>2. d <= 1 BY <2>1, DividesIs
  <2> QED BY <2>2
<1>2. ASSUME NEW i \in Nat, i \in T PROVE i + 1 \in T
  <2>1. SUFFICES ASSUME (2 ^ (i + 1)) % d = 0 PROVE d = 1 OBVIOUS
  <2>2. PICK p \in Nat : p = 2 ^ i BY PowerPositive
  <2>3. PICK e \in Nat : e = 2 * p OBVIOUS
  <2>4. e % d = 0 BY <2>1, <2>2, <2>3, PowerNext
  <2>5. PICK q \in Nat : e = q * d BY <2>4, DividesIs
  <2>6. PICK j \in Nat, s \in 0..1 : q = 2 * j + s
    <3>1. PICK j \in Nat, s \in 0..2 - 1 : s = q % 2 /\ q = j * 2 + s BY ModSplit
    <3> QED BY <3>1
  <2>7. q * d = 2 * (j * d) + s * d BY <2>6
  <2>8. s = 0
    <3>1. SUFFICES ASSUME s = 1 PROVE FALSE BY <2>6
    <3>2. PICK f \in Nat : f = j * d OBVIOUS
    <3>3. q * d = 2 * f + (2 * h + 1) BY <2>7, <3>1, <3>2
    <3> QED BY <2>3, <2>5, <3>3
  <2>9. p = j * d BY <2>3, <2>5, <2>7, <2>8
  <2>10. p % d = 0 BY <2>9, DividesIs
  <2> QED BY <1>2, <2>2, <2>10
<1> HIDE DEF T
<1>3. k \in T BY <1>1, <1>2, NatSetInduction
<1> QED BY <1>3 DEF T

(* An odd number and a power of 2 are coprime.                             *)
LEMMA OddCoprime ==
  ASSUME NEW n \in Nat, n % 2 = 1, NEW k \in Nat, NEW z, z = 2 ^ k
  PROVE  GreatestDivisor(n, z) = 1
<1> DEFINE S == {d \in 1..z : n % d = 0 /\ z % d = 0}
<1>1. z \in Nat \ {0} BY PowerPositive
<1>2. 1 \in S
  <2>1. n = n * 1 /\ z = z * 1 BY <1>1
  <2>2. n % 1 = 0 BY <2>1, DividesIs
  <2>3. z % 1 = 0 BY <1>1, <2>1, DividesIs
  <2> QED BY <1>1, <2>2, <2>3
<1>3. ASSUME NEW d \in S PROVE d = 1
  <2>1. d \in Nat \ {0} /\ n % d = 0 /\ z % d = 0 BY <1>1
  <2>2. PICK q \in Nat : n = q * d BY <2>1, DividesIs
  <2>3. PICK g \in Nat : n = 2 * g + 1 BY OddHalf
  <2>4. PICK h \in Nat, r \in 0..1 : d = 2 * h + r
    <3>1. PICK h \in Nat, r \in 0..2 - 1 : r = d % 2 /\ d = h * 2 + r BY <2>1, ModSplit
    <3> QED BY <3>1
  <2>5. r = 1
    <3>1. SUFFICES ASSUME r = 0 PROVE FALSE BY <2>4
    <3>2. d = 2 * h BY <2>4, <3>1
    <3>3. n = 2 * (q * h) BY <2>2, <3>2
    <3>4. PICK f \in Nat : f = q * h OBVIOUS
    <3> QED BY <2>3, <3>3, <3>4
  <2>6. d = 2 * h + 1 BY <2>4, <2>5
  <2>7. (2 ^ k) % d = 0 BY <2>1
  <2> QED BY <2>1, <2>6, <2>7, OddDividesPower
<1>4. S \in SUBSET (0..z) /\ S # {}
  <2>1. \A d \in S : d \in 0..z BY <1>1
  <2> QED BY <1>2, <2>1
<1> HIDE DEF S
<1>5. Max(S) \in S BY <1>1, <1>4, HasGreatest
<1>6. Max(S) = 1 BY <1>3, <1>5
<1>7. GreatestDivisor(n, z) = Max(S) BY <1>1 DEF GreatestDivisor, S
<1> QED BY <1>6, <1>7
(* From a combination that makes 1, with a coefficient of z that is not    *)
(* negative, the other is 0 or negative, and its magnitude the inverse: so *)
(* the sign that the code loses with the bytes does no harm.               *)
LEMMA InverseFound ==
  ASSUME NEW x1 \in Int, NEW y1 \in Nat, NEW m \in Nat \ {0}, NEW z \in Nat \ {0, 1},
         x1 * m + y1 * z = 1, m = 1 => z = 2
  PROVE  Magnitude(x1) \in Nat /\ \E c \in Nat : Inverts(c, Magnitude(x1), m, z)
<1>1. CASE y1 = 0
  <2>1. x1 * m = 1 BY <1>1
  <2>2. x1 > 0
    <3>1. SUFFICES ASSUME x1 <= 0 PROVE FALSE OBVIOUS
    <3>2. PICK w \in Nat : w = -x1 BY <3>1
    <3>3. x1 * m = -(w * m) /\ w * m \in Nat BY <3>2
    <3> QED BY <2>1, <3>3
  <2>3. 1 * m <= x1 * m BY <2>2, TimesMonotone
  <2>4. m = 1 /\ x1 = 1
    <3>1. m = 1 BY <2>1, <2>3
    <3> QED BY <2>1, <3>1
  <2>5. Magnitude(x1) = 1 BY <2>4 DEF Magnitude
  <2>6. z * 1 = 1 * m + 1 BY <2>4
  <2>7. Inverts(1, Magnitude(x1), m, z) BY <2>5, <2>6 DEF Inverts
  <2> QED BY <2>5, <2>7
<1>2. CASE y1 # 0
  <2>1. 1 * z <= y1 * z /\ y1 * z \in Nat BY <1>2, TimesMonotone
  <2>2. x1 < 0
    <3>1. SUFFICES ASSUME x1 >= 0 PROVE FALSE OBVIOUS
    <3>2. x1 * m \in Nat BY <3>1
    <3> QED BY <2>1, <3>2
  <2>3. PICK w \in Nat : w = -x1 /\ Magnitude(x1) = w BY <2>2 DEF Magnitude
  <2>4. x1 * m = -(w * m) /\ w * m \in Nat BY <2>3
  <2>5. z * y1 = w * m + 1
    <3>1. y1 * z = z * y1 OBVIOUS
    <3> QED BY <2>4, <3>1
  <2> QED BY <2>3, <2>5 DEF Inverts
<1> QED BY <1>1, <1>2

(* A row put together.                                                     *)
LEMMA RowOf ==
  ASSUME NEW f \in Signeds, NEW g \in Signeds, NEW h \in Signeds, NEW e, e = [r |-> f, x |-> g, y |-> h]
  PROVE  e \in Rows /\ e.r = f /\ e.x = g /\ e.y = h
BY RowsAre

(* e is d with n added to one coefficient and r taken from the other.      *)
Raised(e, d, n, r) == e = [d EXCEPT !.x = minus(@, r), !.y = plus(@, n)]
RaisedRow(e, d, m, z) ==
    /\ e \in Rows /\ e.r = d.r /\ IntOf(e.y) = IntOf(d.y) + m
    /\ Combines(d, m, z) => Combines(e, m, z)

(* The row whose coefficient of 2^k is brought up by multiples of n.       *)
LEMMA RowRaised ==
  ASSUME NEW m \in Nat \ {0}, NEW z \in Nat, NEW n \in Signeds, IntOf(n) = m,
         NEW r \in Signeds, IntOf(r) = z, NEW d \in Rows,
         NEW e, Raised(e, d, n, r)
  PROVE  RaisedRow(e, d, m, z)
<1>1. d.r \in Signeds /\ d.x \in Signeds /\ d.y \in Signeds BY RowsAre
<1>2. minus(d.x, r) \in Signeds /\ IntOf(minus(d.x, r)) = IntOf(d.x) - z BY <1>1, MinusAllIs
<1>3. plus(d.y, n) \in Signeds /\ IntOf(plus(d.y, n)) = IntOf(d.y) + m BY <1>1, PlusIs
<1>4. e = [r |-> d.r, x |-> minus(d.x, r), y |-> plus(d.y, n)] BY DEF Rows, Raised
<1>5. e \in Rows /\ e.r = d.r /\ e.x = minus(d.x, r) /\ e.y = plus(d.y, n)
  <2>1. PICK f \in Signeds, g \in Signeds, h \in Signeds :
           f = d.r /\ g = minus(d.x, r) /\ h = plus(d.y, n)
    BY <1>1, <1>2, <1>3
  <2>2. e = [r |-> f, x |-> g, y |-> h] BY <1>4, <2>1
  <2>3. e \in Rows /\ e.r = f /\ e.x = g /\ e.y = h BY ONLY f \in Signeds, g \in Signeds, h \in Signeds, <2>2, RowOf
  <2> QED BY <2>1, <2>3
<1>6. ASSUME Combines(d, m, z) PROVE Combines(e, m, z)
  <2>1. PICK p \in Int, q \in Int : p = IntOf(d.x) /\ q = IntOf(d.y) BY <1>1, SignedIs
  <2>2. IntOf(d.r) >= 0 /\ IntOf(d.r) = p * m + q * z BY <1>6, <2>1 DEF Combines
  <2>3. (p - z) * m + (q + m) * z = p * m + q * z OBVIOUS
  <2>4. IntOf(e.x) = p - z /\ IntOf(e.y) = q + m BY <1>2, <1>3, <1>5, <2>1
  <2> QED BY <1>5, <2>2, <2>3, <2>4 DEF Combines
<1> QED BY <1>2, <1>3, <1>5, <1>6 DEF RaisedRow

(* Bringing up ends, at the inverse.                                       *)
LEMMA NegatedInverseIs ==
  ASSUME NEW m \in Nat \ {0}, NEW z \in Nat \ {0, 1}, m = 1 => z = 2,
         NEW n \in Signeds, IntOf(n) = m, NEW r \in Signeds, IntOf(r) = z,
         NEW c0, Combines(c0, m, z), IntOf(c0.r) = 1,
         NEW u, u = NegatedInverse(c0, n, r)
  PROVE  u \in Numbers /\ \E c \in Nat : Inverts(c, Value(u), m, z)
<1> DEFINE S == {d \in Rows : ~isNegative(d.y)}
           next == [d \in Rows |-> [d EXCEPT !.x = minus(@, r), !.y = plus(@, n)]]
           rank == [d \in Rows |-> IF IntOf(d.y) < 0 THEN -IntOf(d.y) ELSE 0]
           last == [d \in Rows |-> d.x.array]
           F == [q \in Rows \X Numbers |-> q[2]]
           Is(f) == f = [d \in Rows |->
                           IF isNegative(d.y)
                             THEN f[[d EXCEPT !.x = minus(@, r), !.y = plus(@, n)]]
                             ELSE d.x.array]
           inverse == CHOOSE f : Is(f)
<1>1. \A d \in Rows : /\ d.r \in Signeds /\ d.x \in Signeds /\ d.y \in Signeds
                      /\ IntOf(d.y) \in Int /\ (isNegative(d.y) <=> IntOf(d.y) < 0)
                      /\ d.x.array \in Numbers
  <2> TAKE d \in Rows
  <2>1. d.r \in Signeds /\ d.x \in Signeds /\ d.y \in Signeds BY RowsAre
  <2>2. IntOf(d.y) \in Int /\ (isNegative(d.y) <=> IntOf(d.y) < 0) BY <2>1, SignedIs
  <2>3. d.x.array \in Numbers BY <2>1, SignedIs
  <2> QED BY <2>1, <2>2, <2>3
<1>2. \A d \in Rows : /\ next[d] = [d EXCEPT !.x = minus(@, r), !.y = plus(@, n)]
                      /\ rank[d] = (IF IntOf(d.y) < 0 THEN -IntOf(d.y) ELSE 0)
                      /\ last[d] = d.x.array /\ (d \in S <=> ~isNegative(d.y))
  OBVIOUS
<1>3. \A d \in Rows, v \in Numbers : F[<<d, v>>] = v OBVIOUS
<1> HIDE DEF S, next, rank, last, F
<1>4. \A d \in Rows : /\ next[d] \in Rows /\ next[d].r = d.r /\ IntOf(next[d].y) = IntOf(d.y) + m
                      /\ Combines(d, m, z) => Combines(next[d], m, z)
  <2> TAKE d \in Rows
  <2>1. PICK e : e = next[d] OBVIOUS
  <2>2. Raised(e, d, n, r) BY <1>2, <2>1 DEF Raised
  <2>3. z \in Nat OBVIOUS
  <2>4. RaisedRow(e, d, m, z) BY <2>2, <2>3, RowRaised
  <2> QED BY <2>1, <2>4 DEF RaisedRow
<1>5. \A d \in Rows : rank[d] \in Nat /\ (isNegative(d.y) => rank[next[d]] < rank[d])
  <2> TAKE d \in Rows
  <2>1. PICK y1 \in Int : y1 = IntOf(d.y) BY <1>1
  <2>2. rank[d] = (IF y1 < 0 THEN -y1 ELSE 0) BY <1>2, <2>1
  <2>3. rank[next[d]] = (IF y1 + m < 0 THEN -(y1 + m) ELSE 0)
    <3>1. PICK e \in Rows : e = next[d] /\ IntOf(e.y) = y1 + m BY <1>4, <2>1
    <3>2. rank[e] = (IF IntOf(e.y) < 0 THEN -IntOf(e.y) ELSE 0) BY <1>2
    <3> QED BY <3>1, <3>2
  <2>4. isNegative(d.y) => y1 < 0 BY <1>1, <2>1
  <2>5. y1 < 0 => (IF y1 + m < 0 THEN -(y1 + m) ELSE 0) < (IF y1 < 0 THEN -y1 ELSE 0) OBVIOUS
  <2>6. (IF y1 < 0 THEN -y1 ELSE 0) \in Nat OBVIOUS
  <2> QED BY <2>2, <2>3, <2>4, <2>5, <2>6
<1>6. Is(inverse)
  <2>1. Measured(Rows, S, next, rank) BY <1>2, <1>4, <1>5 DEF Measured
  <2>2. MadeIn(Rows, Numbers, S, last, F) BY <1>1, <1>2, <1>3 DEF MadeIn
  <2>3. Numbers # {} BY EmptyIs
  <2>4. PICK f \in [Rows -> Numbers] : Made(f, Rows, S, last, F, next)
    BY <2>1, <2>2, <2>3, MeasuredRecursion
  <2>5. \A d \in Rows : f[d] = IF isNegative(d.y)
                                 THEN f[[d EXCEPT !.x = minus(@, r), !.y = plus(@, n)]]
                                 ELSE d.x.array
    <3> TAKE d \in Rows
    <3>1. f[d] = IF d \in S THEN last[d] ELSE F[<<d, f[next[d]]>>] BY <2>4 DEF Made
    <3>2. f[next[d]] \in Numbers BY <1>4, <2>4
    <3>3. F[<<d, f[next[d]]>>] = f[next[d]] BY <1>3, <3>2
    <3>4. CASE isNegative(d.y) BY <1>2, <3>1, <3>3, <3>4
    <3>5. CASE ~isNegative(d.y) BY <1>2, <3>1, <3>5
    <3> QED BY <3>4, <3>5
  <2>6. f = [d \in Rows |-> f[d]] BY <2>4
  <2>7. Is(f) BY <2>5, <2>6, Zenon
  <2> QED BY <2>7
<1>7. u = inverse[c0] BY Zenon DEF NegatedInverse
<1> HIDE DEF inverse
<1>8. \A d \in Rows : inverse[d] = IF isNegative(d.y) THEN inverse[next[d]] ELSE d.x.array
  <2> TAKE d \in Rows
  <2>1. inverse[d] = IF isNegative(d.y)
                       THEN inverse[[d EXCEPT !.x = minus(@, r), !.y = plus(@, n)]]
                       ELSE d.x.array
    BY <1>6, Zenon
  <2> QED BY <1>2, <2>1
<1> DEFINE Found(v) == v \in Numbers /\ \E c \in Nat : Inverts(c, Value(v), m, z)
           T == {k \in Nat : \A d \in Rows : rank[d] = k /\ Combines(d, m, z) /\ IntOf(d.r) = 1
                                              => Found(inverse[d])}
<1>9. \A k \in Nat : (\A i \in 0..k - 1 : i \in T) => k \in T
  <2> TAKE k \in Nat
  <2>1. SUFFICES ASSUME \A i \in 0..k - 1 : i \in T,
                        NEW d \in Rows, rank[d] = k, Combines(d, m, z), IntOf(d.r) = 1
                 PROVE  Found(inverse[d])
    BY Zenon
  <2> HIDE DEF Found
  <2>2. CASE isNegative(d.y)
    <3>1. inverse[d] = inverse[next[d]] BY <1>8, <2>2
    <3>2. next[d] \in Rows /\ next[d].r = d.r /\ Combines(next[d], m, z) BY <1>4, <2>1
    <3>3. rank[next[d]] \in 0..k - 1 BY <1>5, <2>1, <2>2, <3>2
    <3>4. rank[next[d]] \in T BY <2>1, <3>3
    <3>5. Found(inverse[next[d]])
      <4>1. IntOf(next[d].r) = 1 BY <2>1, <3>2
      <4> QED BY <2>1, <3>2, <3>4, <4>1
    <3> QED BY <3>1, <3>5
  <2>3. CASE ~isNegative(d.y)
    <3>1. inverse[d] = d.x.array BY <1>8, <2>3
    <3>2. d.x \in Signeds /\ d.y \in Signeds BY <1>1
    <3>3. IntOf(d.x) \in Int /\ Magnitude(IntOf(d.x)) = Value(d.x.array) /\ d.x.array \in Numbers
      BY <3>2, SignedIs
    <3>4. PICK x1 \in Int, y1 \in Nat : x1 = IntOf(d.x) /\ y1 = IntOf(d.y) BY <1>1, <2>3, <3>3
    <3>5. x1 * m + y1 * z = 1 BY <2>1, <3>4 DEF Combines
    <3>6. \E c \in Nat : Inverts(c, Magnitude(x1), m, z) BY <3>5, InverseFound
    <3> QED BY <3>1, <3>3, <3>4, <3>6 DEF Found
  <2> QED BY <2>2, <2>3
<1> HIDE DEF Found
<1>10. rank[c0] \in T
  <2>1. c0 \in Rows BY DEF Combines
  <2>2. rank[c0] \in Nat BY <1>5, <2>1
  <2> HIDE DEF T
  <2> QED BY <1>9, <2>2, NatSetStrongInduction
<1>11. Found(inverse[c0])
  <2>1. c0 \in Rows BY DEF Combines
  <2> QED BY <1>10, <2>1
<1> QED BY <1>7, <1>11 DEF Found

(* montgomeryCalculateNprim gives the inverse.                             *)
LEMMA NprimIs ==
  ASSUME NEW n \in Numbers, NEW m \in Nat, m = Value(n), m % 2 = 1, NEW r \in Numbers, NEW k \in Nat,
         NEW z, z = 2 ^ k, Value(r) = z, z \in Nat \ {0, 1}, m = 1 => z = 2,
         NEW u, u = montgomeryCalculateNprim(n, r)
  PROVE  u \in Numbers /\ \E c \in Nat : Inverts(c, Value(u), m, z)
<1> DEFINE nBI == [neg |-> FALSE, array |-> n]
           rBI == [neg |-> FALSE, array |-> r]
<1>1. m # 0
  <2>1. 0 % 2 = 0
    <3>1. 0 = 0 * 2 OBVIOUS
    <3> QED BY <3>1, DividesIs
  <2> QED BY <2>1
<1>2. nBI \in Signeds /\ IntOf(nBI) = m
  <2>1. m \in Int /\ m >= 0 OBVIOUS
  <2> QED BY <2>1, MadeIs
<1>3. rBI \in Signeds /\ IntOf(rBI) = z
  <2>1. z \in Int /\ z >= 0 OBVIOUS
  <2> QED BY <2>1, MadeIs
<1>4. u = NegatedInverse(extendedGCD(nBI, rBI), nBI, rBI)
  BY Zenon DEF montgomeryCalculateNprim
<1> HIDE DEF nBI, rBI
<1>5. ~isNegative(nBI) /\ ~isNegative(rBI)
  <2>1. isNegative(nBI) <=> IntOf(nBI) < 0 BY <1>2, SignedIs
  <2>2. isNegative(rBI) <=> IntOf(rBI) < 0 BY <1>3, SignedIs
  <2> QED BY <1>2, <1>3, <2>1, <2>2
<1>6. PICK c0 : c0 = extendedGCD(nBI, rBI) OBVIOUS
<1>7. Combines(c0, m, z) /\ IntOf(c0.r) = GreatestDivisor(m, z)
  BY <1>2, <1>3, <1>5, <1>6, ExtendedIs
<1>8. GreatestDivisor(m, z) = 1 BY OddCoprime
<1>9. IntOf(c0.r) = 1 BY <1>7, <1>8
<1>10. u = NegatedInverse(c0, nBI, rBI) BY <1>4, <1>6
<1>11. m \in Nat \ {0} BY <1>1
<1> QED BY <1>2, <1>3, <1>7, <1>9, <1>10, <1>11, NegatedInverseIs

-----------------------------------------------------------------------------
(* All the methods.                                                        *)

(* A number is odd exactly when its lowest word is.                        *)
LEMMA LowWord ==
  ASSUME NEW v \in Numbers, v # <<>>
  PROVE  Value(v) % 2 = v[1] % 2 /\ v[1] \in Nat
<1>1. v \in Arrays /\ Len(v) \in Nat \ {0} /\ Value(v) = V(v, Len(v)) BY NumbersAre, Bounds
<1>2. PICK n \in Nat : Len(v) = 1 + n
  <2>1. Len(v) - 1 \in Nat /\ Len(v) = 1 + (Len(v) - 1) BY <1>1
  <2> QED BY <2>1
<1>3. \A i \in 1..Len(v) : v[i] \in 0..Base - 1 BY <1>1, ArraysAre
<1>4. Base \in Nat \ {0, 1} BY BaseIs
<1> DEFINE d == [i \in 1..n |-> v[1 + i]]
<1>5. \A i \in 1..n : 1 + i \in 1..Len(v) /\ d[i] = v[1 + i] /\ d[i] \in 0..Base - 1 BY <1>2, <1>3
<1> HIDE DEF d
<1>6. V(v, 1 + n) = V(v, 1) + PB(1) * V(d, n)
  <2>1. Follows(d, v, 1, n) BY <1>4, <1>5 DEF Follows
  <2>2. 1 \in Nat OBVIOUS
  <2> QED BY <2>1, <2>2, VSplit
<1>7. V(v, 1) = v[1] /\ v[1] \in Nat
  <2>1. 1 \in 1..Len(v) BY <1>2
  <2>2. v[1] \in Nat BY <1>3, <1>4, <2>1
  <2>3. 0 \in Nat /\ 1 = 0 + 1 /\ v[1] \in Int BY <2>2
  <2>4. V(v, 1) = V(v, 0) + v[1] * PB(0) BY <2>3, VNext
  <2>5. V(v, 0) = 0 BY <2>3, VType
  <2>6. PB(0) = 1 BY PBIs
  <2> QED BY <2>2, <2>4, <2>5, <2>6
<1>8. V(d, n) \in Nat
  <2>1. PB(n) \in Nat BY PBIs
  <2> QED BY <1>5, <2>1, VBound
<1>9. PICK h \in Nat : Base = h * 2
  <2>1. WordBits - 1 \in Nat /\ Base = 2 * 2 ^ (WordBits - 1) BY BaseIs
  <2>2. 2 ^ (WordBits - 1) \in Nat BY <2>1, PowerPositive
  <2> QED BY <2>1, <2>2
<1>10. PB(1) = Base
  <2>1. 0 \in Nat /\ 1 = 0 + 1 OBVIOUS
  <2>2. PB(1) = Base * PB(0) BY <2>1, PBNext
  <2> QED BY <1>4, <2>2, PBIs
<1>11. PICK p \in Nat, q \in Nat : p = V(d, n) /\ q = v[1] BY <1>7, <1>8
<1>12. Value(v) = (h * p) * 2 + q
  <2>1. (h * 2) * p = (h * p) * 2 OBVIOUS
  <2> QED BY <1>1, <1>2, <1>6, <1>7, <1>9, <1>10, <1>11, <2>1
<1>13. ((h * p) * 2 + q) % 2 = q % 2
  <2>1. h * p \in Nat /\ 2 \in Nat \ {0} OBVIOUS
  <2> QED BY <2>1, ModOfMultiple
<1> QED BY <1>7, <1>11, <1>12, <1>13

(* Montgomery's method with the inverse.                                   *)
LEMMA MontgomeryOfIs ==
  ASSUME NEW a \in Numbers, NEW e \in Numbers, NEW n \in Numbers, NEW m \in Nat, m = Value(n), m % 2 = 1,
         NEW r \in Numbers, NEW k \in Nat, NEW z, z = 2 ^ k, Value(r) = z, z \in Nat \ {0, 1},
         m < z, m = 1 => z = 2
  PROVE  /\ MontgomeryOf(a, e, n, r, k) \in Numbers
         /\ Value(MontgomeryOf(a, e, n, r, k)) = Pow(Value(a), Value(e)) % Value(n)
<1>1. PICK u : u = montgomeryCalculateNprim(n, r) OBVIOUS
<1>2. u \in Numbers /\ \E c \in Nat : Inverts(c, Value(u), m, z) BY <1>1, NprimIs
<1>3. MontgomeryOf(a, e, n, r, k) = Montgomery(a, e, n, r, k, u)
  <2>1. {Montgomery(a, e, n, r, k, p) : p \in {u}} = {Montgomery(a, e, n, r, k, u)} OBVIOUS
  <2>2. MontgomeryOf(a, e, n, r, k) = CHOOSE q \in {Montgomery(a, e, n, r, k, p) : p \in {u}} : TRUE
    BY <1>1 DEF MontgomeryOf, With
  <2> QED BY <2>1, <2>2
<1>4. PICK c \in Nat : Inverts(c, Value(u), m, z) BY <1>2
<1>5. n # <<>>
  <2>1. 0 % 2 = 0
    <3>1. 0 = 0 * 2 OBVIOUS
    <3> QED BY <3>1, DividesIs
  <2> QED BY <2>1, EmptyIs
<1>6. Ready(n, u, k, z, c) BY <1>2, <1>4, <1>5 DEF Ready
<1>7. /\ Montgomery(a, e, n, r, k, u) \in Numbers
      /\ Value(Montgomery(a, e, n, r, k, u)) = Pow(Value(a), Value(e)) % Value(n)
  BY <1>6, MontgomeryIs
<1> QED BY <1>3, <1>7

(* And with r, the power of 2 above n.                                     *)
LEMMA ModPowMontgomeryIs ==
  ASSUME NEW a \in Numbers, NEW e \in Numbers, e # <<>>, NEW n \in Numbers, Value(n) % 2 = 1
  PROVE  /\ modPowMontgomery(a, e, n) \in Numbers
         /\ Value(modPowMontgomery(a, e, n)) = Remains(Value(a), Value(e), Value(n))
<1>1. PICK m \in Nat : m = Value(n) BY NumbersAre
<1>2. n # <<>>
  <2>1. 0 % 2 = 0
    <3>1. 0 = 0 * 2 OBVIOUS
    <3> QED BY <3>1, DividesIs
  <2> QED BY <2>1, EmptyIs
<1>3. PICK k \in Nat : k = numbits(n) BY NumbitsIs
<1>4. m < 2 ^ k /\ k >= 1 /\ 2 ^ (k - 1) <= m
  <2>1. (Len(n) - 1) * WordBits + 1 <= k /\ 2 ^ (k - 1) <= m /\ m < 2 ^ k
    BY <1>1, <1>2, <1>3, NumbitsIs
  <2>2. Len(n) - 1 \in Nat /\ WordBits \in Nat BY <1>2, Bounds, BaseIs
  <2>3. (Len(n) - 1) * WordBits \in Nat BY <2>2
  <2> QED BY <2>1, <2>3
<1>5. PICK z \in Nat \ {0} : z = 2 ^ k BY PowerPositive
<1>6. m # 0 /\ m < z /\ z \in Nat \ {0, 1}
  <2>1. m > 0 BY <1>1, <1>2, Bounds
  <2> QED BY <1>4, <1>5, <2>1
<1>7. ASSUME m = 1 PROVE z = 2
  <2>1. SUFFICES ASSUME k # 1 PROVE FALSE BY <1>5, PowerOne
  <2>2. k - 1 \in Nat /\ 1 \in Nat /\ 1 <= k - 1 BY <1>4, <2>1
  <2>3. 2 ^ 1 <= 2 ^ (k - 1) BY <2>2, PowerGrows
  <2>4. PICK y \in Nat : y = 2 ^ (k - 1) BY <2>2, PowerPositive
  <2> QED BY <1>4, <1>7, <2>3, <2>4, PowerOne
<1>8. PICK r \in Numbers : r = shiftLeft(<<1>>, k) /\ Value(r) = z
  <2>1. 1 \in 0..Base - 1 /\ 1 # 0
    <3>1. Base \in Nat \ {0, 1} BY BaseIs
    <3> QED BY <3>1
  <2>2. <<1>> \in Numbers /\ Value(<<1>>) = 1 BY <2>1, OneWord
  <2>3. shiftLeft(<<1>>, k) \in Numbers /\ Value(shiftLeft(<<1>>, k)) = 1 * 2 ^ k
    BY <2>2, ShiftLeftIs
  <2>4. 1 * z = z OBVIOUS
  <2> QED BY <1>5, <2>3, <2>4
<1>9. modPowMontgomery(a, e, n) = MontgomeryOf(a, e, n, r, k) BY <1>3, <1>8 DEF modPowMontgomery
<1>10. m % 2 = 1 BY <1>1
<1>11. /\ MontgomeryOf(a, e, n, r, k) \in Numbers
       /\ Value(MontgomeryOf(a, e, n, r, k)) = Pow(Value(a), Value(e)) % Value(n)
  <2>1. k \in Nat /\ z = 2 ^ k /\ r \in Numbers /\ Value(r) = z BY <1>3, <1>5, <1>8
  <2>2. m \in Nat /\ m = Value(n) /\ m % 2 = 1 BY <1>1, <1>10
  <2> QED BY <1>6, <1>7, <2>1, <2>2, MontgomeryOfIs
<1>12. Value(e) # 0 BY Bounds, NumbersAre
<1> QED BY <1>9, <1>11, <1>12 DEF Remains

(* modPow gives the remainder of the power, by any of its four methods:    *)
(* which one the lengths choose makes no difference.                       *)
THEOREM ModPowIs ==
  ASSUME NEW a \in Numbers, NEW e \in Numbers, NEW m \in Numbers, m # <<>>
  PROVE  /\ modPow(a, e, m) \in Numbers
         /\ Value(modPow(a, e, m)) = Remains(Value(a), Value(e), Value(m))
<1> DEFINE Right(v) == v \in Numbers /\ Value(v) = Remains(Value(a), Value(e), Value(m))
<1>1. Right(modPowNaive(a, e, m)) BY ModPowNaiveIs
<1>2. e # <<>> => Right(modPowMary(a, e, m)) BY ModPowMaryIs
<1>3. e # <<>> => Right(modPowCLNW(a, e, m)) BY ModPowCLNWIs
<1>4. e # <<>> /\ m[1] % 2 # 0 => Right(modPowMontgomery(a, e, m))
  <2>1. SUFFICES ASSUME e # <<>>, m[1] % 2 # 0 PROVE Right(modPowMontgomery(a, e, m)) OBVIOUS
  <2>2. Value(m) % 2 = m[1] % 2 /\ m[1] \in Nat BY LowWord
  <2>3. Value(m) % 2 = 1 BY <2>1, <2>2
  <2> QED BY <2>1, <2>3, ModPowMontgomeryIs
<1>5. e = <<>> => Len(e) < MarySize BY EmptyIs, BigAssumption
<1> HIDE DEF Right
<1>6. Right(modPow(a, e, m)) BY <1>1, <1>2, <1>3, <1>4, <1>5 DEF modPow
<1> QED BY <1>6 DEF Right

-----------------------------------------------------------------------------
(* The operations.                                                         *)

HeldBy(a, i) == a \in Signeds /\ i \in Int /\ IntOf(a) = i

(* A step to what is held.                                                 *)
LEMMA BecomesHeld ==
  ASSUME NEW a, NEW i, HeldBy(a, i), Becomes(a, i)
  PROVE  Held'
BY DEF HeldBy, Becomes, Held, IntOf, Signeds

(* An object that is not negative.                                         *)
LEMMA NotNegativeIs ==
  ASSUME NEW a \in Signeds, ~isNegative(a)
  PROVE  IntOf(a) \in Nat /\ IntOf(a) = Value(a.array) /\ a.array \in Numbers
<1>1. /\ IntOf(a) \in Int /\ Magnitude(IntOf(a)) = Value(a.array) /\ a.array \in Numbers
      /\ ~(IntOf(a) < 0)
  BY SignedIs
<1> QED BY <1>1 DEF Magnitude

(* A truncated quotient is an integer.                                     *)
LEMMA TruncatedInt ==
  ASSUME NEW i \in Int, NEW j \in Int, j # 0
  PROVE  Truncated(i, j) \in Int
<1>1. PICK g \in Nat, h \in Nat \ {0} : g = Magnitude(i) /\ h = Magnitude(j)
  <2>1. Magnitude(i) \in Nat /\ Magnitude(j) \in Nat \ {0} BY DEF Magnitude
  <2> QED BY <2>1
<1>2. PICK q \in Nat : q = g \div h BY DivMod
<1>3. Truncated(i, j) = IF (i < 0) # (j < 0) THEN -q ELSE q BY <1>1, <1>2 DEF Truncated
<1> QED BY <1>3

(* The four forms of division.                                             *)
LEMMA DivisionHeld ==
  ASSUME NEW a \in Signeds, NEW b \in Signeds, ~isZero(b), NEW t, t = Truncated(IntOf(a), IntOf(b))
  PROVE  /\ HeldBy(over(a, b), t) /\ HeldBy(div(a, b).quo, t)
         /\ HeldBy(modulo(a, b), IntOf(a) - IntOf(b) * t)
         /\ HeldBy(div(a, b).rem, IntOf(a) - IntOf(b) * t)
<1>1. PICK i \in Int, j \in Int : i = IntOf(a) /\ j = IntOf(b) /\ j # 0 BY SignedIs
<1>2. t \in Int BY <1>1, TruncatedInt
<1>3. i - j * t \in Int BY <1>2
<1>4. over(a, b) \in Signeds /\ IntOf(over(a, b)) = t BY OverIs
<1>5. div(a, b).quo \in Signeds /\ IntOf(div(a, b).quo) = t BY DivQuoIs
<1>6. modulo(a, b) \in Signeds /\ IntOf(modulo(a, b)) = IntOf(a) - IntOf(b) * t BY ModuloIs
<1>7. div(a, b).rem \in Signeds /\ IntOf(div(a, b).rem) = IntOf(a) - IntOf(b) * t BY ModuloIs
<1> QED BY <1>1, <1>2, <1>3, <1>4, <1>5, <1>6, <1>7 DEF HeldBy

(* ModPow's arguments are objects of their integers.                       *)
LEMMA RaisedToPower ==
  ASSUME NEW a \in Signeds, ~isNegative(a), NEW n \in Nat, NEW m \in Nat \ {0}
  PROVE  HeldBy([neg |-> FALSE, array |-> modPow(a.array, Big(n).array, Big(m).array)],
                PowerModulo(IntOf(a), IntOf(Big(n)), IntOf(Big(m))))
<1>1. PICK e : e = Big(n) OBVIOUS
<1>2. PICK d : d = Big(m) OBVIOUS
<1>3. e \in Signeds /\ IntOf(e) = n
  <2>1. n \in Int OBVIOUS
  <2> QED BY <1>1, <2>1, BigIs
<1>4. d \in Signeds /\ IntOf(d) = m
  <2>1. m \in Int OBVIOUS
  <2> QED BY <1>2, <2>1, BigIs
<1>5. Value(e.array) = n /\ e.array \in Numbers
  <2>1. ~isNegative(e) BY <1>3, SignedIs
  <2> QED BY <1>3, <2>1, NotNegativeIs
<1>6. Value(d.array) = m /\ d.array \in Numbers
  <2>1. ~isNegative(d) BY <1>4, SignedIs
  <2> QED BY <1>4, <2>1, NotNegativeIs
<1>7. d.array # <<>> BY <1>6, EmptyIs
<1>8. PICK i \in Nat : i = IntOf(a) /\ i = Value(a.array) /\ a.array \in Numbers BY NotNegativeIs
<1>9. PICK v : v = modPow(a.array, e.array, d.array) OBVIOUS
<1>10. v \in Numbers /\ Value(v) = Remains(i, n, m) BY <1>5, <1>6, <1>7, <1>8, <1>9, ModPowIs
<1>11. PowerModulo(i, n, m) = Remains(i, n, m) /\ Remains(i, n, m) \in Nat BY PowerModuloIs
<1>12. PICK p \in Nat : p = Remains(i, n, m) BY <1>11
<1>13. PICK b : b = [neg |-> FALSE, array |-> v] OBVIOUS
<1>14. b \in Signeds /\ IntOf(b) = p
  <2>1. p \in Int /\ p >= 0 /\ p = Value(v) BY <1>10, <1>12
  <2> QED BY <1>10, <1>13, <2>1, MadeIs
<1>15. HeldBy(b, p) BY <1>14 DEF HeldBy
<1>16. p = PowerModulo(i, IntOf(e), IntOf(d)) BY <1>3, <1>4, <1>11, <1>12
<1> QED BY <1>1, <1>2, <1>8, <1>9, <1>13, <1>15, <1>16

(* It holds first.                                                         *)
LEMMA HoldsFirst == Init => Held
<1> SUFFICES ASSUME Init PROVE Held OBVIOUS
<1>1. PICK i \in Starts : x = Big(i) /\ val = i BY DEF Init
<1>2. i \in Int BY BigAssumption
<1> QED BY <1>1, <1>2, BigIs DEF Held

(* Every operation keeps it.                                               *)
LEMMA StepHeld == Held /\ [Next]_vars => Held'
<1> SUFFICES ASSUME Held, [Next]_vars PROVE Held' OBVIOUS
<1>1. x \in Signeds /\ val \in Int /\ IntOf(x) = val BY DEF Held
<1>2. ASSUME NEW o \in {Big(i) : i \in Operands} \cup {x} PROVE o \in Signeds /\ IntOf(o) \in Int
  <2>1. o \in Signeds BY <1>1, <1>2, BigIs, BigAssumption
  <2> QED BY <2>1, SignedIs
<1>3. ASSUME NEW o \in {Big(i) : i \in Operands} \cup {x}, PlusAssign(o) PROVE Held'
  <2>1. HeldBy(plus(x, o), val + IntOf(o)) BY <1>1, <1>2, PlusIs DEF HeldBy
  <2> QED BY <1>3, <2>1, BecomesHeld DEF PlusAssign
<1>4. ASSUME NEW o \in {Big(i) : i \in Operands} \cup {x}, MinusAssign(o) PROVE Held'
  <2>1. HeldBy(minus(x, o), val - IntOf(o)) BY <1>1, <1>2, MinusAllIs DEF HeldBy
  <2> QED BY <1>4, <2>1, BecomesHeld DEF MinusAssign
<1>5. ASSUME NEW o \in {Big(i) : i \in Operands} \cup {x}, TimesAssign(o) PROVE Held'
  <2>1. val * IntOf(o) \in Int BY <1>1, <1>2
  <2>2. HeldBy(times(x, o), val * IntOf(o)) BY <1>1, <1>2, <2>1, TimesIs DEF HeldBy
  <2> QED BY <1>5, <2>2, BecomesHeld DEF TimesAssign
<1>6. ASSUME NEW o \in {Big(i) : i \in Operands} \cup {x}, OverAssign(o) PROVE Held'
  <2>1. ~isZero(o) /\ Becomes(over(x, o), Truncated(val, IntOf(o))) BY <1>6 DEF OverAssign
  <2>2. HeldBy(over(x, o), Truncated(val, IntOf(o))) BY <1>1, <1>2, <2>1, DivisionHeld
  <2> QED BY <2>1, <2>2, BecomesHeld
<1>7. ASSUME NEW o \in {Big(i) : i \in Operands} \cup {x}, ModuloAssign(o) PROVE Held'
  <2>1. ~isZero(o) /\ Becomes(modulo(x, o), val - IntOf(o) * Truncated(val, IntOf(o)))
    BY <1>7 DEF ModuloAssign
  <2>2. HeldBy(modulo(x, o), val - IntOf(o) * Truncated(val, IntOf(o))) BY <1>1, <1>2, <2>1, DivisionHeld
  <2> QED BY <2>1, <2>2, BecomesHeld
<1>8. ASSUME NEW o \in {Big(i) : i \in Operands} \cup {x}, Div(o) PROVE Held'
  <2>1. ~isZero(o) BY <1>8 DEF Div
  <2>2. /\ HeldBy(div(x, o).quo, Truncated(val, IntOf(o)))
        /\ HeldBy(div(x, o).rem, val - IntOf(o) * Truncated(val, IntOf(o)))
    BY <1>1, <1>2, <2>1, DivisionHeld
  <2>3. CASE Becomes(div(x, o).quo, Truncated(val, IntOf(o))) BY <2>2, <2>3, BecomesHeld
  <2>4. CASE Becomes(div(x, o).rem, val - IntOf(o) * Truncated(val, IntOf(o)))
    BY <2>2, <2>4, BecomesHeld
  <2> QED BY <1>8, <2>3, <2>4 DEF Div
<1>9. ASSUME NEW o \in {Big(i) : i \in Operands} \cup {x}, TakeGCD(o) PROVE Held'
  <2>1. /\ ~isNegative(x) /\ ~isNegative(o)
        /\ Becomes(GCD(x, o), GreatestDivisor(val, IntOf(o)))
    BY <1>9 DEF TakeGCD
  <2>2. GCD(x, o) \in Signeds /\ IntOf(GCD(x, o)) = GreatestDivisor(val, IntOf(o))
    BY <1>1, <1>2, <2>1, GCDIs
  <2>3. HeldBy(GCD(x, o), GreatestDivisor(val, IntOf(o))) BY <2>2, SignedIs DEF HeldBy
  <2> QED BY <2>1, <2>3, BecomesHeld
<1>10. ASSUME NEW o \in {Big(i) : i \in Operands} \cup {x}, Bezout(o) PROVE Held'
  <2>1. PICK c : c = Combined(extendedGCD(x, o), x, o) OBVIOUS
  <2>2. ~isNegative(x) /\ ~isNegative(o) /\ Becomes(c, GreatestDivisor(val, IntOf(o)))
    BY <1>10, <2>1 DEF Bezout
  <2>3. c \in Signeds /\ IntOf(c) = GreatestDivisor(val, IntOf(o)) BY <1>1, <1>2, <2>1, <2>2, BezoutIs
  <2>4. HeldBy(c, GreatestDivisor(val, IntOf(o))) BY <2>3, SignedIs DEF HeldBy
  <2> QED BY <2>2, <2>4, BecomesHeld
<1>11. ASSUME NEW e \in Exponents, NEW m \in Moduli, ModPow(Big(e), Big(m)) PROVE Held'
  <2>1. e \in Nat /\ m \in Nat \ {0} BY BigAssumption
  <2>2. ~isNegative(x) BY <1>11 DEF ModPow
  <2>3. HeldBy([neg |-> FALSE, array |-> modPow(x.array, Big(e).array, Big(m).array)],
               PowerModulo(val, IntOf(Big(e)), IntOf(Big(m))))
    BY <1>1, <2>1, <2>2, RaisedToPower
  <2> QED BY <1>11, <2>3, BecomesHeld DEF ModPow
<1>12. ASSUME NEW b \in Radices, Reparse(b) PROVE Held'
  <2>1. b \in 2..Base - 1
    <3>1. Base \in Nat BY BaseIs
    <3>2. b \in {2, 8, 10} /\ b \in 0..Base - 1 BY BigAssumption
    <3> QED BY <3>1, <3>2
  <2>2. HeldBy(Parse(toString(x, b), b), val) BY <1>1, <2>1, ReparseIs DEF HeldBy
  <2> QED BY <1>12, <2>2, BecomesHeld DEF Reparse
<1>13. ASSUME FromI32 PROVE Held'
  <2>1. PICK i \in -(Base - 1)..Base - 1 : Becomes(FromInt(i), i) BY <1>13 DEF FromI32
  <2>2. i \in Int
    <3>1. Base \in Nat BY BaseIs
    <3> QED BY <3>1
  <2>3. HeldBy(FromInt(i), i) BY <2>2, FromIntIs DEF HeldBy
  <2> QED BY <2>1, <2>3, BecomesHeld
<1>14. ASSUME Negate PROVE Held'
  <2>1. HeldBy(Negated(x), -val) BY <1>1, NegatedIs DEF HeldBy
  <2> QED BY <1>14, <2>1, BecomesHeld DEF Negate
<1>15. ASSUME Rebyte PROVE Held'
  <2>1. Magnitude(val) \in Int BY <1>1 DEF Magnitude
  <2>2. HeldBy(FromBytes(getBytes(x)), Magnitude(val)) BY <1>1, <2>1, RebyteIs DEF HeldBy
  <2> QED BY <1>15, <2>2, BecomesHeld DEF Rebyte
<1>16. CASE UNCHANGED vars BY <1>16 DEF vars, Held, IntOf, Signeds
<1>17. CASE Next
  BY <1>3, <1>4, <1>5, <1>6, <1>7, <1>8, <1>9, <1>10, <1>11, <1>12, <1>13, <1>14, <1>15, <1>17 DEF Next
<1> QED BY <1>16, <1>17

(* Through every sequence of operations of tBigInteger, for every word     *)
(* size, Karatsuba's cutoff, window and method sizes, and operands, the    *)
(* object is the integer it should be, and compares as it.                 *)
THEOREM StaysExact == Spec => []Exact
<1>1. Init => Held BY HoldsFirst
<1>2. Held /\ [Next]_vars => Held' BY StepHeld
<1>3. Held => Exact BY HeldIsExact
<1> QED BY <1>1, <1>2, <1>3, PTL DEF Spec
=============================================================================
