----------------------------- MODULE SumsProofs -----------------------------
(***************************************************************************)
(* Facts about Sums!SumTo.  Induction on the bound is carried out through  *)
(* the least element of the set of counterexamples, so that every step is  *)
(* first order.                                                            *)
(***************************************************************************)
EXTENDS Sums, WellFoundedInduction, TLAPS

(* Every nonempty set of naturals has a least element. *)
LEMMA LeastNatural ==
  ASSUME NEW T \in SUBSET Nat, T # {}
  PROVE  \E m \in T : \A k \in T : m <= k
<1>1. PICK m \in T : \A y \in T : ~ (<<y, m>> \in OpToRel(<, Nat))
  BY NatLessThanWellFounded, WFMin, Zenon
<1>2. \A y \in T : ~ (y < m)
  BY <1>1 DEF OpToRel
<1> QED BY <1>2

(* The least index at which a property of 0..n fails: either 0, or one     *)
(* whose predecessor has the property.                                     *)
LEMMA LeastFailure ==
  ASSUME NEW n \in Nat, NEW Bad \in SUBSET (0..n), Bad # {}
  PROVE  \E m \in Bad : m = 0 \/ (m \in 1..n /\ m - 1 \in 0..n /\ m - 1 \notin Bad)
<1>1. PICK m \in Bad : \A k \in Bad : m <= k
  <2>1. Bad \in SUBSET Nat OBVIOUS
  <2> QED BY <2>1, LeastNatural
<1>2. CASE m = 0 BY <1>2
<1>3. CASE m # 0
  <2>1. m \in 1..n /\ m - 1 \in 0..n BY <1>3
  <2>2. m - 1 \notin Bad BY <1>1, <2>1
  <2> QED BY <2>1, <2>2
<1> QED BY <1>2, <1>3

(* The partial sums that SumTo chooses exist. *)
LEMMA PartialSumsExist ==
  ASSUME NEW n \in Nat, NEW f \in [1..n -> Int]
  PROVE  \E s : s = [k \in 0..n |-> IF k = 0 THEN 0 ELSE s[k - 1] + f[k]]
<1> DEFINE IsSum(s, m) == \A k \in 0..m : s[k] = IF k = 0 THEN 0 ELSE s[k - 1] + f[k]
           Bad == {m \in 0..n : ~ \E s \in [0..m -> Int] : IsSum(s, m)}
<1>1. ASSUME Bad # {} PROVE FALSE
  <2>1. PICK m \in Bad : m = 0 \/ (m \in 1..n /\ m - 1 \in 0..n /\ m - 1 \notin Bad)
    <3>1. Bad \in SUBSET (0..n) OBVIOUS
    <3> HIDE DEF Bad
    <3> QED BY <1>1, <3>1, LeastFailure
  <2>2. CASE m = 0
    <3> DEFINE z == [k \in 0..0 |-> 0]
    <3>1. z \in [0..0 -> Int] /\ IsSum(z, 0) OBVIOUS
    <3> QED BY <2>1, <2>2, <3>1
  <2>3. CASE m \in 1..n /\ m - 1 \in 0..n /\ m - 1 \notin Bad
    <3>1. PICK s \in [0..(m - 1) -> Int] : IsSum(s, m - 1) BY <2>3
    <3> DEFINE t == [k \in 0..m |-> IF k = m THEN s[m - 1] + f[m] ELSE s[k]]
    <3>2. t \in [0..m -> Int] BY <2>3, <3>1
    <3>3. IsSum(t, m)
      <4> SUFFICES ASSUME NEW k \in 0..m
                   PROVE  t[k] = IF k = 0 THEN 0 ELSE t[k - 1] + f[k]
        OBVIOUS
      <4>1. CASE k = m BY <4>1, <2>3, <3>1
      <4>2. CASE k # m BY <4>2, <2>3, <3>1
      <4> QED BY <4>1, <4>2
    <3> HIDE DEF t
    <3> QED BY <2>1, <3>2, <3>3
  <2> QED BY <2>1, <2>2, <2>3
<1>2. n \notin Bad
  <2> HIDE DEF Bad
  <2> QED BY <1>1
<1>3. PICK s \in [0..n -> Int] : IsSum(s, n) BY <1>2
<1>4. s = [k \in 0..n |-> IF k = 0 THEN 0 ELSE s[k - 1] + f[k]] BY <1>3
<1> QED BY <1>4

(* SumTo is the last of a sequence of partial sums, all of them integers. *)
LEMMA SumToPartial ==
  ASSUME NEW n \in Nat, NEW f \in [1..n -> Int]
  PROVE  \E s \in [0..n -> Int] :
           /\ \A k \in 0..n : s[k] = IF k = 0 THEN 0 ELSE s[k - 1] + f[k]
           /\ SumTo(f, n) = s[n]
<1> DEFINE s == CHOOSE s : s = [k \in 0..n |-> IF k = 0 THEN 0 ELSE s[k - 1] + f[k]]
<1>1. s = [k \in 0..n |-> IF k = 0 THEN 0 ELSE s[k - 1] + f[k]]
  BY PartialSumsExist
<1>2. SumTo(f, n) = s[n] BY DEF SumTo
<1> HIDE DEF s
<1>3. \A k \in 0..n : s[k] = IF k = 0 THEN 0 ELSE s[k - 1] + f[k]
  BY <1>1
<1> DEFINE Bad == {k \in 0..n : s[k] \notin Int}
<1>4. ASSUME Bad # {} PROVE FALSE
  <2>1. PICK m \in Bad : m = 0 \/ (m \in 1..n /\ m - 1 \in 0..n /\ m - 1 \notin Bad)
    <3>1. Bad \in SUBSET (0..n) OBVIOUS
    <3> HIDE DEF Bad
    <3> QED BY <1>4, <3>1, LeastFailure
  <2>2. m \in 0..n /\ s[m] \notin Int BY <2>1
  <2>3. m # 0 BY <2>2, <1>3
  <2>4. s[m - 1] \in Int BY <2>1, <2>3
  <2> QED BY <2>1, <2>2, <2>3, <2>4, <1>3
<1>5. s \in [0..n -> Int] BY <1>1, <1>4
<1> QED BY <1>2, <1>3, <1>5

(* A sum of integers is an integer. *)
LEMMA SumToInt ==
  ASSUME NEW n \in Nat, NEW f \in [1..n -> Int]
  PROVE  SumTo(f, n) \in Int
BY SumToPartial

(* The workhorse: if h is the pointwise sum of f and g, so are the totals. *)
LEMMA SumToAdd ==
  ASSUME NEW n \in Nat, NEW f \in [1..n -> Int], NEW g \in [1..n -> Int],
         NEW h \in [1..n -> Int], \A k \in 1..n : h[k] = f[k] + g[k]
  PROVE  SumTo(h, n) = SumTo(f, n) + SumTo(g, n)
<1>1. PICK s \in [0..n -> Int] :
        /\ \A k \in 0..n : s[k] = IF k = 0 THEN 0 ELSE s[k - 1] + f[k]
        /\ SumTo(f, n) = s[n]
  BY SumToPartial
<1>2. PICK t \in [0..n -> Int] :
        /\ \A k \in 0..n : t[k] = IF k = 0 THEN 0 ELSE t[k - 1] + g[k]
        /\ SumTo(g, n) = t[n]
  BY SumToPartial
<1>3. PICK u \in [0..n -> Int] :
        /\ \A k \in 0..n : u[k] = IF k = 0 THEN 0 ELSE u[k - 1] + h[k]
        /\ SumTo(h, n) = u[n]
  BY SumToPartial
<1> DEFINE Bad == {k \in 0..n : u[k] # s[k] + t[k]}
<1>4. ASSUME Bad # {} PROVE FALSE
  <2>1. PICK m \in Bad : m = 0 \/ (m \in 1..n /\ m - 1 \in 0..n /\ m - 1 \notin Bad)
    <3>1. Bad \in SUBSET (0..n) OBVIOUS
    <3> HIDE DEF Bad
    <3> QED BY <1>4, <3>1, LeastFailure
  <2>2. m \in 0..n /\ u[m] # s[m] + t[m] BY <2>1
  <2>3. m # 0 BY <2>2, <1>1, <1>2, <1>3
  <2>4. u[m - 1] = s[m - 1] + t[m - 1] BY <2>1, <2>3
  <2>5. /\ u[m] = u[m - 1] + h[m] /\ s[m] = s[m - 1] + f[m]
        /\ t[m] = t[m - 1] + g[m] /\ h[m] = f[m] + g[m]
    BY <2>1, <2>2, <2>3, <1>1, <1>2, <1>3
  <2>6. /\ s[m - 1] \in Int /\ t[m - 1] \in Int /\ f[m] \in Int /\ g[m] \in Int
    BY <2>1, <2>3
  <2>7. u[m] = s[m] + t[m]
    <3> HIDE DEF Bad
    <3> QED BY <2>1, <2>3, <2>4, <2>5, <2>6
  <2> QED BY <2>2, <2>7
<1>5. u[n] = s[n] + t[n]
  <2>1. n \notin Bad
    <3> HIDE DEF Bad
    <3> QED BY <1>4
  <2> QED BY <2>1
<1> QED BY <1>1, <1>2, <1>3, <1>5

(* The sum of zeros is zero. *)
LEMMA SumToZero ==
  ASSUME NEW n \in Nat, NEW f \in [1..n -> Int], \A k \in 1..n : f[k] = 0
  PROVE  SumTo(f, n) = 0
<1>1. SumTo(f, n) = SumTo(f, n) + SumTo(f, n) BY SumToAdd
<1>2. SumTo(f, n) \in Int BY SumToInt
<1> QED BY <1>1, <1>2

(* A sum of naturals bounds each of its terms. *)
LEMMA SumToBounds ==
  ASSUME NEW n \in Nat, NEW f \in [1..n -> Nat], NEW i \in 1..n
  PROVE  SumTo(f, n) >= f[i]
<1> f \in [1..n -> Int] OBVIOUS
<1>1. PICK s \in [0..n -> Int] :
        /\ \A k \in 0..n : s[k] = IF k = 0 THEN 0 ELSE s[k - 1] + f[k]
        /\ SumTo(f, n) = s[n]
  BY SumToPartial
<1> DEFINE Low(k) == IF k >= i THEN f[i] ELSE 0
           Bad == {k \in 0..n : ~ (s[k] >= Low(k))}
<1>2. ASSUME Bad # {} PROVE FALSE
  <2>1. PICK m \in Bad : m = 0 \/ (m \in 1..n /\ m - 1 \in 0..n /\ m - 1 \notin Bad)
    <3>1. Bad \in SUBSET (0..n) OBVIOUS
    <3> HIDE DEF Bad
    <3> QED BY <1>2, <3>1, LeastFailure
  <2>2. m \in 0..n /\ ~ (s[m] >= Low(m)) BY <2>1
  <2>3. m # 0 BY <2>2, <1>1
  <2>4. s[m - 1] >= Low(m - 1) BY <2>1, <2>3
  <2>5. s[m] = s[m - 1] + f[m] /\ f[m] \in Nat /\ s[m - 1] \in Int /\ f[i] \in Nat
    BY <2>1, <2>2, <2>3, <1>1
  <2>6. s[m - 1] >= 0 BY <2>4, <2>5
  <2>7. CASE m = i BY <2>2, <2>5, <2>6, <2>7
  <2>8. CASE m # i BY <2>1, <2>2, <2>3, <2>4, <2>5, <2>8
  <2> QED BY <2>7, <2>8
<1>3. s[n] >= Low(n) BY <1>2
<1> QED BY <1>1, <1>3

(* A sum of naturals is a natural. *)
LEMMA SumToNat ==
  ASSUME NEW n \in Nat, NEW f \in [1..n -> Nat]
  PROVE  SumTo(f, n) \in Nat
<1>1. f \in [1..n -> Int] OBVIOUS
<1>2. SumTo(f, n) \in Int BY <1>1, SumToInt
<1>3. CASE n = 0
  <2>1. \A k \in 1..n : f[k] = 0 BY <1>3
  <2> QED BY <1>1, <2>1, SumToZero
<1>4. CASE n # 0
  <2>1. 1 \in 1..n BY <1>4
  <2>2. SumTo(f, n) >= f[1] /\ f[1] \in Nat BY <2>1, SumToBounds
  <2> QED BY <1>2, <2>2
<1> QED BY <1>3, <1>4

(* Two functions that differ at one point only differ by that much. *)
LEMMA SumToPoint ==
  ASSUME NEW n \in Nat, NEW f \in [1..n -> Int], NEW g \in [1..n -> Int],
         NEW i \in 1..n, \A k \in 1..n : k # i => g[k] = f[k]
  PROVE  SumTo(g, n) = SumTo(f, n) + (g[i] - f[i])
<1> DEFINE d == [k \in 1..n |-> IF k = i THEN g[i] - f[i] ELSE 0]
<1>1. d \in [1..n -> Int] OBVIOUS
<1>2. SumTo(g, n) = SumTo(f, n) + SumTo(d, n)
  <2>1. \A k \in 1..n : g[k] = f[k] + d[k] OBVIOUS
  <2> HIDE DEF d
  <2> QED BY <1>1, <2>1, SumToAdd
<1>3. SumTo(d, n) = g[i] - f[i]
  <2> DEFINE v == g[i] - f[i]
  <2>1. v \in Int OBVIOUS
  <2>2. PICK s \in [0..n -> Int] :
          /\ \A k \in 0..n : s[k] = IF k = 0 THEN 0 ELSE s[k - 1] + d[k]
          /\ SumTo(d, n) = s[n]
    <3> HIDE DEF d
    <3> QED BY <1>1, SumToPartial
  <2> DEFINE Bad == {k \in 0..n : s[k] # IF k >= i THEN v ELSE 0}
  <2>3. ASSUME Bad # {} PROVE FALSE
    <3>1. PICK m \in Bad : m = 0 \/ (m \in 1..n /\ m - 1 \in 0..n /\ m - 1 \notin Bad)
      <4>1. Bad \in SUBSET (0..n) OBVIOUS
      <4> HIDE DEF Bad
      <4> QED BY <2>3, <4>1, LeastFailure
    <3>2. m \in 0..n /\ s[m] # IF m >= i THEN v ELSE 0 BY <3>1
    <3>3. m # 0
      <4> HIDE DEF d, v, Bad
      <4>1. s[0] = 0 BY <2>2
      <4>2. ~ (0 >= i) OBVIOUS
      <4> QED BY <3>2, <4>1, <4>2
    <3>4. s[m - 1] = IF m - 1 >= i THEN v ELSE 0 BY <3>1, <3>3
    <3>5. s[m] = s[m - 1] + (IF m = i THEN v ELSE 0) BY <3>1, <3>2, <3>3, <2>2
    <3> HIDE DEF v
    <3> QED BY <2>1, <3>1, <3>2, <3>3, <3>4, <3>5
  <2>4. s[n] = v
    <3> HIDE DEF v
    <3> QED BY <2>3
  <2> QED BY <2>2, <2>4
<1> QED BY <1>2, <1>3

=============================================================================
