------------------------- MODULE Liquidation_proofs -------------------------
(***************************************************************************)
(* What is proved of Liquidation for every position, price list, number of *)
(* workers and behaviour of the nodes: the arithmetic of a recipe, when it *)
(* panics, and the nonces of the transactions.                             *)
(***************************************************************************)
EXTENDS Liquidation, FiniteSetTheorems, TLAPS

\* Induction, from the well-foundedness of the order of the naturals.
LEMMA MinNat ==
    ASSUME NEW S \in SUBSET Nat, S # {}
    PROVE  \E m \in S : \A n \in S : m <= n
  <1> DEFINE R == OpToRel(<, Nat)
  <1>1. IsWellFoundedOn(R, Nat)
    BY NatLessThanWellFounded
  <1>2. \A x, y \in Nat : <<x, y>> \in R <=> x < y
    BY DEF OpToRel
  <1> HIDE DEF R
  <1>3. PICK m \in S : \A y \in S : ~ (<<y, m>> \in R)
    BY <1>1, WFMin
  <1>4. ASSUME NEW n \in S PROVE m <= n
    <2>1. m \in Nat /\ n \in Nat
      OBVIOUS
    <2>2. ~ (n < m)
      BY <1>2, <1>3, <2>1
    <2> QED  BY <2>1, <2>2
  <1> QED  BY <1>4

\* A set of naturals with 0 and with the successor of each of its members has them all.
LEMMA Induction ==
    ASSUME NEW S \in SUBSET Nat, 0 \in S, \A n \in S : n + 1 \in S
    PROVE  S = Nat
  <1> SUFFICES ASSUME Nat \ S # {} PROVE FALSE
    OBVIOUS
  <1>1. PICK m \in Nat \ S : \A n \in Nat \ S : m <= n
    BY MinNat
  <1>2. m - 1 \in Nat /\ m - 1 \notin Nat \ S
    BY <1>1
  <1> QED  BY <1>1, <1>2

\* The element that is taken out of a set.
Chooses(choose, D) == \A s \in SUBSET D : s # {} => choose[s] \in s

\* A function of the subsets of D that takes out one element after the other.
Unwinds(g, D, base, choose, step) ==
    \A s \in SUBSET D : g[s] = IF s = {} THEN base ELSE step[choose[s]][g[s \ {choose[s]}]]

\* For a finite set there is one, for every set of values closed under the steps.
LEMMA Removal ==
    ASSUME NEW D, IsFiniteSet(D), NEW V, NEW base \in V, NEW choose, Chooses(choose, D),
           NEW step \in [D -> [V -> V]]
    PROVE  \E g \in [SUBSET D -> V] : Unwinds(g, D, base, choose, step)
  <1> USE DEF Chooses, Unwinds
  <1> DEFINE Sets(n) == {s \in SUBSET D : Cardinality(s) <= n}
             Good(g, n) == \A s \in Sets(n) :
                  g[s] = IF s = {} THEN base ELSE step[choose[s]][g[s \ {choose[s]}]]
             N == {n \in Nat : \E g \in [SUBSET D -> V] : Good(g, n)}
  <1>1. \A s \in SUBSET D : IsFiniteSet(s) /\ Cardinality(s) \in Nat
    BY FS_Subset, FS_CardinalityType
  <1>2. ASSUME NEW s \in SUBSET D, s # {}
        PROVE  /\ choose[s] \in D /\ s \ {choose[s]} \in SUBSET D
               /\ Cardinality(s \ {choose[s]}) = Cardinality(s) - 1
    BY <1>1, <1>2, FS_RemoveElement
  <1>3. 0 \in N
    <2> DEFINE g == [s \in SUBSET D |-> base]
    <2>1. \A s \in Sets(0) : s = {}
      BY <1>1, FS_EmptySet
    <2>2. g \in [SUBSET D -> V] /\ Good(g, 0)
      BY <2>1
    <2> QED  BY <2>2
  <1>4. ASSUME NEW n \in N PROVE n + 1 \in N
    <2>1. PICK g \in [SUBSET D -> V] : Good(g, n)
      OBVIOUS
    <2> DEFINE h == [s \in SUBSET D |-> IF s = {} THEN base ELSE step[choose[s]][g[s \ {choose[s]}]]]
    <2>2. h \in [SUBSET D -> V]
      <3>1. ASSUME NEW s \in SUBSET D, s # {} PROVE step[choose[s]][g[s \ {choose[s]}]] \in V
        <4>1. choose[s] \in D /\ g[s \ {choose[s]}] \in V
          BY <1>2, <3>1
        <4> QED  BY <4>1
      <3> QED  BY <3>1
    <2>3. \A s \in Sets(n) : h[s] = g[s]
      BY <2>1
    <2>4. ASSUME NEW s \in Sets(n + 1)
          PROVE  h[s] = IF s = {} THEN base ELSE step[choose[s]][h[s \ {choose[s]}]]
      <3>1. CASE s = {}
        BY <3>1
      <3>2. CASE s # {}
        <4>1. s \ {choose[s]} \in Sets(n)
          BY <1>1, <1>2, <3>2
        <4>2. h[s \ {choose[s]}] = g[s \ {choose[s]}]
          BY <2>3, <4>1
        <4> QED  BY <3>2, <4>2
      <3> QED  BY <3>1, <3>2
    <2> HIDE DEF h
    <2>5. Good(h, n + 1)
      BY <2>4
    <2>6. n + 1 \in Nat
      OBVIOUS
    <2> HIDE DEF Good
    <2> QED  BY <2>2, <2>5, <2>6
  <1>5. N = Nat
    <2> HIDE DEF N
    <2>1. N \in SUBSET Nat
      BY DEF N
    <2> QED  BY <1>3, <1>4, <2>1, Induction
  <1>6. Cardinality(D) \in Nat
    BY FS_CardinalityType
  <1>7. PICK g \in [SUBSET D -> V] : Good(g, Cardinality(D))
    BY <1>5, <1>6
  <1>8. \A s \in SUBSET D : s \in Sets(Cardinality(D))
    BY FS_Subset
  <1> QED  BY <1>7, <1>8

\* Sets with the empty set, and with every set from which some element can be removed to be in it.
LEMMA SetInduction ==
    ASSUME NEW D, IsFiniteSet(D), NEW T \in SUBSET SUBSET D, {} \in T,
           \A s \in SUBSET D : s # {} => \E x \in s : s \ {x} \in T => s \in T
    PROVE  T = SUBSET D
  <1> DEFINE N == {n \in Nat : \A s \in SUBSET D : Cardinality(s) <= n => s \in T}
  <1>1. \A s \in SUBSET D : IsFiniteSet(s) /\ Cardinality(s) \in Nat
    BY FS_Subset, FS_CardinalityType
  <1>2. 0 \in N
    <2>1. ASSUME NEW s \in SUBSET D, Cardinality(s) <= 0 PROVE s \in T
      <3>1. Cardinality(s) = 0 /\ IsFiniteSet(s)
        BY <1>1, <2>1
      <3> QED  BY <3>1, FS_EmptySet
    <2> QED  BY <2>1
  <1>3. ASSUME NEW n \in N PROVE n + 1 \in N
    <2>1. ASSUME NEW s \in SUBSET D, Cardinality(s) <= n + 1 PROVE s \in T
      <3>1. CASE s = {}
        BY <3>1
      <3>2. CASE s # {}
        <4> PICK x \in s : s \ {x} \in T => s \in T
          BY <3>2
        <4>1. Cardinality(s \ {x}) = Cardinality(s) - 1 /\ s \ {x} \in SUBSET D
          BY <1>1, FS_RemoveElement
        <4>2. Cardinality(s \ {x}) <= n
          BY <1>1, <2>1, <4>1
        <4> QED  BY <4>1, <4>2
      <3> QED  BY <3>1, <3>2
    <2>2. n + 1 \in Nat
      OBVIOUS
    <2> QED  BY <2>1, <2>2
  <1>4. N = Nat
    <2> HIDE DEF N
    <2>1. N \in SUBSET Nat
      BY DEF N
    <2> QED  BY <1>2, <1>3, <2>1, Induction
  <1>5. ASSUME NEW s \in SUBSET D PROVE s \in T
    <2>1. Cardinality(s) \in N
      BY <1>1, <1>4
    <2> QED  BY <1>1, <2>1
  <1> QED  BY <1>5

\* Adding up a finite set of values, one after the other in the order of choose.
Adds(g, D, val, choose) ==
    \A s \in SUBSET D : g[s] = IF s = {} THEN 0 ELSE val[choose[s]] + g[s \ {choose[s]}]

LEMMA SumExists ==
    ASSUME NEW D, IsFiniteSet(D), NEW val \in [D -> Nat], NEW choose, Chooses(choose, D)
    PROVE  \E g \in [SUBSET D -> Nat] : Adds(g, D, val, choose)
  <1> DEFINE V == Nat
             step == [x \in D |-> [v \in V |-> val[x] + v]]
             zero == 0
  <1>1. step \in [D -> [V -> V]] /\ zero \in V
    OBVIOUS
  <1>2. \A x \in D, v \in Nat : step[x][v] = val[x] + v
    OBVIOUS
  <1> HIDE DEF step, V, zero
  <1>3. PICK g \in [SUBSET D -> V] : Unwinds(g, D, zero, choose, step)
    BY <1>1, Removal
  <1>4. \A s \in SUBSET D : g[s] = IF s = {} THEN 0 ELSE step[choose[s]][g[s \ {choose[s]}]]
    BY <1>3 DEF Unwinds, zero
  <1>5. ASSUME NEW s \in SUBSET D, s # {} PROVE g[s] = val[choose[s]] + g[s \ {choose[s]}]
    <2>1. choose[s] \in D /\ g[s \ {choose[s]}] \in Nat
      BY <1>5 DEF Chooses, V
    <2>2. g[s] = step[choose[s]][g[s \ {choose[s]}]]
      BY <1>4, <1>5
    <2> QED  BY <1>2, <2>1, <2>2
  <1>6. Adds(g, D, val, choose)
    BY <1>4, <1>5 DEF Adds
  <1> QED  BY <1>6 DEF V

LEMMA SumNat ==
    ASSUME NEW D, IsFiniteSet(D), NEW val \in [D -> Nat], NEW choose, Chooses(choose, D),
           NEW h, Adds(h, D, val, choose)
    PROVE  h[D] \in Nat
  <1> DEFINE T == {s \in SUBSET D : h[s] \in Nat}
  <1>1. ASSUME NEW s \in SUBSET D, s # {}, h[s \ {choose[s]}] \in Nat PROVE h[s] \in Nat
    <2>1. val[choose[s]] \in Nat
      BY <1>1 DEF Chooses
    <2>2. h[s] = val[choose[s]] + h[s \ {choose[s]}]
      BY <1>1 DEF Adds
    <2> QED  BY <1>1, <2>1, <2>2
  <1>2. \A s \in SUBSET D : s # {} => \E x \in s : s \ {x} \in T => s \in T
    BY <1>1 DEF Chooses
  <1>3. {} \in SUBSET D /\ h[{}] = 0
    <2>1. {} \in SUBSET D
      OBVIOUS
    <2> QED  BY <2>1 DEF Adds
  <1>4. T \in SUBSET SUBSET D /\ {} \in T
    BY <1>3
  <1> HIDE DEF T
  <1>5. T = SUBSET D
    BY <1>2, <1>4, SetInduction
  <1> QED  BY <1>5 DEF T

LEMMA Division ==
    ASSUME NEW a \in Nat, NEW b \in Nat, b > 0
    PROVE  /\ a \div b \in Nat
           /\ b * (a \div b) <= a
           /\ a < b * (a \div b) + b
  OBVIOUS

LEMMA ProductIsNat == ASSUME NEW a \in Nat, NEW b \in Nat PROVE a * b \in Nat
  OBVIOUS

\* A common positive factor does not change an order.
LEMMA Cancel ==
    ASSUME NEW k \in Nat, k > 0, NEW a \in Int, NEW b \in Int, k * a < k * b
    PROVE  a < b
  OBVIOUS

LEMMA Multiply ==
    ASSUME NEW k \in Nat, NEW a \in Int, NEW b \in Int, a <= b
    PROVE  k * a <= k * b
  OBVIOUS

LEMMA MultiplyStrict ==
    ASSUME NEW k \in Nat, k > 0, NEW a \in Int, NEW b \in Int, a < b
    PROVE  k * a < k * b
  OBVIOUS

LEMMA RayMulNat ==
    ASSUME NEW a \in Nat, NEW b \in Nat, StrategyAssumption PROVE RayMul(a, b) \in Nat
  <1>1. Ray \in Nat /\ Ray > 0
    BY DEF StrategyAssumption
  <1>2. a * b \in Nat
    BY ProductIsNat
  <1>3. Ray \div 2 \in Nat
    BY <1>1, Division
  <1>4. a * b + Ray \div 2 \in Nat
    BY <1>2, <1>3
  <1> QED  BY <1>1, <1>4, Division DEF RayMul

\* The debt derived from a collateral that does not suffice is within the limit the
\* calculation began with.  P, Q are the prices, U, V the units of debt and collateral.
LEMMA CoverWithinLimit ==
    ASSUME NEW P \in Nat, P > 0, NEW Q \in Nat, Q > 0,
           NEW U \in Nat, U > 0, NEW V \in Nat, V > 0,
           NEW F \in Nat, F > 0, NEW B \in Nat, B > 0,
           NEW L \in Nat, NEW C \in Nat,
           C < (((P * L * V) \div (Q * U)) * B) \div F
    PROVE  /\ (((Q * C * U) \div (P * V)) * F + B - 1) \div B \in Nat
           /\ (((Q * C * U) \div (P * V)) * F + B - 1) \div B <= L
  <1> DEFINE x == (P * L * V) \div (Q * U)
             y == (Q * C * U) \div (P * V)
             due == (x * B) \div F
             cover == (y * F + B - 1) \div B
  <1>1. /\ Q * U \in Nat /\ Q * U > 0 /\ P * V \in Nat /\ P * V > 0
    <2>1. Q * U \in Nat /\ P * V \in Nat
      BY ProductIsNat
    <2>2. Q * 0 < Q * U
      BY MultiplyStrict
    <2>3. P * 0 < P * V
      BY MultiplyStrict
    <2> QED  BY <2>1, <2>2, <2>3
  <1>2. P * L * V \in Nat /\ Q * C * U \in Nat
    <2>1. P * L \in Nat /\ Q * C \in Nat
      BY ProductIsNat
    <2> QED  BY <2>1, ProductIsNat
  <1>3. x \in Nat /\ (Q * U) * x <= P * L * V
    BY <1>1, <1>2, Division
  <1>4. y \in Nat /\ (P * V) * y <= Q * C * U
    BY <1>1, <1>2, Division
  <1>5. x * B \in Nat /\ y * F \in Nat
    BY <1>3, <1>4, ProductIsNat
  <1>6. due \in Nat /\ F * due <= x * B
    BY <1>5, Division
  <1>7. F * C < x * B
    <2>1. C < due
      OBVIOUS
    <2>2. F * C < F * due
      BY <1>6, <2>1, MultiplyStrict
    <2>3. F * C \in Nat /\ F * due \in Nat
      BY <1>6, ProductIsNat
    <2> HIDE DEF due, x
    <2> QED  BY <1>5, <1>6, <2>2, <2>3
  <1>8. (P * V) * (F * y) < (P * V) * (L * B)
    <2> HIDE DEF x, y
    <2>1. F * ((P * V) * y) <= F * (Q * C * U)
      BY <1>1, <1>2, <1>4, ProductIsNat, Multiply
    <2>2. (Q * U) * (F * C) < (Q * U) * (x * B)
      BY <1>1, <1>5, <1>7, ProductIsNat, MultiplyStrict
    <2>3. B * ((Q * U) * x) <= B * (P * L * V)
      BY <1>1, <1>2, <1>3, ProductIsNat, Multiply
    <2>4. F * ((P * V) * y) = (P * V) * (F * y)
      BY <1>1, <1>4
    <2>5. F * (Q * C * U) = (Q * U) * (F * C)
      OBVIOUS
    <2>6. (Q * U) * (x * B) = B * ((Q * U) * x)
      BY <1>1, <1>3
    <2>7. B * (P * L * V) = (P * V) * (L * B)
      OBVIOUS
    <2>8. /\ (P * V) * (F * y) \in Nat /\ (Q * U) * (F * C) \in Nat
          /\ (Q * U) * (x * B) \in Nat /\ (P * V) * (L * B) \in Nat
      BY <1>1, <1>3, <1>4, <1>5, ProductIsNat
    <2>9. (P * V) * (F * y) <= (Q * U) * (F * C)
      BY <2>1, <2>4, <2>5
    <2>10. (Q * U) * (x * B) <= (P * V) * (L * B)
      BY <2>3, <2>6, <2>7
    <2> HIDE <2>1, <2>3, <2>4, <2>5, <2>6, <2>7
    <2> QED  BY <2>2, <2>8, <2>9, <2>10
  <1>9. F * y < L * B
    <2> HIDE DEF y
    <2>1. F * y \in Nat /\ L * B \in Nat
      BY <1>4, ProductIsNat
    <2> QED  BY <1>1, <1>8, <2>1, Cancel
  <1>10. cover \in Nat /\ B * cover <= y * F + B - 1
    <2>1. y * F + B - 1 \in Nat
      BY <1>5
    <2> QED  BY <2>1, Division
  <1>11. B * cover < B * (L + 1)
    <2> HIDE DEF y, cover
    <2>1. y * F = F * y /\ B * (L + 1) = L * B + B
      BY <1>4
    <2>2. L * B \in Nat /\ B * cover \in Nat
      BY <1>10, ProductIsNat
    <2> QED  BY <1>5, <1>9, <1>10, <2>1, <2>2
  <1>12. cover < L + 1
    <2> HIDE DEF cover
    <2> QED  BY <1>10, <1>11, Cancel
  <1> QED  BY <1>10, <1>12

\* What the close factor leaves of a debt worth more than the limit is less than the debt.
LEMMA LimitWithinDebt ==
    ASSUME NEW D \in Nat, NEW P \in Nat, P > 0, NEW U \in Nat, U > 0, NEW L \in Nat,
           (D * P) \div U > L
    PROVE  (L * U) \div P \in Nat /\ (L * U) \div P <= D
  <1> DEFINE v == (D * P) \div U
             m == (L * U) \div P
  <1>1. D * P \in Nat /\ L * U \in Nat
    BY ProductIsNat
  <1>2. v \in Nat /\ U * v <= D * P
    BY <1>1, Division
  <1>3. m \in Nat /\ P * m <= L * U
    BY <1>1, Division
  <1>4. L < v
    OBVIOUS
  <1> HIDE DEF v, m
  <1>5. U * L < U * v
    BY <1>2, <1>4, MultiplyStrict
  <1>6. P * m < P * D
    <2>1. U * L \in Nat /\ U * v \in Nat /\ P * m \in Nat /\ P * D \in Nat
      BY <1>2, <1>3, ProductIsNat
    <2>2. L * U = U * L /\ D * P = P * D
      OBVIOUS
    <2> QED  BY <1>2, <1>3, <1>5, <2>1, <2>2
  <1>7. m < D
    BY <1>3, <1>6, Cancel
  <1> QED  BY <1>3, <1>7 DEF m

\* The protocol takes a part of the bonus, which is a part of the collateral.
LEMMA FeeWithin ==
    ASSUME NEW A \in Nat, NEW F \in Nat, F > 0, NEW B \in Nat, B >= F, NEW G \in Nat, G <= F
    PROVE  ((A - (A * F) \div B) * G) \div F \in 0 .. A
  <1> DEFINE portion == (A * F) \div B
             rest == A - portion
             fee == (rest * G) \div F
  <1>1. A * F \in Nat
    BY ProductIsNat
  <1>2. portion \in Nat /\ B * portion <= A * F
    BY <1>1, Division
  <1>3. portion <= A
    <2> HIDE DEF portion
    <2>1. CASE portion > A
      <3>1. A + 1 <= portion
        BY <1>2, <2>1
      <3>2. B * (A + 1) <= B * portion
        BY <1>2, <3>1, Multiply
      <3>3. A * F <= A * B
        BY Multiply
      <3>4. B * (A + 1) = A * B + B
        OBVIOUS
      <3>5. A * B \in Nat /\ B * portion \in Nat
        BY <1>2, ProductIsNat
      <3> QED  BY <1>1, <1>2, <3>2, <3>3, <3>4, <3>5
    <2> QED  BY <1>2, <2>1
  <1>4. rest \in Nat /\ rest <= A
    BY <1>2, <1>3
  <1>5. rest * G \in Nat
    <2> HIDE DEF rest
    <2> QED  BY <1>4, ProductIsNat
  <1>6. fee \in Nat /\ F * fee <= rest * G
    BY <1>5, Division
  <1>7. fee <= A
    <2> HIDE DEF rest, fee
    <2>1. CASE fee > A
      <3>1. A + 1 <= fee
        BY <1>6, <2>1
      <3>2. F * (A + 1) <= F * fee
        BY <1>6, <3>1, Multiply
      <3>3. rest * G <= rest * F
        BY <1>4, Multiply
      <3>4. F * rest <= F * A
        BY <1>4, Multiply
      <3>5. rest * F = F * rest /\ F * (A + 1) = F * A + F
        BY <1>4
      <3>6. F * A \in Nat /\ F * fee \in Nat /\ F * rest \in Nat
        BY <1>4, <1>6, ProductIsNat
      <3> QED  BY <1>5, <1>6, <3>2, <3>3, <3>4, <3>5, <3>6
    <2> QED  BY <1>6, <2>1
  <1> QED  BY <1>6, <1>7

\* A quotient truncated, multiplied by the bonus and truncated again.
LEMMA TruncatedTwice ==
    ASSUME NEW K \in Nat, NEW F \in Nat, NEW B \in Nat, NEW M \in Nat, NEW x \in Nat, NEW due \in Nat,
           K > 0, K * x <= M, M < K * x + K, F * due <= x * B, x * B < F * due + F
    PROVE  M * B - due * K * F \in 0 .. (B + F) * K - 1
  <1>1. K * (F * due) <= K * (x * B) /\ K * (x * B) < K * (F * due + F)
    BY ProductIsNat, Multiply, MultiplyStrict
  <1>2. B * (K * x) <= B * M /\ B * M <= B * (K * x + K)
    BY ProductIsNat, Multiply
  <1>3. /\ B * (K * x) = K * (x * B) /\ B * M = M * B /\ B * (K * x + K) = K * (x * B) + B * K
        /\ K * (F * due) = due * K * F /\ K * (F * due + F) = due * K * F + F * K
        /\ (B + F) * K = B * K + F * K
    OBVIOUS
  <1>4. M * B \in Nat /\ due * K * F \in Nat /\ B * K \in Nat /\ F * K \in Nat /\ K * (x * B) \in Nat
    BY ProductIsNat
  <1> QED  BY <1>1, <1>2, <1>3, <1>4

\* A quotient truncated, divided by the bonus and rounded up.
LEMMA TruncatedThenUp ==
    ASSUME NEW N \in Nat, NEW F \in Nat, NEW B \in Nat, NEW M \in Nat, NEW y \in Nat, NEW cover \in Nat,
           N > 0, F > 0, N * y <= M, M < N * y + N, y * F <= B * cover, B * cover < y * F + B
    PROVE  -(N * F) < cover * N * B - M * F /\ cover * N * B - M * F < N * B
  <1>1. N * (y * F) <= N * (B * cover) /\ N * (B * cover) < N * (y * F + B)
    BY ProductIsNat, Multiply, MultiplyStrict
  <1>2. F * (N * y) <= F * M /\ F * M < F * (N * y + N)
    BY ProductIsNat, Multiply, MultiplyStrict
  <1>3. /\ F * (N * y) = N * (y * F) /\ F * M = M * F /\ F * (N * y + N) = N * (y * F) + N * F
        /\ N * (B * cover) = cover * N * B /\ N * (y * F + B) = N * (y * F) + N * B
    OBVIOUS
  <1>4. M * F \in Nat /\ cover * N * B \in Nat /\ N * B \in Nat /\ N * F \in Nat /\ N * (y * F) \in Nat
    BY ProductIsNat
  <1> QED  BY <1>1, <1>2, <1>3, <1>4

LEMMA BonusFacts ==
    ASSUME StrategyAssumption, NEW pos \in Position, NEW c \in Assets
    PROVE  BonusOf(pos, c) \in Nat /\ (BonusOf(pos, c) = 0 \/ BonusOf(pos, c) >= PercentageFactor)
  BY DEF StrategyAssumption, BonusOf

LEMMA ValueNat ==
    ASSUME NEW p \in Prices, NEW a \in Assets, NEW n \in Nat
    PROVE  ValueInBaseCurrency(n, a, p) \in Nat
  <1>1. p[a] \in Nat /\ Unit[a] \in Nat /\ Unit[a] > 0
    BY StrategyAssumption DEF Prices, StrategyAssumption
  <1>2. n * p[a] \in Nat
    BY <1>1, ProductIsNat
  <1> QED  BY <1>1, <1>2, Division DEF ValueInBaseCurrency

LEMMA BalancesNat ==
    ASSUME NEW pos \in Position, NEW a \in Assets
    PROVE  DebtOf(pos, a) \in Nat /\ CollOf(pos, a) \in Nat
  BY StrategyAssumption, RayMulNat DEF DebtOf, CollOf, Position, StrategyAssumption

\* The debts of a position have a sum, in whichever order they are added.
LEMMA TotalNat ==
    ASSUME NEW pos \in Position, NEW p \in Prices
    PROVE  TotalDebtInBase(pos, p) \in Nat
  <1> DEFINE D == Debts(pos, p)
             val == [a \in D |-> ValueInBaseCurrency(DebtOf(pos, a), a, p)]
             choose == [s \in (SUBSET D) \ {{}} |-> CHOOSE y \in s : TRUE]
             F(g) == [s \in SUBSET D |-> IF s = {} THEN 0
                        ELSE LET x == CHOOSE y \in s : TRUE
                             IN  ValueInBaseCurrency(DebtOf(pos, x), x, p) + g[s \ {x}]]
             Sum(g) == g = F(g)
             h == CHOOSE g : Sum(g)
  <1>1. TotalDebtInBase(pos, p) = h[D]
    BY DEF TotalDebtInBase, MapThenSumSet, MapThenFoldSet
  <1>2. IsFiniteSet(D) /\ D \subseteq Assets
    BY StrategyAssumption, FS_Subset DEF Debts, StrategyAssumption
  <1>3. val \in [D -> Nat]
    BY <1>2, ValueNat, BalancesNat
  <1>4. Chooses(choose, D)
    <2> HIDE DEF D
    <2>1. \A s \in (SUBSET D) \ {{}} : (CHOOSE y \in s : TRUE) \in s
      OBVIOUS
    <2> QED  BY <2>1 DEF Chooses
  <1>5. ASSUME NEW g, NEW s \in SUBSET D
        PROVE  F(g)[s] = IF s = {} THEN 0 ELSE val[choose[s]] + g[s \ {choose[s]}]
    <2>1. CASE s # {}
      <3>1. choose[s] \in D /\ choose[s] = CHOOSE y \in s : TRUE
        BY <1>4, <2>1 DEF Chooses
      <3> HIDE DEF D
      <3> QED  BY <2>1, <3>1
    <2> QED  BY <2>1
  <1>6. \A g : DOMAIN F(g) = SUBSET D
    OBVIOUS
  <1> HIDE DEF D, val, choose, F
  <1>7. PICK g \in [SUBSET D -> Nat] : Adds(g, D, val, choose)
    BY <1>2, <1>3, <1>4, SumExists
  <1>8. Sum(g)
    <2>1. \A s \in SUBSET D : g[s] = F(g)[s]
      BY <1>5, <1>7 DEF Adds
    <2>2. F(g) = [s \in SUBSET D |-> F(g)[s]]
      BY DEF F
    <2> QED  BY <2>1, <2>2
  <1>9. h = F(h)
    BY <1>8
  <1> HIDE DEF h
  <1>10. Adds(h, D, val, choose)
    BY <1>5, <1>9 DEF Adds
  <1>11. h[D] \in Nat
    BY <1>2, <1>3, <1>4, <1>10, SumNat
  <1> QED  BY <1>1, <1>11

LEMMA LimitFacts ==
    ASSUME NEW pos \in Position, NEW p \in Prices, NEW nearOne \in BOOLEAN, NEW d \in Debts(pos, p)
    PROVE  /\ MaxLiquidatableDebt(pos, p, nearOne, d) \in Nat
           /\ MaxLiquidatableDebt(pos, p, nearOne, d) <= DebtOf(pos, d)
  <1> USE StrategyAssumption
  <1>1. d \in Assets /\ p[d] \in Nat /\ p[d] > 0 /\ Unit[d] \in Nat /\ Unit[d] > 0
    BY DEF StrategyAssumption, Debts, Prices
  <1>2. DebtOf(pos, d) \in Nat
    BY <1>1, BalancesNat
  <1>3. CloseLimit(pos, p) \in Nat
    <2>1. DefaultLiquidationCloseFactor \in Nat /\ PercentageFactor \in Nat /\ PercentageFactor > 0
      BY DEF StrategyAssumption
    <2>2. TotalDebtInBase(pos, p) * DefaultLiquidationCloseFactor \in Nat
      BY <2>1, TotalNat, ProductIsNat
    <2> QED  BY <2>1, <2>2, Division DEF CloseLimit
  <1>4. CASE Capped(pos, p, nearOne) /\ ValueInBaseCurrency(DebtOf(pos, d), d, p) > CloseLimit(pos, p)
    <2>1. (DebtOf(pos, d) * p[d]) \div Unit[d] > CloseLimit(pos, p)
      BY <1>4 DEF ValueInBaseCurrency
    <2>2. MaxLiquidatableDebt(pos, p, nearOne, d) = (CloseLimit(pos, p) * Unit[d]) \div p[d]
      BY <1>4 DEF MaxLiquidatableDebt
    <2> QED  BY <1>1, <1>2, <1>3, <2>1, <2>2, LimitWithinDebt
  <1>5. CASE ~(Capped(pos, p, nearOne) /\ ValueInBaseCurrency(DebtOf(pos, d), d, p) > CloseLimit(pos, p))
    BY <1>2, <1>5 DEF MaxLiquidatableDebt
  <1> QED  BY <1>4, <1>5

LEMMA FeeFacts ==
    ASSUME NEW c \in Assets, NEW B \in Nat, NEW A \in Nat,
           B = 0 \/ B >= PercentageFactor, B = 0 => ProtocolFee[c] = 0
    PROVE  FeeOf(c, B, A) \in 0 .. A
  <1> USE StrategyAssumption
  <1>1. CASE ProtocolFee[c] = 0
    BY <1>1 DEF FeeOf
  <1>2. CASE ProtocolFee[c] # 0
    <2>1. /\ ProtocolFee[c] \in Nat /\ ProtocolFee[c] <= PercentageFactor
          /\ PercentageFactor \in Nat /\ PercentageFactor > 0 /\ B >= PercentageFactor
      BY <1>2 DEF StrategyAssumption
    <2> QED  BY <1>2, <2>1, FeeWithin DEF FeeOf
  <1> QED  BY <1>1, <1>2

\* A pair's terms for a bonus B and a limit L: within the limit and the collateral there is.
LEMMA PairFits ==
    ASSUME NEW pos \in Position, NEW p \in Prices, NEW d \in Debts(pos, p), NEW c \in Colls(pos, p),
           NEW B \in Nat, B = 0 \/ B >= PercentageFactor, B = 0 => ProtocolFee[c] = 0, NEW L \in Nat,
           NEW due, due = CollateralFor(d, c, B, p, L),
           NEW taken, taken = IF due > CollOf(pos, c) THEN CollOf(pos, c) ELSE due,
           NEW cover, cover = IF due > CollOf(pos, c) THEN DebtFor(d, c, B, p, taken) ELSE L
    PROVE  /\ cover \in Nat /\ cover <= L
           /\ taken \in Nat /\ taken <= CollOf(pos, c)
           /\ taken - FeeOf(c, B, taken) \in 0 .. taken
  <1> DEFINE C == CollOf(pos, c)
             F == PercentageFactor
             P == p[d]
             Q == p[c]
             U == Unit[d]
             V == Unit[c]
  <1>1. d \in Assets /\ c \in Assets
    BY DEF Debts, Colls, Position
  <1>2. /\ P \in Nat /\ P > 0 /\ Q \in Nat /\ Q > 0
        /\ U \in Nat /\ U > 0 /\ V \in Nat /\ V > 0 /\ F \in Nat /\ F > 0
    BY <1>1, StrategyAssumption DEF Debts, Colls, Prices, StrategyAssumption
  <1>3. C \in Nat
    BY <1>1, BalancesNat
  <1>4. due \in Nat
    <2>1. P * L * V \in Nat /\ Q * U \in Nat /\ Q * U > 0
      <3>1. P * L \in Nat /\ Q * U \in Nat
        BY <1>2, ProductIsNat
      <3>2. Q * 0 < Q * U
        BY <1>2, MultiplyStrict
      <3> HIDE DEF P, V, Q, U
      <3> QED  BY <1>2, <3>1, <3>2, ProductIsNat
    <2>2. (P * L * V) \div (Q * U) \in Nat
      BY <2>1, Division
    <2>3. ((P * L * V) \div (Q * U)) * B \in Nat
      BY <2>2, ProductIsNat
    <2> QED  BY <1>2, <2>3, Division DEF CollateralFor
  <1>5. CASE due > C
    <2>1. taken = C /\ cover = DebtFor(d, c, B, p, C)
      BY <1>5
    <2>2. FeeOf(c, B, C) \in 0 .. C
      BY <1>1, <1>3, FeeFacts
    <2>3. DebtFor(d, c, B, p, C) \in Nat /\ DebtFor(d, c, B, p, C) <= L
      <3>1. CASE (Q * C * U) \div (P * V) = 0 \/ B = 0
        <4>1. DebtFor(d, c, B, p, C) = 0
          BY <3>1 DEF DebtFor, PercentDivCeil
        <4> QED  BY <4>1
      <3>2. CASE ~((Q * C * U) \div (P * V) = 0 \/ B = 0)
        <4>1. DebtFor(d, c, B, p, C) = (((Q * C * U) \div (P * V)) * F + B - 1) \div B
          BY <3>2 DEF DebtFor, PercentDivCeil
        <4>2. C < (((P * L * V) \div (Q * U)) * B) \div F
          BY <1>3, <1>4, <1>5 DEF CollateralFor
        <4>3. B > 0
          BY <3>2
        <4> HIDE DEF P, Q, U, V, F, C
        <4>4. /\ (((Q * C * U) \div (P * V)) * F + B - 1) \div B \in Nat
              /\ (((Q * C * U) \div (P * V)) * F + B - 1) \div B <= L
          BY <1>2, <1>3, <4>2, <4>3, CoverWithinLimit
        <4> QED  BY <4>1, <4>4 DEF P, Q, U, V, F, C
      <3> QED  BY <3>1, <3>2
    <2> HIDE DEF C
    <2> QED  BY <1>3, <2>1, <2>2, <2>3 DEF C
  <1>6. CASE ~(due > C)
    <2>1. taken = due /\ cover = L
      BY <1>6
    <2>2. FeeOf(c, B, due) \in 0 .. due
      BY <1>1, <1>4, FeeFacts
    <2> HIDE DEF C
    <2> QED  BY <1>3, <1>4, <1>6, <2>1, <2>2 DEF C
  <1> QED  BY <1>5, <1>6

\* Both branches of a pair's terms: the debt covered and the collateral taken are worth the same,
\* with the bonus, to within a unit of what was rounded last and a unit of what was rounded first.
LEMMA Balances ==
    ASSUME NEW pos \in Position, NEW p \in Prices, NEW d \in Debts(pos, p), NEW c \in Colls(pos, p),
           NEW B \in Nat, NEW L \in Nat,
           NEW due, due = CollateralFor(d, c, B, p, L),
           NEW taken, taken = IF due > CollOf(pos, c) THEN CollOf(pos, c) ELSE due,
           NEW cover, cover = IF due > CollOf(pos, c) THEN DebtFor(d, c, B, p, taken) ELSE L,
           NEW N, N = p[d] * Unit[c], NEW K, K = p[c] * Unit[d],
           NEW gap, gap = cover * N * B - taken * K * PercentageFactor
    PROVE  \/ gap \in 0 .. (B + PercentageFactor) * K - 1
           \/ /\ taken = CollOf(pos, c)
              /\ -(N * PercentageFactor) < gap /\ gap < N * B
  <1> DEFINE C == CollOf(pos, c)
             F == PercentageFactor
             P == p[d]
             Q == p[c]
             U == Unit[d]
             V == Unit[c]
             x == (P * L * V) \div (Q * U)
             y == (Q * C * U) \div (P * V)
  <1>1. d \in Assets /\ c \in Assets
    BY DEF Debts, Colls, Position
  <1>2. /\ P \in Nat /\ P > 0 /\ Q \in Nat /\ Q > 0
        /\ U \in Nat /\ U > 0 /\ V \in Nat /\ V > 0 /\ F \in Nat /\ F > 0
    BY <1>1, StrategyAssumption DEF Debts, Colls, Prices, StrategyAssumption
  <1>3. C \in Nat
    BY <1>1, BalancesNat
  <1>4. /\ N \in Nat /\ N > 0 /\ K \in Nat /\ K > 0 /\ N = P * V /\ K = Q * U
        /\ P * L * V = L * N /\ P * L * V \in Nat /\ Q * C * U = C * K /\ Q * C * U \in Nat
    <2> HIDE DEF P, Q, U, V, C
    <2>1. N = P * V /\ K = Q * U
      BY DEF P, Q, U, V
    <2>2. P * 0 < P * V /\ Q * 0 < Q * U
      BY <1>2, MultiplyStrict
    <2>3. N \in Nat /\ K \in Nat /\ P * L * V = L * N /\ Q * C * U = C * K
      BY <1>2, <1>3, <2>1
    <2>4. L * N \in Nat /\ C * K \in Nat
      BY <1>3, <2>3, ProductIsNat
    <2> QED  BY <1>2, <2>1, <2>2, <2>3, <2>4
  <1>5. x \in Nat /\ K * x <= L * N /\ L * N < K * x + K
    <2> HIDE DEF P, Q, U, V
    <2> QED  BY <1>4, Division
  <1>6. y \in Nat /\ N * y <= C * K /\ C * K < N * y + N
    <2> HIDE DEF P, Q, U, V, C
    <2> QED  BY <1>4, Division
  <1>7. due = (x * B) \div F
    BY DEF CollateralFor
  <1>8. DebtFor(d, c, B, p, C) = IF y = 0 \/ B = 0 THEN 0 ELSE (y * F + B - 1) \div B
    BY DEF DebtFor, PercentDivCeil
  <1> HIDE DEF P, Q, U, V, x, y
  <1>9. x * B \in Nat /\ y * F \in Nat /\ L * N \in Nat /\ C * K \in Nat
    <2> HIDE DEF C, F
    <2> QED  BY <1>2, <1>3, <1>4, <1>5, <1>6, ProductIsNat
  <1>10. due \in Nat /\ F * due <= x * B /\ x * B < F * due + F
    <2> HIDE DEF F
    <2> QED  BY <1>2, <1>7, <1>9, Division
  <1>11. CASE due > C
    <2>1. B > 0
      <3> SUFFICES ASSUME B = 0 PROVE FALSE
        OBVIOUS
      <3> HIDE DEF C, F
      <3>1. F * due <= 0
        BY <1>5, <1>10
      <3>2. F * 0 < F * due
        BY <1>2, <1>3, <1>10, <1>11, MultiplyStrict
      <3>3. F * 0 = 0 /\ F * due \in Nat
        BY <1>2, <1>10, ProductIsNat
      <3> HIDE <1>10
      <3> QED  BY <3>1, <3>2, <3>3
    <2>2. cover = DebtFor(d, c, B, p, C) /\ taken = C
      BY <1>11
    <2> HIDE DEF C, F
    <2>3. cover \in Nat /\ y * F <= B * cover /\ B * cover < y * F + B
      <3>1. CASE y = 0
        BY <1>2, <1>8, <2>1, <2>2, <3>1
      <3>2. CASE y # 0
        <4>1. cover = (y * F + B - 1) \div B
          BY <1>8, <2>1, <2>2, <3>2
        <4>2. y * F + B - 1 \in Nat
          BY <1>9, <2>1
        <4>3. cover \in Nat /\ B * cover <= y * F + B - 1 /\ y * F + B - 1 < B * cover + B
          BY <2>1, <4>1, <4>2, Division
        <4>4. B * cover \in Nat
          BY <4>3, ProductIsNat
        <4> QED  BY <1>9, <4>3, <4>4
      <3> QED  BY <3>1, <3>2
    <2>4. -(N * F) < cover * N * B - (C * K) * F /\ cover * N * B - (C * K) * F < N * B
      BY <1>2, <1>4, <1>6, <1>9, <2>3, TruncatedThenUp
    <2> QED  BY <2>2, <2>4 DEF F, C
  <1>12. CASE ~(due > C)
    <2>1. cover = L /\ taken = due
      BY <1>12
    <2> HIDE DEF F
    <2>2. (L * N) * B - due * K * F \in 0 .. (B + F) * K - 1
      BY <1>2, <1>4, <1>5, <1>9, <1>10, TruncatedTwice
    <2> QED  BY <2>1, <2>2 DEF F
  <1> QED  BY <1>11, <1>12

\* The terms of a pair of a position the calculation does not panic on.
LEMMA TermsFit ==
    ASSUME NEW pos \in Position, NEW p \in Prices, ~Panics(pos, p), NEW L \in Nat,
           NEW d \in Debts(pos, p), NEW c \in Colls(pos, p), NEW t, t = Terms(pos, p, L, d, c)
    PROVE  /\ t.cover \in Nat /\ t.cover <= L
           /\ t.taken \in Nat /\ t.taken <= CollOf(pos, c)
           /\ t.seized \in 0 .. t.taken
           /\ t.debt = d /\ t.coll = c
  <1> DEFINE B == BonusOf(pos, c)
             due == CollateralFor(d, c, B, p, L)
             taken == IF due > CollOf(pos, c) THEN CollOf(pos, c) ELSE due
             cover == IF due > CollOf(pos, c) THEN DebtFor(d, c, B, p, taken) ELSE L
  <1>1. c \in Assets
    BY DEF Colls, Position
  <1>2. B \in Nat /\ (B = 0 \/ B >= PercentageFactor)
    BY <1>1, StrategyAssumption, BonusFacts
  <1>3. B = 0 => ProtocolFee[c] = 0
    BY <1>1, StrategyAssumption DEF Panics, StrategyAssumption
  <1>4. /\ t.cover = cover /\ t.taken = taken /\ t.seized = taken - FeeOf(c, B, taken)
        /\ t.debt = d /\ t.coll = c
    BY DEF Terms
  <1>5. /\ cover \in Nat /\ cover <= L
        /\ taken \in Nat /\ taken <= CollOf(pos, c)
        /\ taken - FeeOf(c, B, taken) \in 0 .. taken
    <2> HIDE DEF B
    <2> QED  BY <1>2, <1>3, PairFits
  <1> QED  BY <1>4, <1>5

\* What the computation of a pair yields fits the position (strategy_engine.go:123-174): no more
\* debt is covered than the user owes, no more collateral counted on than he has, whatever
\* is truncated and rounded up on the way.
LEMMA Fits ==
    ASSUME user \in Position, price \in Prices
    PROVE  RecipeFits
  <1> SUFFICES ASSUME ~Panics(user, price), NEW nearOne \in BOOLEAN,
                      NEW d \in Debts(user, price), NEW c \in Colls(user, price)
               PROVE  LET t == Terms(user, price, MaxLiquidatableDebt(user, price, nearOne, d), d, c)
                      IN  /\ t.cover <= DebtOf(user, d)
                          /\ t.taken <= CollOf(user, c)
                          /\ t.seized \in 0 .. t.taken
    BY DEF RecipeFits
  <1> DEFINE L == MaxLiquidatableDebt(user, price, nearOne, d)
             t == Terms(user, price, L, d, c)
  <1>1. L \in Nat /\ L <= DebtOf(user, d)
    BY LimitFacts
  <1>2. DebtOf(user, d) \in Nat
    BY BalancesNat DEF Debts
  <1>3. t.cover \in Nat /\ t.cover <= L /\ t.taken <= CollOf(user, c) /\ t.seized \in 0 .. t.taken
    <2> HIDE DEF L
    <2> QED  BY <1>1, TermsFit
  <1> HIDE DEF L, t
  <1>4. t.cover <= DebtOf(user, d)
    BY <1>1, <1>2, <1>3
  <1> QED  BY <1>3, <1>4 DEF L, t

\* The two loops over the reserves, for any set Ok of pairs that leave enough and any recipe
\* rec[q] of a pair q.  In order comes a reserve after the other; one turn keeps the better.
Improve(v, q, Ok, rec) == IF q \in Ok /\ rec[q].profit > v.profit THEN rec[q] ELSE v

\* v is the best of the pairs P, or no pair of P is profitable.
BestOf(v, P, Ok, rec, none) ==
    /\ v = none \/ \E q \in P : q \in Ok /\ rec[q].profit > 0 /\ v = rec[q]
    /\ \A q \in P : q \in Ok => rec[q].profit <= v.profit

Offers(Pairs, rec, none) == none.profit = 0 /\ \A q \in Pairs : rec[q].profit \in Int

\* What there can be after some turns.
Candidates(Pairs, Ok, rec, none) == {none} \cup {rec[q] : q \in {r \in Pairs : r \in Ok /\ rec[r].profit > 0}}

LEMMA ImproveBest ==
    ASSUME NEW Pairs, NEW Ok, NEW rec, NEW none, Offers(Pairs, rec, none),
           NEW P \in SUBSET Pairs, NEW q \in Pairs, NEW v, BestOf(v, P, Ok, rec, none)
    PROVE  BestOf(Improve(v, q, Ok, rec), P \cup {q}, Ok, rec, none)
  <1>1. v.profit \in Int /\ v.profit >= 0
    <2>1. CASE v = none
      BY <2>1 DEF Offers
    <2>2. CASE \E r \in P : r \in Ok /\ rec[r].profit > 0 /\ v = rec[r]
      BY <2>2 DEF Offers
    <2> QED  BY <2>1, <2>2 DEF BestOf
  <1>2. rec[q].profit \in Int
    BY DEF Offers
  <1>3. \A r \in P : rec[r].profit \in Int /\ (r \in Ok => rec[r].profit <= v.profit)
    BY DEF Offers, BestOf
  <1>4. CASE q \in Ok /\ rec[q].profit > v.profit
    <2>1. Improve(v, q, Ok, rec) = rec[q]
      BY <1>4 DEF Improve
    <2>2. rec[q].profit > 0
      BY <1>1, <1>2, <1>4
    <2>3. \A r \in P \cup {q} : r \in Ok => rec[r].profit <= rec[q].profit
      BY <1>1, <1>2, <1>3, <1>4
    <2> QED  BY <1>4, <2>1, <2>2, <2>3 DEF BestOf
  <1>5. CASE ~(q \in Ok /\ rec[q].profit > v.profit)
    <2>1. Improve(v, q, Ok, rec) = v
      BY <1>5 DEF Improve
    <2>2. \A r \in P \cup {q} : r \in Ok => rec[r].profit <= v.profit
      BY <1>1, <1>2, <1>3, <1>5
    <2>3. v = none \/ \E r \in P \cup {q} : r \in Ok /\ rec[r].profit > 0 /\ v = rec[r]
      BY DEF BestOf
    <2> QED  BY <2>1, <2>2, <2>3 DEF BestOf
  <1> QED  BY <1>4, <1>5

LEMMA BestIsCandidate ==
    ASSUME NEW Pairs, NEW Ok, NEW rec, NEW none, NEW P \in SUBSET Pairs, NEW v, BestOf(v, P, Ok, rec, none)
    PROVE  v \in Candidates(Pairs, Ok, rec, none)
  BY DEF BestOf, Candidates

LEMMA CandidateIsBest ==
    ASSUME NEW Pairs, NEW Ok, NEW rec, NEW none, Offers(Pairs, rec, none),
           NEW v \in Candidates(Pairs, Ok, rec, none)
    PROVE  \E P \in SUBSET Pairs : BestOf(v, P, Ok, rec, none)
  <1>1. CASE v = none
    <2>1. {} \in SUBSET Pairs /\ BestOf(v, {}, Ok, rec, none)
      BY <1>1 DEF BestOf
    <2> QED  BY <2>1
  <1>2. ASSUME NEW q \in Pairs, q \in Ok, rec[q].profit > 0, v = rec[q]
        PROVE  \E P \in SUBSET Pairs : BestOf(v, P, Ok, rec, none)
    <2>1. rec[q].profit \in Int
      BY DEF Offers
    <2>2. {q} \in SUBSET Pairs /\ BestOf(v, {q}, Ok, rec, none)
      BY <1>2, <2>1 DEF BestOf
    <2> QED  BY <2>2
  <1> QED  BY <1>1, <1>2 DEF Candidates

Hindmost(n) == [s \in SUBSET (1 .. n) |-> Max(s)]

LEMMA LastChooses == ASSUME NEW n \in Nat PROVE Chooses(Hindmost(n), 1 .. n) /\ IsFiniteSet(1 .. n)
  <1>1. ASSUME NEW s \in SUBSET (1 .. n), s # {} PROVE Max(s) \in s
    <2> DEFINE M == {n - x : x \in s}
    <2>1. M \in SUBSET Nat /\ M # {}
      BY <1>1
    <2>2. PICK m \in M : \A k \in M : m <= k
      <3> HIDE DEF M
      <3> QED  BY <2>1, MinNat
    <2>3. PICK x \in s : m = n - x
      BY <2>2
    <2>4. ASSUME NEW y \in s PROVE x >= y
      <3>1. n - x <= n - y /\ x \in Int /\ y \in Int
        BY <2>2, <2>3
      <3> QED  BY <3>1
    <2>5. \E z \in s : \A y \in s : z >= y
      BY <2>4
    <2> QED  BY <2>5 DEF Max
  <1>2. IsFiniteSet(1 .. n)
    BY FS_Interval
  <1> QED  BY <1>1, <1>2 DEF Chooses, Hindmost

\* The inner loop for a debt d and what it began with, and the pairs it has seen.
InnerTurn(v, c, d, Cs, Ok, rec) == IF c \in Cs THEN Improve(v, <<d, c>>, Ok, rec) ELSE v

InnerLoop(h, b, d, n, order, Cs, Ok, rec) ==
    \A s \in SUBSET (1 .. n) :
        h[s] = IF s = {} THEN b
               ELSE InnerTurn(h[s \ {Hindmost(n)[s]}], order[Hindmost(n)[s]], d, Cs, Ok, rec)

SeenWith(d, s, order, Cs) == {<<d, order[i]>> : i \in {j \in s : order[j] \in Cs}}

LEMMA InnerTurnBest ==
    ASSUME NEW Ds, NEW Cs, NEW Ok, NEW rec, NEW none, Offers(Ds \X Cs, rec, none), NEW d \in Ds,
           NEW P \in SUBSET (Ds \X Cs), NEW v, BestOf(v, P, Ok, rec, none), NEW c
    PROVE  /\ c \in Cs => BestOf(InnerTurn(v, c, d, Cs, Ok, rec), P \cup {<<d, c>>}, Ok, rec, none)
           /\ c \notin Cs => BestOf(InnerTurn(v, c, d, Cs, Ok, rec), P, Ok, rec, none)
  <1>1. CASE c \in Cs
    <2>1. <<d, c>> \in Ds \X Cs
      BY <1>1
    <2>2. InnerTurn(v, c, d, Cs, Ok, rec) = Improve(v, <<d, c>>, Ok, rec)
      BY <1>1 DEF InnerTurn
    <2> QED  BY <1>1, <2>1, <2>2, ImproveBest
  <1>2. CASE c \notin Cs
    BY <1>2 DEF InnerTurn
  <1> QED  BY <1>1, <1>2

LEMMA InnerExists ==
    ASSUME NEW Ds, NEW Cs, NEW Ok, NEW rec, NEW none, Offers(Ds \X Cs, rec, none), NEW d \in Ds,
           NEW n \in Nat, NEW order, NEW b \in Candidates(Ds \X Cs, Ok, rec, none)
    PROVE  \E g \in [SUBSET (1 .. n) -> Candidates(Ds \X Cs, Ok, rec, none)] :
              InnerLoop(g, b, d, n, order, Cs, Ok, rec)
  <1> DEFINE V == Candidates(Ds \X Cs, Ok, rec, none)
             D == 1 .. n
             step == [i \in D |-> [v \in V |-> InnerTurn(v, order[i], d, Cs, Ok, rec)]]
  <1>1. ASSUME NEW v \in V, NEW c PROVE InnerTurn(v, c, d, Cs, Ok, rec) \in V
    <2>1. PICK P \in SUBSET (Ds \X Cs) : BestOf(v, P, Ok, rec, none)
      BY CandidateIsBest
    <2>2. \E R \in SUBSET (Ds \X Cs) : BestOf(InnerTurn(v, c, d, Cs, Ok, rec), R, Ok, rec, none)
      <3>1. CASE c \in Cs
        <4>1. P \cup {<<d, c>>} \in SUBSET (Ds \X Cs)
          BY <3>1
        <4> QED  BY <2>1, <3>1, <4>1, InnerTurnBest
      <3>2. CASE c \notin Cs
        BY <2>1, <3>2, InnerTurnBest
      <3> QED  BY <3>1, <3>2
    <2> QED  BY <2>2, BestIsCandidate
  <1>2. IsFiniteSet(D) /\ Chooses(Hindmost(n), D)
    BY LastChooses
  <1> HIDE DEF V
  <1>3. step \in [D -> [V -> V]]
    BY <1>1
  <1>4. \A i \in D, v \in V : step[i][v] = InnerTurn(v, order[i], d, Cs, Ok, rec)
    OBVIOUS
  <1>5. b \in V
    BY DEF V
  <1>6. PICK g \in [SUBSET D -> V] : Unwinds(g, D, b, Hindmost(n), step)
    <2> HIDE DEF D, step
    <2> QED  BY <1>2, <1>3, <1>5, Removal
  <1>7. ASSUME NEW s \in SUBSET D
        PROVE  g[s] = IF s = {} THEN b
                      ELSE InnerTurn(g[s \ {Hindmost(n)[s]}], order[Hindmost(n)[s]], d, Cs, Ok, rec)
    <2> HIDE DEF step, D
    <2>1. g[s] = IF s = {} THEN b ELSE step[Hindmost(n)[s]][g[s \ {Hindmost(n)[s]}]]
      BY <1>6 DEF Unwinds
    <2>2. CASE s # {}
      <3>1. Hindmost(n)[s] \in D /\ g[s \ {Hindmost(n)[s]}] \in V
        BY <1>2, <2>2 DEF Chooses
      <3> QED  BY <1>4, <2>1, <2>2, <3>1
    <2> QED  BY <2>1, <2>2
  <1> QED  BY <1>7 DEF InnerLoop, V

LEMMA InnerBest ==
    ASSUME NEW Ds, NEW Cs, NEW Ok, NEW rec, NEW none, Offers(Ds \X Cs, rec, none), NEW d \in Ds,
           NEW n \in Nat, NEW order, NEW P \in SUBSET (Ds \X Cs), NEW b, BestOf(b, P, Ok, rec, none),
           NEW h, InnerLoop(h, b, d, n, order, Cs, Ok, rec)
    PROVE  BestOf(h[1 .. n], P \cup SeenWith(d, 1 .. n, order, Cs), Ok, rec, none)
  <1> DEFINE D == 1 .. n
             All(s) == P \cup SeenWith(d, s, order, Cs)
             T == {s \in SUBSET D : BestOf(h[s], All(s), Ok, rec, none)}
  <1>1. IsFiniteSet(D) /\ Chooses(Hindmost(n), D)
    BY LastChooses
  <1>2. {} \in T
    <2>1. {} \in SUBSET D
      OBVIOUS
    <2>2. h[{}] = b
      BY <2>1 DEF InnerLoop
    <2>3. All({}) = P
      BY DEF SeenWith
    <2> QED  BY <2>1, <2>2, <2>3
  <1>3. ASSUME NEW s \in SUBSET D, s # {}, s \ {Hindmost(n)[s]} \in T PROVE s \in T
    <2> DEFINE x == Hindmost(n)[s]
               r == s \ {x}
               c == order[x]
    <2>1. x \in s
      BY <1>1, <1>3 DEF Chooses
    <2>2. h[s] = InnerTurn(h[r], c, d, Cs, Ok, rec)
      BY <1>3 DEF InnerLoop
    <2>3. BestOf(h[r], All(r), Ok, rec, none)
      BY <1>3
    <2> HIDE DEF x
    <2>4. All(r) \in SUBSET (Ds \X Cs)
      BY DEF SeenWith
    <2>5. c \in Cs => All(s) = All(r) \cup {<<d, c>>}
      BY <2>1 DEF SeenWith
    <2>6. c \notin Cs => All(s) = All(r)
      BY <2>1 DEF SeenWith
    <2> HIDE DEF All, r, c
    <2>7. BestOf(h[s], All(s), Ok, rec, none)
      <3> DEFINE R == All(r)
                 v == h[r]
      <3>1. R \in SUBSET (Ds \X Cs) /\ BestOf(v, R, Ok, rec, none)
        BY <2>3, <2>4
      <3> HIDE DEF R, v
      <3>2. /\ c \in Cs => BestOf(InnerTurn(v, c, d, Cs, Ok, rec), R \cup {<<d, c>>}, Ok, rec, none)
            /\ c \notin Cs => BestOf(InnerTurn(v, c, d, Cs, Ok, rec), R, Ok, rec, none)
        BY <3>1, InnerTurnBest
      <3>3. /\ c \in Cs => BestOf(h[s], All(r) \cup {<<d, c>>}, Ok, rec, none)
            /\ c \notin Cs => BestOf(h[s], All(r), Ok, rec, none)
        BY <2>2, <3>2 DEF R, v
      <3> QED  BY <2>5, <2>6, <3>3
    <2> QED  BY <2>7
  <1>4. \A s \in SUBSET D : s # {} => \E x \in s : s \ {x} \in T => s \in T
    <2> HIDE DEF T
    <2> QED  BY <1>1, <1>3 DEF Chooses
  <1>5. T \in SUBSET SUBSET D
    OBVIOUS
  <1>6. D \in T
    <2> HIDE DEF T, D
    <2>1. T = SUBSET D
      BY <1>1, <1>2, <1>4, <1>5, SetInduction
    <2> QED  BY <2>1
  <1> QED  BY <1>6

\* The outer loop, given what the inner one makes of every candidate, and the pairs it has seen.
OuterTurn(v, d, Ds, in) == IF d \in Ds THEN in[d][v] ELSE v

OuterLoop(h, n, order, Ds, in, V, none) ==
    \A s \in SUBSET (1 .. n) :
        IF s = {} THEN h[s] = none
        ELSE h[s \ {Hindmost(n)[s]}] \in V => h[s] = OuterTurn(h[s \ {Hindmost(n)[s]}], order[Hindmost(n)[s]], Ds, in)

InnerWorks(in, n, order, Ds, Cs, Ok, rec, none) ==
    /\ in \in [Ds -> [Candidates(Ds \X Cs, Ok, rec, none) -> Candidates(Ds \X Cs, Ok, rec, none)]]
    /\ \A d \in Ds, v \in Candidates(Ds \X Cs, Ok, rec, none), P \in SUBSET (Ds \X Cs) :
          BestOf(v, P, Ok, rec, none)
          => BestOf(in[d][v], P \cup SeenWith(d, 1 .. n, order, Cs), Ok, rec, none)

SeenBy(s, n, order, Ds, Cs) ==
    UNION {SeenWith(order[i], 1 .. n, order, Cs) : i \in {j \in s : order[j] \in Ds}}

LEMMA OuterExists ==
    ASSUME NEW Ds, NEW V, NEW in \in [Ds -> [V -> V]], NEW n \in Nat, NEW order, NEW none \in V
    PROVE  \E g \in [SUBSET (1 .. n) -> V] : OuterLoop(g, n, order, Ds, in, V, none)
  <1> DEFINE D == 1 .. n
             step == [i \in D |-> [v \in V |-> OuterTurn(v, order[i], Ds, in)]]
  <1>1. IsFiniteSet(D) /\ Chooses(Hindmost(n), D)
    BY LastChooses
  <1>2. step \in [D -> [V -> V]]
    BY DEF OuterTurn
  <1>3. \A i \in D, v \in V : step[i][v] = OuterTurn(v, order[i], Ds, in)
    OBVIOUS
  <1>4. PICK g \in [SUBSET D -> V] : Unwinds(g, D, none, Hindmost(n), step)
    <2> HIDE DEF D, step
    <2> QED  BY <1>1, <1>2, Removal
  <1>5. ASSUME NEW s \in SUBSET D
        PROVE  IF s = {} THEN g[s] = none
               ELSE g[s] = OuterTurn(g[s \ {Hindmost(n)[s]}], order[Hindmost(n)[s]], Ds, in)
    <2> HIDE DEF step, D
    <2>1. g[s] = IF s = {} THEN none ELSE step[Hindmost(n)[s]][g[s \ {Hindmost(n)[s]}]]
      BY <1>4 DEF Unwinds
    <2>2. CASE s # {}
      <3>1. Hindmost(n)[s] \in D /\ g[s \ {Hindmost(n)[s]}] \in V
        BY <1>1, <2>2 DEF Chooses
      <3> QED  BY <1>3, <2>1, <2>2, <3>1
    <2> QED  BY <2>1, <2>2
  <1> QED  BY <1>5 DEF OuterLoop

LEMMA OuterBest ==
    ASSUME NEW Ds, NEW Cs, NEW Ok, NEW rec, NEW none, NEW n \in Nat, NEW order,
           NEW in, InnerWorks(in, n, order, Ds, Cs, Ok, rec, none),
           NEW h, OuterLoop(h, n, order, Ds, in, Candidates(Ds \X Cs, Ok, rec, none), none)
    PROVE  BestOf(h[1 .. n], SeenBy(1 .. n, n, order, Ds, Cs), Ok, rec, none)
  <1> DEFINE D == 1 .. n
             V == Candidates(Ds \X Cs, Ok, rec, none)
             All(s) == SeenBy(s, n, order, Ds, Cs)
             T == {s \in SUBSET D : BestOf(h[s], All(s), Ok, rec, none)}
  <1>1. IsFiniteSet(D) /\ Chooses(Hindmost(n), D)
    BY LastChooses
  <1>2. {} \in T
    <2>1. {} \in SUBSET D
      OBVIOUS
    <2>2. h[{}] = none
      BY <2>1 DEF OuterLoop
    <2>3. All({}) = {}
      BY DEF SeenBy
    <2>4. BestOf(none, {}, Ok, rec, none)
      BY DEF BestOf
    <2> QED  BY <2>1, <2>2, <2>3, <2>4
  <1>3. ASSUME NEW s \in SUBSET D, s # {}, s \ {Hindmost(n)[s]} \in T PROVE s \in T
    <2> DEFINE x == Hindmost(n)[s]
               r == s \ {x}
               d == order[x]
               v == h[r]
               R == All(r)
    <2>1. x \in s
      BY <1>1, <1>3 DEF Chooses
    <2>2. BestOf(v, R, Ok, rec, none)
      BY <1>3
    <2>3. R \in SUBSET (Ds \X Cs)
      BY DEF SeenBy, SeenWith
    <2>4. v \in V
      <3> HIDE DEF v, R
      <3> QED  BY <2>2, <2>3, BestIsCandidate
    <2>5. h[s] = OuterTurn(v, d, Ds, in)
      BY <1>3, <2>4 DEF OuterLoop
    <2> HIDE DEF x
    <2>6. d \in Ds => All(s) = R \cup SeenWith(d, 1 .. n, order, Cs)
      BY <2>1 DEF SeenBy
    <2>7. d \notin Ds => All(s) = R
      BY <2>1 DEF SeenBy
    <2> HIDE DEF All, r, d, v, R, V
    <2>8. BestOf(h[s], All(s), Ok, rec, none)
      <3>1. CASE d \in Ds
        <4>1. h[s] = in[d][v]
          BY <2>5, <3>1 DEF OuterTurn
        <4>2. BestOf(in[d][v], R \cup SeenWith(d, 1 .. n, order, Cs), Ok, rec, none)
          BY <2>2, <2>3, <2>4, <3>1 DEF InnerWorks, V
        <4> QED  BY <2>6, <3>1, <4>1, <4>2
      <3>2. CASE d \notin Ds
        BY <2>2, <2>5, <2>7, <3>2 DEF OuterTurn
      <3> QED  BY <3>1, <3>2
    <2> QED  BY <2>8
  <1>4. \A s \in SUBSET D : s # {} => \E x \in s : s \ {x} \in T => s \in T
    <2> HIDE DEF T
    <2> QED  BY <1>1, <1>3 DEF Chooses
  <1>5. T \in SUBSET SUBSET D
    OBVIOUS
  <1>6. D \in T
    <2> HIDE DEF T, D
    <2>1. T = SUBSET D
      BY <1>1, <1>2, <1>4, <1>5, SetInduction
    <2> QED  BY <2>1
  <1> QED  BY <1>6

\* An order of the reserves of a position meets each of them.
LEMMA OrderMeetsAll ==
    ASSUME NEW pos \in Position, NEW p \in Prices, NEW order \in Orders(pos, p)
    PROVE  \E n \in Nat :
              /\ DOMAIN order = 1 .. n
              /\ \A a \in Debts(pos, p) \cup Colls(pos, p) : \E i \in 1 .. n : order[i] = a
  <1> DEFINE S == Debts(pos, p) \cup Colls(pos, p)
             n == Cardinality(S)
  <1>1. S \subseteq Assets
    BY DEF Debts, Colls, Position
  <1>2. IsFiniteSet(S) /\ n \in Nat
    <2> HIDE DEF S
    <2> QED  BY <1>1, StrategyAssumption, FS_Subset, FS_CardinalityType DEF StrategyAssumption, n
  <1>3. order \in [1 .. n -> S] /\ \A i, j \in 1 .. n : i # j => order[i] # order[j]
    BY DEF Orders, SetToSeqs
  <1> HIDE DEF S, n
  <1>4. order \in Injection(1 .. n, S)
    BY <1>3 DEF Injection, IsInjective
  <1>5. Cardinality(1 .. n) = n
    BY <1>2, FS_Interval
  <1>6. order \in Surjection(1 .. n, S)
    BY <1>2, <1>4, <1>5, FS_Injection DEF n
  <1>7. \A a \in S : \E i \in 1 .. n : order[i] = a
    BY <1>6 DEF Surjection
  <1> QED  BY <1>2, <1>3, <1>7 DEF S

\* The recipe of a pair, and the pairs that leave enough.
TermsOf(pos, p, nearOne, q) == Terms(pos, p, MaxLiquidatableDebt(pos, p, nearOne, q[1]), q[1], q[2])
Pairs(pos, p) == Debts(pos, p) \X Colls(pos, p)
RecipeOf(pos, p, nearOne) ==
    [q \in Pairs(pos, p) |-> [TermsOf(pos, p, nearOne, q) EXCEPT !.profit = Profit(p, TermsOf(pos, p, nearOne, q))]]
Leaving(pos, p, nearOne) == {q \in Pairs(pos, p) : LeavesEnough(pos, p, TermsOf(pos, p, nearOne, q))}

LEMMA TermsOfFit ==
    ASSUME NEW pos \in Position, NEW p \in Prices, ~Panics(pos, p), NEW nearOne \in BOOLEAN,
           NEW q \in Pairs(pos, p), NEW t, t = TermsOf(pos, p, nearOne, q)
    PROVE  /\ t.cover \in Nat /\ t.cover <= DebtOf(pos, q[1])
           /\ t.taken \in Nat /\ t.taken <= CollOf(pos, q[2])
           /\ t.seized \in 0 .. t.taken
           /\ t.debt = q[1] /\ t.coll = q[2]
           /\ q[1] \in Assets /\ q[2] \in Assets
  <1> DEFINE d == q[1]
             c == q[2]
             L == MaxLiquidatableDebt(pos, p, nearOne, d)
  <1>1. d \in Debts(pos, p) /\ c \in Colls(pos, p) /\ d \in Assets /\ c \in Assets
    BY DEF Pairs, Debts, Colls, Position
  <1>2. t = Terms(pos, p, L, d, c)
    BY DEF TermsOf
  <1> HIDE DEF d, c
  <1>3. L \in Nat /\ L <= DebtOf(pos, d) /\ DebtOf(pos, d) \in Nat
    BY <1>1, LimitFacts, BalancesNat
  <1> HIDE DEF L
  <1>4. /\ t.cover \in Nat /\ t.cover <= L
        /\ t.taken \in Nat /\ t.taken <= CollOf(pos, c)
        /\ t.seized \in 0 .. t.taken
        /\ t.debt = d /\ t.coll = c
    BY <1>1, <1>2, <1>3, TermsFit
  <1>5. t.cover <= DebtOf(pos, d)
    BY <1>3, <1>4
  <1> QED  BY <1>1, <1>4, <1>5 DEF d, c

LEMMA ProfitInt ==
    ASSUME NEW p \in Prices, NEW t, t.debt \in Assets, t.coll \in Assets, t.cover \in Nat, t.seized \in Nat
    PROVE  Profit(p, t) \in Int
  <1>1. /\ PercentageFactor \in Nat /\ PercentageFactor > 0 /\ PercentageFactor - Slippage \in Nat
        /\ PercentageFactor + FlashloanFee \in Nat /\ GasCost \in Nat
    BY StrategyAssumption DEF StrategyAssumption
  <1> DEFINE revenue == ValueInBaseCurrency(t.seized, t.coll, p)
             net == (revenue * (PercentageFactor - Slippage)) \div PercentageFactor
             loan == (t.cover * (PercentageFactor + FlashloanFee)) \div PercentageFactor
             cost == ValueInBaseCurrency(loan, t.debt, p)
  <1>2. revenue \in Nat
    BY ValueNat
  <1>3. net \in Nat
    <2> HIDE DEF revenue
    <2>1. revenue * (PercentageFactor - Slippage) \in Nat
      BY <1>1, <1>2, ProductIsNat
    <2> QED  BY <1>1, <2>1, Division
  <1>4. loan \in Nat
    <2>1. t.cover * (PercentageFactor + FlashloanFee) \in Nat
      BY <1>1, ProductIsNat
    <2> QED  BY <1>1, <2>1, Division
  <1>5. cost \in Nat
    <2> HIDE DEF loan
    <2> QED  BY <1>4, ValueNat
  <1>6. Profit(p, t) = net - cost - GasCost
    BY DEF Profit
  <1> HIDE DEF net, cost
  <1> QED  BY <1>1, <1>3, <1>5, <1>6

\* A pair's recipe is its terms, with the profit they promise.
LEMMA RecipeFacts ==
    ASSUME NEW pos \in Position, NEW p \in Prices, ~Panics(pos, p), NEW nearOne \in BOOLEAN,
           NEW q \in Pairs(pos, p), NEW r, r = RecipeOf(pos, p, nearOne)[q],
           NEW t, t = TermsOf(pos, p, nearOne, q)
    PROVE  /\ r.profit = Profit(p, t) /\ r.profit \in Int
           /\ r.debt = t.debt /\ r.coll = t.coll /\ r.cover = t.cover /\ r.taken = t.taken
           /\ r.seized = t.seized
  <1>1. /\ t.cover \in Nat /\ t.seized \in Nat /\ t.debt \in Assets /\ t.coll \in Assets
    BY TermsOfFit
  <1>2. Profit(p, t) \in Int
    BY <1>1, ProfitInt
  <1>3. r = [t EXCEPT !.profit = Profit(p, t)]
    BY DEF RecipeOf
  <1>4. DOMAIN t = {"debt", "coll", "cover", "taken", "seized", "profit"}
    BY DEF TermsOf, Terms
  <1> QED  BY <1>2, <1>3, <1>4

LEMMA OffersHold ==
    ASSUME NEW pos \in Position, NEW p \in Prices, ~Panics(pos, p), NEW nearOne \in BOOLEAN
    PROVE  Offers(Pairs(pos, p), RecipeOf(pos, p, nearOne), NoRecipe)
  BY RecipeFacts DEF Offers, NoRecipe

\* One turn of the inner loop in the code is one turn of the abstract loop.
LEMMA BetterImproves ==
    ASSUME NEW pos \in Position, NEW p \in Prices, ~Panics(pos, p), NEW nearOne \in BOOLEAN,
           NEW d \in Debts(pos, p), NEW c \in Colls(pos, p), NEW v
    PROVE  Better(v, pos, p, Terms(pos, p, MaxLiquidatableDebt(pos, p, nearOne, d), d, c))
           = Improve(v, <<d, c>>, Leaving(pos, p, nearOne), RecipeOf(pos, p, nearOne))
  <1> DEFINE q == <<d, c>>
             t == TermsOf(pos, p, nearOne, q)
             r == RecipeOf(pos, p, nearOne)[q]
  <1>1. q \in Pairs(pos, p) /\ q[1] = d /\ q[2] = c
    BY DEF Pairs
  <1>2. t = Terms(pos, p, MaxLiquidatableDebt(pos, p, nearOne, d), d, c)
    BY DEF TermsOf
  <1>3. r = [t EXCEPT !.profit = Profit(p, t)]
    BY <1>1 DEF RecipeOf
  <1> HIDE DEF q
  <1>4. r.profit = Profit(p, t)
    <2> HIDE DEF t, r
    <2> QED  BY <1>1, RecipeFacts DEF t, r
  <1>5. q \in Leaving(pos, p, nearOne) <=> LeavesEnough(pos, p, t)
    BY <1>1 DEF Leaving
  <1> HIDE DEF t, r
  <1>6. Better(v, pos, p, t) = IF LeavesEnough(pos, p, t) /\ r.profit > v.profit THEN r ELSE v
    BY <1>3, <1>4 DEF Better
  <1>7. Improve(v, q, Leaving(pos, p, nearOne), RecipeOf(pos, p, nearOne))
        = IF q \in Leaving(pos, p, nearOne) /\ r.profit > v.profit THEN r ELSE v
    BY DEF Improve, r
  <1> QED  BY <1>2, <1>5, <1>6, <1>7 DEF q

\* For any order of the reserves the calculation ends with the best of all pairs, or with none.
LEMMA CalculationBest ==
    ASSUME NEW pos \in Position, NEW p \in Prices, ~Panics(pos, p), NEW nearOne \in BOOLEAN,
           NEW order \in Orders(pos, p)
    PROVE  BestOf(CalculateOptimalRecipe(pos, p, nearOne, order), Pairs(pos, p),
                  Leaving(pos, p, nearOne), RecipeOf(pos, p, nearOne), NoRecipe)
  <1> DEFINE debts == Debts(pos, p)
             colls == Colls(pos, p)
             limit == [d \in debts |-> MaxLiquidatableDebt(pos, p, nearOne, d)]
             InnerF(b, d, g) ==
                [s \in SUBSET DOMAIN order |->
                    IF s = {} THEN b
                    ELSE LET x == Max(s)
                         IN  IF order[x] \in colls
                             THEN Better(g[s \ {x}], pos, p, Terms(pos, p, limit[d], d, order[x]))
                             ELSE g[s \ {x}]]
             InnerH(b, d) == CHOOSE g : g = InnerF(b, d, g)
             Inner(b, d) == IF d \in debts THEN InnerH(b, d)[DOMAIN order] ELSE b
             OuterF(g) ==
                [s \in SUBSET DOMAIN order |->
                    IF s = {} THEN NoRecipe
                    ELSE LET x == Max(s) IN Inner(g[s \ {x}], order[x])]
             OuterH == CHOOSE g : g = OuterF(g)
             Ok == Leaving(pos, p, nearOne)
             rec == RecipeOf(pos, p, nearOne)
             V == Candidates(debts \X colls, Ok, rec, NoRecipe)
             in == [d \in debts |-> [v \in V |-> Inner(v, d)]]
  <1>1. CalculateOptimalRecipe(pos, p, nearOne, order) = OuterH[DOMAIN order]
    BY DEF CalculateOptimalRecipe, FoldLeft, MapThenFoldSet
  <1>2. PICK n \in Nat : /\ DOMAIN order = 1 .. n
                         /\ \A a \in debts \cup colls : \E i \in 1 .. n : order[i] = a
    BY OrderMeetsAll
  <1>3. Chooses(Hindmost(n), 1 .. n)
    BY LastChooses
  <1>4. Offers(debts \X colls, rec, NoRecipe)
    BY OffersHold DEF Pairs
  <1> DEFINE Turn(b, d, g, s) ==
                IF s = {} THEN b
                ELSE InnerTurn(g[s \ {Hindmost(n)[s]}], order[Hindmost(n)[s]], d, colls, Ok, rec)
  <1>5. ASSUME NEW d \in debts, NEW b, NEW g
        PROVE  /\ DOMAIN InnerF(b, d, g) = SUBSET (1 .. n)
               /\ \A s \in SUBSET (1 .. n) : InnerF(b, d, g)[s] = Turn(b, d, g, s)
    <2>1. ASSUME NEW s \in SUBSET (1 .. n), s # {}
          PROVE  InnerF(b, d, g)[s] = InnerTurn(g[s \ {Hindmost(n)[s]}], order[Hindmost(n)[s]], d, colls, Ok, rec)
      <3> DEFINE x == Max(s)
                 v == g[s \ {x}]
                 c == order[x]
      <3>1. x = Hindmost(n)[s]
        BY DEF Hindmost
      <3>2. InnerF(b, d, g)[s] = IF c \in colls THEN Better(v, pos, p, Terms(pos, p, limit[d], d, c)) ELSE v
        BY <1>2, <2>1
      <3>3. limit[d] = MaxLiquidatableDebt(pos, p, nearOne, d)
        OBVIOUS
      <3> HIDE DEF x, v, c, InnerF, limit
      <3>4. c \in colls => Better(v, pos, p, Terms(pos, p, limit[d], d, c)) = Improve(v, <<d, c>>, Ok, rec)
        BY <3>3, BetterImproves
      <3>5. InnerF(b, d, g)[s] = InnerTurn(v, c, d, colls, Ok, rec)
        BY <3>2, <3>4 DEF InnerTurn
      <3> QED  BY <3>1, <3>5 DEF v, c
    <2>2. ASSUME NEW s \in SUBSET (1 .. n), s = {} PROVE InnerF(b, d, g)[s] = b
      BY <1>2, <2>2
    <2>3. DOMAIN InnerF(b, d, g) = SUBSET (1 .. n)
      BY <1>2
    <2> HIDE DEF InnerF
    <2> QED  BY <2>1, <2>2, <2>3
  <1>6. ASSUME NEW d \in debts, NEW b \in V
        PROVE  InnerLoop(InnerH(b, d), b, d, n, order, colls, Ok, rec)
    <2> DEFINE Is(g) == g = InnerF(b, d, g)
               h == InnerH(b, d)
    <2>1. PICK g \in [SUBSET (1 .. n) -> V] : InnerLoop(g, b, d, n, order, colls, Ok, rec)
      <3> HIDE DEF debts, colls, Ok, rec
      <3> QED  BY <1>4, InnerExists
    <2>2. Is(g)
      <3> DEFINE f == InnerF(b, d, g)
      <3>1. f = [s \in SUBSET (1 .. n) |-> f[s]]
        BY <1>2
      <3>2. \A s \in SUBSET (1 .. n) : g[s] = f[s]
        <4> HIDE DEF InnerF, debts, colls, Ok, rec, V
        <4> TAKE s \in SUBSET (1 .. n)
        <4>1. f[s] = IF s = {} THEN b ELSE InnerTurn(g[s \ {Hindmost(n)[s]}], order[Hindmost(n)[s]], d, colls, Ok, rec)
          BY <1>5
        <4>2. g[s] = IF s = {} THEN b ELSE InnerTurn(g[s \ {Hindmost(n)[s]}], order[Hindmost(n)[s]], d, colls, Ok, rec)
          BY <2>1 DEF InnerLoop
        <4> QED  BY <4>1, <4>2
      <3> HIDE DEF f
      <3>3. g = f
        BY <3>1, <3>2
      <3> QED  BY <3>3 DEF f
    <2>3. h = InnerF(b, d, h)
      <3>1. h = CHOOSE k : Is(k)
        OBVIOUS
      <3> HIDE DEF Is, h
      <3>2. Is(h)
        BY <2>2, <3>1
      <3> QED  BY <3>2 DEF Is
    <2> HIDE DEF h, InnerF
    <2>4. InnerLoop(h, b, d, n, order, colls, Ok, rec)
      <3> HIDE DEF debts, colls, Ok, rec, V, Turn
      <3>1. \A s \in SUBSET (1 .. n) : InnerF(b, d, h)[s] = Turn(b, d, h, s)
        BY <1>5
      <3>2. \A s \in SUBSET (1 .. n) : h[s] = Turn(b, d, h, s)
        BY <2>3, <3>1
      <3> QED  BY <3>2 DEF InnerLoop, Turn
    <2> QED  BY <2>4 DEF h
  <1> HIDE DEF InnerF, InnerH
  <1>7. ASSUME NEW d \in debts, NEW v \in V, NEW P \in SUBSET (debts \X colls),
               BestOf(v, P, Ok, rec, NoRecipe)
        PROVE  BestOf(Inner(v, d), P \cup SeenWith(d, 1 .. n, order, colls), Ok, rec, NoRecipe)
    <2>1. InnerLoop(InnerH(v, d), v, d, n, order, colls, Ok, rec)
      BY <1>6
    <2>2. Inner(v, d) = InnerH(v, d)[1 .. n]
      BY <1>2
    <2> DEFINE h == InnerH(v, d)
    <2> HIDE DEF h, debts, colls, Ok, rec, Inner
    <2>3. BestOf(h[1 .. n], P \cup SeenWith(d, 1 .. n, order, colls), Ok, rec, NoRecipe)
      BY <1>4, <1>7, <2>1, InnerBest DEF h
    <2> QED  BY <2>2, <2>3 DEF h
  <1> HIDE DEF debts, colls, Ok, rec, Inner
  <1>8. ASSUME NEW d \in debts, NEW v \in V PROVE Inner(v, d) \in V
    <2>1. PICK P \in SUBSET (debts \X colls) : BestOf(v, P, Ok, rec, NoRecipe)
      BY <1>4, CandidateIsBest
    <2> DEFINE R == P \cup SeenWith(d, 1 .. n, order, colls)
    <2>2. R \in SUBSET (debts \X colls)
      BY DEF SeenWith
    <2>3. BestOf(Inner(v, d), R, Ok, rec, NoRecipe)
      BY <1>7, <2>1
    <2> HIDE DEF R
    <2> QED  BY <2>2, <2>3, BestIsCandidate
  <1>9. InnerWorks(in, n, order, debts, colls, Ok, rec, NoRecipe)
    <2> HIDE DEF V
    <2>1. in \in [debts -> [V -> V]]
      BY <1>8
    <2>2. \A d \in debts, v \in V : in[d][v] = Inner(v, d)
      OBVIOUS
    <2> HIDE DEF in
    <2> QED  BY <1>7, <2>1, <2>2 DEF InnerWorks, V
  <1>10. ASSUME NEW g
         PROVE  /\ DOMAIN OuterF(g) = SUBSET (1 .. n)
                /\ \A s \in SUBSET (1 .. n) :
                      OuterF(g)[s] = IF s = {} THEN NoRecipe ELSE Inner(g[s \ {Hindmost(n)[s]}], order[Hindmost(n)[s]])
    BY <1>2 DEF Hindmost
  <1>11. \A d, v : v \in V => OuterTurn(v, d, debts, in) = Inner(v, d)
    <2> HIDE DEF V
    <2> QED  BY DEF OuterTurn, Inner
  <1>12. OuterH = OuterF(OuterH)
    <2> DEFINE Is(g) == g = OuterF(g)
    <2>1. in \in [debts -> [V -> V]] /\ NoRecipe \in V
      BY <1>9 DEF InnerWorks, Candidates
    <2> HIDE DEF in
    <2>2. PICK g \in [SUBSET (1 .. n) -> V] : OuterLoop(g, n, order, debts, in, V, NoRecipe)
      <3> HIDE DEF V
      <3> QED  BY <2>1, OuterExists
    <2>3. Is(g)
      <3> DEFINE f == OuterF(g)
      <3>1. f = [s \in SUBSET (1 .. n) |-> f[s]]
        BY <1>2
      <3>2. \A s \in SUBSET (1 .. n) : g[s] = f[s]
        <4> HIDE DEF OuterF, V
        <4> TAKE s \in SUBSET (1 .. n)
        <4>1. CASE s = {}
          BY <1>10, <2>2, <4>1 DEF OuterLoop
        <4>2. CASE s # {}
          <5>1. g[s \ {Hindmost(n)[s]}] \in V
            OBVIOUS
          <5>2. g[s] = OuterTurn(g[s \ {Hindmost(n)[s]}], order[Hindmost(n)[s]], debts, in)
            BY <2>2, <4>2, <5>1 DEF OuterLoop
          <5> QED  BY <1>10, <1>11, <4>2, <5>1, <5>2
        <4> QED  BY <4>1, <4>2
      <3> HIDE DEF f
      <3>3. g = f
        BY <3>1, <3>2
      <3> QED  BY <3>3 DEF f
    <2>4. OuterH = CHOOSE k : Is(k)
      OBVIOUS
    <2> HIDE DEF Is, OuterH
    <2>5. Is(OuterH)
      BY <2>3, <2>4
    <2> QED  BY <2>5 DEF Is
  <1> HIDE DEF OuterH, OuterF, in, V
  <1>13. OuterLoop(OuterH, n, order, debts, in, V, NoRecipe)
    <2> SUFFICES ASSUME NEW s \in SUBSET (1 .. n)
                 PROVE  IF s = {} THEN OuterH[s] = NoRecipe
                        ELSE OuterH[s \ {Hindmost(n)[s]}] \in V
                             => OuterH[s] = OuterTurn(OuterH[s \ {Hindmost(n)[s]}], order[Hindmost(n)[s]], debts, in)
      BY DEF OuterLoop
    <2>1. OuterH[s] = OuterF(OuterH)[s]
      BY <1>12
    <2>2. OuterH[s] = IF s = {} THEN NoRecipe ELSE Inner(OuterH[s \ {Hindmost(n)[s]}], order[Hindmost(n)[s]])
      BY <1>10, <2>1
    <2> QED  BY <1>11, <2>2
  <1>14. BestOf(OuterH[1 .. n], SeenBy(1 .. n, n, order, debts, colls), Ok, rec, NoRecipe)
    BY <1>9, <1>13, OuterBest DEF V
  <1>15. SeenBy(1 .. n, n, order, debts, colls) = debts \X colls
    BY <1>2 DEF SeenBy, SeenWith
  <1> QED  BY <1>1, <1>2, <1>14, <1>15 DEF Pairs, debts, colls, Ok, rec

LEMMA NearOneBoolean == ASSUME NEW pos, NEW p PROVE NearOne(pos, p) \in BOOLEAN
  BY DEF NearOne

\* A recipe the worker gets is that of a profitable pair that leaves enough.
LEMMA RecipeOrigin ==
    ASSUME NEW pos \in Position, NEW p \in Prices, ~Panics(pos, p), NEW nearOne \in BOOLEAN,
           NEW r \in Recipes(pos, p, nearOne)
    PROVE  \E q \in Leaving(pos, p, nearOne) :
              r = RecipeOf(pos, p, nearOne)[q] /\ r.profit > 0
  <1>1. PICK o \in Orders(pos, p) : r = CalculateOptimalRecipe(pos, p, nearOne, o) /\ r # NoRecipe
    BY DEF Recipes
  <1>2. BestOf(r, Pairs(pos, p), Leaving(pos, p, nearOne), RecipeOf(pos, p, nearOne), NoRecipe)
    BY <1>1, CalculationBest
  <1> QED  BY <1>1, <1>2 DEF BestOf

\* The recipe found is the best of all, in whichever order the map of the reserves is walked
\* (strategy_engine.go:65-279).
LEMMA OptimalHolds == ASSUME user \in Position, price \in Prices PROVE Optimal
  <1> DEFINE nearOne == NearOne(user, price)
             limit == [d \in Debts(user, price) |-> MaxLiquidatableDebt(user, price, nearOne, d)]
             pairs == {Terms(user, price, limit[d], d, c) : d \in Debts(user, price), c \in Colls(user, price)}
             gains == {0} \cup {Profit(price, t) : t \in {u \in pairs : LeavesEnough(user, price, u)}}
  <1> SUFFICES ASSUME ~Panics(user, price), NEW o \in Orders(user, price)
               PROVE  CalculateOptimalRecipe(user, price, nearOne, o).profit = Max(gains)
    BY DEF Optimal
  <1> DEFINE best == CalculateOptimalRecipe(user, price, nearOne, o)
             Ok == Leaving(user, price, nearOne)
             rec == RecipeOf(user, price, nearOne)
             P == Pairs(user, price)
  <1>1. nearOne \in BOOLEAN
    BY NearOneBoolean
  <1>2. BestOf(best, P, Ok, rec, NoRecipe)
    <2> HIDE DEF nearOne
    <2> QED  BY <1>1, CalculationBest
  <1>3. \A q \in P : rec[q].profit = Profit(price, TermsOf(user, price, nearOne, q)) /\ rec[q].profit \in Int
    <2> HIDE DEF nearOne
    <2> QED  BY <1>1, RecipeFacts
  <1>4. gains = {0} \cup {rec[q].profit : q \in Ok}
    <2>1. pairs = {TermsOf(user, price, nearOne, q) : q \in P}
      <3>1. ASSUME NEW d \in Debts(user, price), NEW c \in Colls(user, price)
            PROVE  /\ <<d, c>> \in P
                   /\ Terms(user, price, limit[d], d, c) = TermsOf(user, price, nearOne, <<d, c>>)
        BY DEF TermsOf, Pairs
      <3>2. \A q \in P : q[1] \in Debts(user, price) /\ q[2] \in Colls(user, price) /\ q = <<q[1], q[2]>>
        BY DEF Pairs
      <3> HIDE DEF P, limit, nearOne
      <3>3. ASSUME NEW x \in pairs PROVE \E q \in P : x = TermsOf(user, price, nearOne, q)
        <4>1. PICK d \in Debts(user, price), c \in Colls(user, price) :
                    x = Terms(user, price, limit[d], d, c)
          OBVIOUS
        <4> HIDE DEF pairs
        <4>2. <<d, c>> \in P /\ x = TermsOf(user, price, nearOne, <<d, c>>)
          BY <3>1, <4>1
        <4> QED  BY <4>2
      <3>4. ASSUME NEW q \in P PROVE TermsOf(user, price, nearOne, q) \in pairs
        <4>1. TermsOf(user, price, nearOne, q) = Terms(user, price, limit[q[1]], q[1], q[2])
          BY <3>1, <3>2
        <4> QED  BY <3>2, <4>1
      <3> HIDE DEF pairs
      <3> QED  BY <3>3, <3>4
    <2> HIDE DEF pairs, rec, nearOne, P
    <2>2. {u \in pairs : LeavesEnough(user, price, u)} = {TermsOf(user, price, nearOne, q) : q \in Ok}
      BY <2>1 DEF Leaving, P
    <2>3. \A q \in Ok : q \in P
      BY DEF Leaving, P
    <2> HIDE DEF Ok
    <2> QED  BY <1>3, <2>2, <2>3
  <1>5. \A q \in Ok : q \in P
    BY DEF Leaving, Pairs
  <1> HIDE DEF gains, best, Ok, rec, P, nearOne
  <1>6. /\ best.profit \in gains
        /\ \A g \in gains : best.profit >= g /\ g \in Int
    <2>1. CASE best = NoRecipe
      <3>1. best.profit = 0
        BY <2>1 DEF NoRecipe
      <3>2. \A q \in Ok : rec[q].profit <= best.profit /\ rec[q].profit \in Int
        BY <1>2, <1>3, <1>5 DEF BestOf
      <3> QED  BY <1>4, <3>1, <3>2
    <2>2. CASE \E q \in P : q \in Ok /\ rec[q].profit > 0 /\ best = rec[q]
      <3>1. PICK q \in P : q \in Ok /\ rec[q].profit > 0 /\ best = rec[q]
        BY <2>2
      <3>2. \A r \in Ok : rec[r].profit <= best.profit /\ rec[r].profit \in Int
        BY <1>2, <1>3, <1>5 DEF BestOf
      <3>3. best.profit \in Int /\ best.profit > 0
        BY <1>3, <3>1
      <3> QED  BY <1>4, <3>1, <3>2, <3>3
    <2> QED  BY <1>2, <2>1, <2>2 DEF BestOf
  <1>7. \A x \in gains : (\A y \in gains : x >= y) => x = best.profit
    BY <1>6
  <1>8. Max(gains) = best.profit
    BY <1>6, <1>7 DEF Max
  <1> QED  BY <1>8 DEF best

\* What a pair counts on is worth what it covers (strategy_engine.go:138-162), for every position,
\* all prices, units and bonuses, whether or not the collateral suffices.
LEMMA BalanceHolds == ASSUME user \in Position, price \in Prices PROVE TermsBalance
  <1> SUFFICES ASSUME ~Panics(user, price), NEW nearOne \in BOOLEAN,
                      NEW d \in Debts(user, price), NEW c \in Colls(user, price)
               PROVE  LET t == Terms(user, price, MaxLiquidatableDebt(user, price, nearOne, d), d, c)
                          bonus == BonusOf(user, c)
                          debtUnit == price[d] * Unit[c]
                          collUnit == price[c] * Unit[d]
                          gap == t.cover * debtUnit * bonus - t.taken * collUnit * PercentageFactor
                      IN  \/ gap \in 0 .. (bonus + PercentageFactor) * collUnit - 1
                          \/ /\ t.taken = CollOf(user, c)
                             /\ -(debtUnit * PercentageFactor) < gap /\ gap < debtUnit * bonus
    BY DEF TermsBalance
  <1> DEFINE L == MaxLiquidatableDebt(user, price, nearOne, d)
             t == Terms(user, price, L, d, c)
             B == BonusOf(user, c)
             due == CollateralFor(d, c, B, price, L)
             taken == IF due > CollOf(user, c) THEN CollOf(user, c) ELSE due
             cover == IF due > CollOf(user, c) THEN DebtFor(d, c, B, price, taken) ELSE L
             N == price[d] * Unit[c]
             K == price[c] * Unit[d]
             gap == cover * N * B - taken * K * PercentageFactor
  <1>1. L \in Nat
    BY LimitFacts
  <1>2. c \in Assets
    BY DEF Colls, Position
  <1>3. B \in Nat
    BY <1>2, StrategyAssumption, BonusFacts
  <1>4. t.cover = cover /\ t.taken = taken
    BY DEF Terms
  <1>5. \/ gap \in 0 .. (B + PercentageFactor) * K - 1
        \/ taken = CollOf(user, c) /\ -(N * PercentageFactor) < gap /\ gap < N * B
    <2> HIDE DEF L, B
    <2> QED  BY <1>1, <1>3, Balances
  <1> QED  BY <1>4, <1>5

LEMMA PoolBonusNat == ASSUME NEW pos \in Position, NEW c \in Assets PROVE PoolBonus(pos, c) \in Nat
  BY StrategyAssumption DEF StrategyAssumption, PoolBonus, Position

LEMMA GiftsAreTokens == ASSUME LiquidationAssumption, NEW g \in Gifts PROVE g[1] \in Assets /\ g[2] \in Nat
  BY DEF LiquidationAssumption

\* An order that is being sent is an order for two tokens.
Tokens == [debt : Assets, coll : Assets, cover : Nat]
Busy == {"estimate", "nonce", "fees", "send", "nil"}
HasOrder == \A w \in Workers : call[w].pc \in Busy => call[w].order \in Tokens

TypeInv == TypeOK /\ HasOrder

States == Busy \cup {"idle", "error"}
Call == [pc : States, order : CallData, attempt : 0 .. maxRPCRetries, nonce : 0 .. MaxNonce]

LEMMA CallTyped == ASSUME TypeOK PROVE call \in [Workers -> Call]
  BY DEF TypeOK, Call, States, Busy

LEMMA RestingTyped == ASSUME NEW pc \in {"idle", "error"} PROVE Resting(pc) \in Call /\ Resting(pc).pc \notin Busy
  <1>1. Order(NoRecipe) \in CallData
    BY DEF CallData
  <1>2. maxRPCRetries \in Nat /\ MaxNonce \in Nat
    BY LiquidationAssumption DEF LiquidationAssumption
  <1> QED  BY <1>1, <1>2 DEF Resting, Call, States, Busy

LEMMA PositionsTyped == ASSUME Init PROVE user \in Position /\ price \in Prices
  BY LiquidationAssumption DEF LiquidationAssumption, Init

LEMMA InitTypes == ASSUME Init PROVE TypeInv
  <1>1. user \in Position /\ price \in Prices
    BY PositionsTyped
  <1>2. TotalDebtInBase(user, price) \in Nat
    BY <1>1, TotalNat
  <1>3. MaxNonce \in Nat /\ MaxCalls \in Nat
    BY LiquidationAssumption DEF LiquidationAssumption
  <1>4. call \in [Workers -> Call] /\ HasOrder
    BY RestingTyped DEF Init, HasOrder
  <1> QED  BY <1>1, <1>2, <1>3, <1>4 DEF Init, TypeInv, TypeOK, Call, States, Busy

\* What the pool pays and takes are amounts of the order's tokens.
LEMMA SettledTyped ==
    ASSUME NEW pos \in Position, NEW p \in Prices, NEW t, t.cover \in Nat, NEW s \in liquidationCall(pos, p, t)
    PROVE  /\ s.debt \in Assets /\ s.coll \in Assets /\ s.debt = t.debt /\ s.coll = t.coll
           /\ s.cover \in Nat /\ s.taken \in Nat /\ s.seized \in Nat
  <1> DEFINE B == PoolBonus(pos, t.coll)
             N == p[t.debt] * Unit[t.coll] * B
             K == p[t.coll] * Unit[t.debt] * PercentageFactor
             due(n) == (n * N) \div K
             taken(n) == Least(due(n), CollOf(pos, t.coll))
             pays(n) == IF taken(n) < due(n) THEN Least(n, 1 + (taken(n) * K) \div N) ELSE n
  <1>1. /\ B > 0 /\ t.debt \in Debts(pos, p) /\ t.coll \in Colls(pos, p)
        /\ \E owed \in {DebtOf(pos, t.debt), DebtOf(pos, t.debt) \div 2} :
              /\ s.debt = t.debt /\ s.coll = t.coll /\ s.taken = taken(Least(t.cover, owed))
              /\ s.cover = pays(Least(t.cover, owed))
              /\ s.seized \in {taken(Least(t.cover, owed)), (taken(Least(t.cover, owed)) * PercentageFactor) \div B}
    BY DEF liquidationCall
  <1>2. t.debt \in Assets /\ t.coll \in Assets
    BY <1>1 DEF Debts, Colls, Position
  <1>3. /\ p[t.debt] \in Nat /\ p[t.debt] > 0 /\ p[t.coll] \in Nat /\ p[t.coll] > 0
        /\ Unit[t.debt] \in Nat /\ Unit[t.debt] > 0 /\ Unit[t.coll] \in Nat /\ Unit[t.coll] > 0
        /\ PercentageFactor \in Nat /\ PercentageFactor > 0 /\ B \in Nat
    BY <1>1, <1>2, StrategyAssumption, PoolBonusNat DEF Debts, Colls, Prices, StrategyAssumption
  <1>4. ASSUME NEW a \in Nat, NEW b \in Nat, NEW k \in Nat, a > 0, b > 0, k > 0
        PROVE  a * b * k \in Nat /\ a * b * k > 0
    <2>1. a * 0 < a * b
      BY <1>4, MultiplyStrict
    <2>2. a * b \in Nat /\ a * b > 0
      BY <1>4, <2>1, ProductIsNat
    <2>3. k * 0 < k * (a * b)
      BY <1>4, <2>2, MultiplyStrict
    <2>4. k * (a * b) \in Nat /\ k * (a * b) = a * b * k
      BY <2>2, ProductIsNat
    <2> QED  BY <1>4, <2>3, <2>4
  <1>5. N \in Nat /\ N > 0 /\ K \in Nat /\ K > 0
    BY <1>1, <1>3, <1>4
  <1>6. DebtOf(pos, t.debt) \in Nat /\ DebtOf(pos, t.debt) \div 2 \in Nat /\ CollOf(pos, t.coll) \in Nat
    BY <1>2, BalancesNat, Division
  <1> HIDE DEF N, K
  <1>7. ASSUME NEW n \in Nat PROVE taken(n) \in Nat /\ pays(n) \in Nat /\ (taken(n) * PercentageFactor) \div B \in Nat
    <2>1. due(n) \in Nat
      BY <1>5, ProductIsNat, Division
    <2>2. taken(n) \in Nat
      BY <1>6, <2>1 DEF Least
    <2> HIDE DEF taken
    <2>3. (taken(n) * K) \div N \in Nat
      BY <1>5, <2>2, ProductIsNat, Division
    <2>4. pays(n) \in Nat
      BY <2>3 DEF Least
    <2>5. (taken(n) * PercentageFactor) \div B \in Nat
      <3> HIDE DEF B
      <3> QED  BY <1>1, <1>3, <2>2, ProductIsNat, Division DEF B
    <2> QED  BY <2>2, <2>4, <2>5
  <1> HIDE DEF taken, pays, B
  <1>8. ASSUME NEW owed \in Nat PROVE Least(t.cover, owed) \in Nat
    BY DEF Least
  <1> QED  BY <1>1, <1>2, <1>6, <1>7, <1>8

\* What the exchange takes is part of what it is offered.
LEMMA SwapTyped ==
    ASSUME NEW c, NEW d, NEW p, NEW n \in Nat, NEW x \in Swaps(c, d, p, n)
    PROVE  x.in \in Nat /\ x.in <= n
  <1>1. x.in \in {n, n \div 2}
    BY DEF Swaps
  <1>2. n \div 2 \in Nat /\ 2 * (n \div 2) <= n
    BY Division
  <1> QED  BY <1>1, <1>2

LEMMA LiquidatedTyped ==
    ASSUME NEW pos \in Position, NEW t, t.debt \in Assets, t.coll \in Assets, t.cover \in Nat, t.taken \in Nat
    PROVE  Liquidated(pos, t) \in Position
  <1>1. ASSUME NEW a \in Nat, NEW b \in Nat \ {0} PROVE RayDiv(a, b) \in Nat
    <2>1. a * Ray \in Nat /\ b \div 2 \in Nat
      BY StrategyAssumption, ProductIsNat, Division DEF StrategyAssumption
    <2>2. a * Ray + b \div 2 \in Nat
      BY <2>1
    <2> QED  BY <2>2, Division DEF RayDiv
  <1>2. ASSUME NEW x \in Nat, NEW y \in Nat PROVE Less(x, y) \in Nat
    BY DEF Less
  <1>3. /\ pos.debt \in [Assets -> Nat] /\ pos.coll \in [Assets -> Nat]
        /\ pos.used \in SUBSET Assets /\ pos.emode \in Categories \cup {0}
    BY DEF Position
  <1> DEFINE x == Less(pos.debt[t.debt], RayDiv(t.cover, BorrowIndex[t.debt]))
             y == Less(pos.coll[t.coll], RayDiv(t.taken, LiquidityIndex[t.coll]))
  <1>4. x \in Nat /\ y \in Nat
    <2>1. BorrowIndex[t.debt] \in Nat \ {0} /\ LiquidityIndex[t.coll] \in Nat \ {0}
      BY StrategyAssumption DEF StrategyAssumption
    <2>2. RayDiv(t.cover, BorrowIndex[t.debt]) \in Nat /\ RayDiv(t.taken, LiquidityIndex[t.coll]) \in Nat
      BY <1>1, <2>1
    <2> QED  BY <1>2, <1>3, <2>2
  <1>5. Liquidated(pos, t) = [pos EXCEPT !.debt = [pos.debt EXCEPT ![t.debt] = x],
                                         !.coll = [pos.coll EXCEPT ![t.coll] = y]]
    BY DEF Liquidated, Position
  <1> HIDE DEF x, y
  <1>6. [pos.debt EXCEPT ![t.debt] = x] \in [Assets -> Nat] /\ [pos.coll EXCEPT ![t.coll] = y] \in [Assets -> Nat]
    BY <1>3, <1>4
  <1> QED  BY <1>5, <1>6 DEF Position

LEMMA EnvironmentTypes == ASSUME TypeInv, Environment PROVE TypeInv'
  <1>1. /\ user \in Position /\ price \in Prices /\ held \in [Assets -> Nat]
        /\ account \in 0 .. MaxNonce /\ MaxNonce \in Nat
    BY LiquidationAssumption DEF TypeInv, TypeOK, LiquidationAssumption
  <1>2. ASSUME user' \in Position, price' \in Prices, held' \in [Assets -> Nat], account' \in 0 .. MaxNonce,
               UNCHANGED <<accepted, call, asked>>
        PROVE  TypeInv'
    <2>1. TotalDebtInBase(user, price)' \in Nat
      <3>1. TotalDebtInBase(user', price') \in Nat
        BY <1>2, TotalNat
      <3>2. TotalDebtInBase(user, price)' = TotalDebtInBase(user', price')
        BY DEF TotalDebtInBase, MapThenSumSet, MapThenFoldSet, Debts, DebtOf, ValueInBaseCurrency, RayMul
      <3> QED  BY <3>1, <3>2
    <2> QED  BY <1>2, <2>1 DEF TypeInv, TypeOK, HasOrder
  <1>3. ASSUME NEW t \in accepted, Mine(t) PROVE TypeInv'
    <2>1. t \in [nonce : 0 .. MaxNonce - 1, debt : Assets, coll : Assets, cover : Nat]
      BY DEF TypeInv, TypeOK
    <2>2. account' \in 0 .. MaxNonce /\ UNCHANGED <<price, accepted, call, asked>>
      BY <1>1, <1>3, <2>1 DEF Mine
    <2>3. CASE UNCHANGED <<user, held>>
      BY <1>1, <1>2, <2>2, <2>3
    <2>4. ASSUME NEW o \in Outcomes(t), executeArbitrage(t, o) PROVE TypeInv'
      <3>1. /\ o.pool \in liquidationCall(user, price, t)
            /\ o.swap \in Swaps(t.coll, t.debt, price, ActualCollateral(t, o.pool))
        BY <2>4 DEF Outcomes
      <3> DEFINE s == o.pool
                 x == o.swap
      <3>2. /\ s.debt \in Assets /\ s.coll \in Assets /\ t.coll \in Assets
            /\ s.cover \in Nat /\ s.taken \in Nat /\ s.seized \in Nat
        BY <1>1, <2>1, <3>1, SettledTyped
      <3>3. user' = Liquidated(user, s) /\ held' = HeldAfter(t, s, x)
        BY <2>4 DEF executeArbitrage
      <3>4. ActualCollateral(t, s) \in Nat
        BY <1>1, <3>2 DEF ActualCollateral
      <3>5. x.in \in Nat /\ x.in <= ActualCollateral(t, s)
        BY <3>1, <3>4, SwapTyped
      <3> HIDE DEF s, x
      <3>6. user' \in Position
        BY <1>1, <3>2, <3>3, LiquidatedTyped
      <3>7. ActualCollateral(t, s) - x.in \in Nat
        BY <3>4, <3>5
      <3>8. held' \in [Assets -> Nat]
        BY <1>1, <3>3, <3>7 DEF HeldAfter
      <3> QED  BY <1>1, <1>2, <2>2, <3>6, <3>8
    <2> QED  BY <1>3, <2>3, <2>4 DEF Mine
  <1>4. ASSUME NEW a \in Assets, rescueTokens(a) PROVE TypeInv'
    BY <1>1, <1>2, <1>4 DEF rescueTokens
  <1>5. ASSUME NEW g \in Gifts, Gift(g[1], g[2]) PROVE TypeInv'
    BY <1>1, <1>2, <1>5, GiftsAreTokens, LiquidationAssumption DEF Gift
  <1>6. CASE UserRepays
    <2>1. user' = [user EXCEPT !.debt = [a \in Assets |-> 0]]
      BY <1>6 DEF UserRepays
    <2>2. user' \in Position
      BY <1>1, <2>1 DEF Position
    <2> QED  BY <1>1, <1>2, <1>6, <2>2 DEF UserRepays
  <1>7. ASSUME NEW p \in PriceLists, PricesMove(p) PROVE TypeInv'
    <2>1. p \in Prices
      BY LiquidationAssumption DEF LiquidationAssumption
    <2> QED  BY <1>1, <1>2, <1>7, <2>1 DEF PricesMove
  <1> QED  BY <1>3, <1>4, <1>5, <1>6, <1>7 DEF Environment

LEMMA RecipeTyped ==
    ASSUME NEW pos \in Position, NEW p \in Prices, ~Panics(pos, p), NEW nearOne \in BOOLEAN,
           NEW r \in Recipes(pos, p, nearOne)
    PROVE  Order(r) \in Tokens
  <1>1. PICK q \in Leaving(pos, p, nearOne) : r = RecipeOf(pos, p, nearOne)[q]
    BY RecipeOrigin
  <1>2. q \in Pairs(pos, p)
    BY DEF Leaving
  <1> DEFINE t == TermsOf(pos, p, nearOne, q)
  <1>3. t.cover \in Nat /\ t.debt \in Assets /\ t.coll \in Assets
    BY <1>2, TermsOfFit
  <1>4. r.debt = t.debt /\ r.coll = t.coll /\ r.cover = t.cover
    BY <1>1, <1>2, RecipeFacts
  <1> HIDE DEF t
  <1> QED  BY <1>3, <1>4 DEF Order, Tokens

LEMMA WorkerTypes ==
    ASSUME TypeInv, NEW w \in Workers, SendLiquidation(w) \/ Step(w) PROVE TypeInv'
  <1>1. call \in [Workers -> Call] /\ HasOrder
    BY CallTyped DEF TypeInv
  <1>2. /\ user \in Position /\ price \in Prices /\ account \in 0 .. MaxNonce /\ MaxNonce \in Nat
        /\ MaxCalls \in Nat /\ asked \in 0 .. MaxCalls /\ maxRPCRetries \in Nat /\ maxRPCRetries > 0
    BY LiquidationAssumption DEF TypeInv, TypeOK, LiquidationAssumption
  <1>3. UNCHANGED chain
    BY DEF SendLiquidation, Step, RequestFails, EstimateGas, SuggestGas, PendingNonceAt, Broadcast,
           BroadcastFails
  <1>4. asked' \in 0 .. MaxCalls
    BY <1>2 DEF SendLiquidation, Step, RequestFails, EstimateGas, SuggestGas, PendingNonceAt, Broadcast,
                BroadcastFails
  \* The call of w becomes c, an order to send among them.
  <1> DEFINE Sound(c) == c \in Call /\ (c.pc \in Busy => c.order \in Tokens)
  <1>5. ASSUME NextAttempt(w), call[w].pc \in Busy
        PROVE  \E c : Sound(c) /\ call' = [call EXCEPT ![w] = c]
    <2> DEFINE k == call[w]
               next == k.attempt + 1
               c == [k EXCEPT !.pc = "estimate", !.attempt = next, !.nonce = 0]
    <2>1. k \in Call /\ k.order \in Tokens
      BY <1>1, <1>5 DEF HasOrder
    <2>2. CASE k.attempt < maxRPCRetries
      <3>1. call' = [call EXCEPT ![w] = c]
        <4>1. call' = [call EXCEPT ![w] =
                           [k EXCEPT !.pc = "estimate", !.attempt = @ + 1, !.nonce = 0]]
          BY <1>1, <1>5, <2>2 DEF NextAttempt
        <4> HIDE DEF k
        <4>2. [k EXCEPT !.pc = "estimate", !.attempt = @ + 1, !.nonce = 0] = c
          BY <2>1 DEF Call
        <4> QED  BY <4>1, <4>2
      <3> HIDE DEF k
      <3>4. next \in 0 .. maxRPCRetries /\ 0 \in 0 .. MaxNonce
        BY <1>2, <2>1, <2>2 DEF Call
      <3> HIDE DEF next
      <3>2. c \in Call /\ c.order = k.order
        BY <2>1, <3>4 DEF Call, States, Busy
      <3>3. Sound(c)
        BY <2>1, <3>2
      <3> HIDE DEF c
      <3> QED  BY <3>1, <3>3
    <2>3. CASE ~(k.attempt < maxRPCRetries)
      <3>1. call' = [call EXCEPT ![w] = Resting("error")]
        BY <1>5, <2>3 DEF NextAttempt
      <3>2. Sound(Resting("error"))
        BY RestingTyped
      <3> QED  BY <3>1, <3>2
    <2> QED  BY <2>2, <2>3
  <1>6. ASSUME NEW pc \in Busy, Goto(w, pc), call[w].pc \in Busy
        PROVE  \E c : Sound(c) /\ call' = [call EXCEPT ![w] = c]
    <2> DEFINE k == call[w]
               c == [k EXCEPT !.pc = pc]
    <2>1. k \in Call /\ k.order \in Tokens
      BY <1>1, <1>6 DEF HasOrder
    <2>2. call' = [call EXCEPT ![w] = c]
      BY <1>6 DEF Goto
    <2> HIDE DEF k
    <2>3. c \in Call /\ c.order = k.order
      BY <2>1 DEF Call, States
    <2>4. Sound(c)
      BY <2>1, <2>3
    <2> HIDE DEF c
    <2> QED  BY <2>2, <2>4
  <1>7. \E c : Sound(c) /\ call' = [call EXCEPT ![w] = c]
    <2>1. CASE SendLiquidation(w)
      <3>1. PICK r \in Recipes(user, price, NearOne(user, price)) :
                call' = [call EXCEPT ![w] = [pc |-> "estimate", order |-> Order(r), attempt |-> 1, nonce |-> 0]]
        BY <2>1 DEF SendLiquidation
      <3>2. Order(r) \in Tokens
        BY <1>2, <2>1, NearOneBoolean, RecipeTyped DEF SendLiquidation
      <3> DEFINE c == [pc |-> "estimate", order |-> Order(r), attempt |-> 1, nonce |-> 0]
      <3>3. Sound(c)
        BY <1>2, <3>2 DEF Call, States, Busy, CallData, Tokens
      <3> HIDE DEF c
      <3> QED  BY <3>1, <3>3 DEF c
    <2>2. CASE RequestFails(w)
      BY <1>5, <2>2 DEF RequestFails, Busy
    <2>3. CASE EstimateGas(w)
      <3>1. call[w].pc \in Busy /\ (Goto(w, "nonce") \/ call' = [call EXCEPT ![w] = Resting("error")])
        BY <2>3 DEF EstimateGas, Busy
      <3>2. "nonce" \in Busy /\ Sound(Resting("error"))
        BY RestingTyped DEF Busy
      <3> HIDE DEF Sound
      <3> QED  BY <1>6, <3>1, <3>2
    <2>4. ASSUME NEW n \in 0 .. MaxNonce, PendingNonceAt(w, n)
          PROVE  \E c : Sound(c) /\ call' = [call EXCEPT ![w] = c]
      <3> DEFINE k == call[w]
                 c == [k EXCEPT !.pc = "fees", !.nonce = n]
      <3>1. k \in Call /\ k.order \in Tokens
        BY <1>1, <2>4 DEF HasOrder, PendingNonceAt, Busy
      <3>2. call' = [call EXCEPT ![w] = c]
        BY <1>1, <2>4 DEF PendingNonceAt
      <3> HIDE DEF k
      <3>3. c \in Call /\ c.order = k.order
        BY <3>1 DEF Call, States, Busy
      <3>4. Sound(c)
        BY <3>1, <3>3
      <3> HIDE DEF c
      <3> QED  BY <3>2, <3>4
    <2>5. CASE SuggestGas(w)
      BY <1>6, <2>5 DEF SuggestGas, Busy
    <2>6. CASE Broadcast(w)
      BY <1>5, <1>6, <2>6 DEF Broadcast, Busy
    <2>7. CASE BroadcastFails(w)
      BY <1>5, <2>7 DEF BroadcastFails, Busy
    <2> QED  BY <2>1, <2>2, <2>3, <2>4, <2>5, <2>6, <2>7 DEF Step
  <1>8. call' \in [Workers -> Call] /\ HasOrder'
    <2>1. PICK c : Sound(c) /\ call' = [call EXCEPT ![w] = c]
      BY <1>7
    <2> QED  BY <1>1, <2>1 DEF HasOrder
  <1>9. accepted' \subseteq [nonce : 0 .. MaxNonce - 1, debt : Assets, coll : Assets, cover : Nat]
    <2>1. CASE Broadcast(w)
      <3> DEFINE t == Transaction(call[w].order, call[w].nonce)
      <3>1. call[w].order \in Tokens /\ call[w].nonce \in 0 .. MaxNonce - 1
        BY <1>1, <1>2, <2>1 DEF Broadcast, HasOrder, Busy
      <3>2. t \in [nonce : 0 .. MaxNonce - 1, debt : Assets, coll : Assets, cover : Nat]
        BY <3>1 DEF Transaction, Tokens
      <3> HIDE DEF t
      <3> QED  BY <2>1, <3>2 DEF Broadcast, TypeInv, TypeOK, t
    <2>2. CASE ~Broadcast(w)
      <3>1. UNCHANGED accepted
        BY <2>2 DEF SendLiquidation, Step, RequestFails, EstimateGas, SuggestGas, PendingNonceAt,
                    BroadcastFails
      <3> QED  BY <3>1 DEF TypeInv, TypeOK
    <2> QED  BY <2>1, <2>2
  <1>10. (TotalDebtInBase(user, price) \in Nat)'
    <2>1. UNCHANGED <<user, price>>
      BY <1>3 DEF chain
    <2> QED  BY <2>1 DEF TypeInv, TypeOK
  <1>11. TypeOK'
    <2>1. UNCHANGED <<user, price, held, account>>
      BY <1>3 DEF chain
    <2>2. call' \in [Workers -> [pc : {"idle", "estimate", "nonce", "fees", "send", "nil", "error"},
                                 order : CallData, attempt : 0 .. maxRPCRetries, nonce : 0 .. MaxNonce]]
      BY <1>8 DEF Call, States, Busy
    <2> QED  BY <1>4, <1>9, <1>10, <2>1, <2>2 DEF TypeInv, TypeOK
  <1> QED  BY <1>8, <1>11 DEF TypeInv

\* Positions stay positions, and their debts a sum, whatever is liquidated; nonces, attempts and
\* calls keep within their limits (tx_executor.go:80-189).
THEOREM Typed == Spec => []TypeInv
  <1>1. TypeInv /\ UNCHANGED vars => TypeInv'
    BY DEF TypeInv, TypeOK, HasOrder, vars, chain
  <1>2. TypeInv /\ [Next]_vars => TypeInv'
    BY <1>1, EnvironmentTypes, WorkerTypes DEF Next
  <1>3. Init => TypeInv
    BY InitTypes
  <1> QED  BY <1>2, <1>3, PTL DEF Spec

\* Every variable keeps its type (strategy_engine.go:65-279, tx_executor.go:80-189), the sum of
\* the debts included, for any finite set of assets and any number of workers.
THEOREM Types == Spec => []TypeOK
  BY Typed, PTL DEF TypeInv

\* In every state and for every order of the reserves the recipe covers no more than the user
\* owes and counts on no more collateral than he has (strategy_engine.go:123-174).
THEOREM RecipesFit == Spec => []RecipeFits
  <1>1. TypeInv => RecipeFits
    BY Fits DEF TypeInv, TypeOK
  <1> QED  BY <1>1, Typed, PTL

\* The two loops over an unordered map find the most profitable pair of all, whatever the order
\* (strategy_engine.go:65-279).
THEOREM BestPair == Spec => []Optimal
  <1>1. TypeInv => Optimal
    BY OptimalHolds DEF TypeInv, TypeOK
  <1> QED  BY <1>1, Typed, PTL

\* The two branches of a pair's terms agree with each other and with the prices
\* (strategy_engine.go:138-162): the debt covered and the collateral taken are worth the same with
\* the bonus, to within the units the divisions drop, in particular when the collateral is exhausted.
THEOREM Balanced == Spec => []TermsBalance
  <1>1. TypeInv => TermsBalance
    BY BalanceHolds DEF TypeInv, TypeOK
  <1> QED  BY <1>1, Typed, PTL

\* What is used as collateral has a bonus, its own or that of the user's category; the pool sees
\* to it, and nothing that happens to a position here changes either.
Entitled ==
    /\ user.emode \in Categories \cup {0}
    /\ \A a \in Assets :
          a \in user.used /\ Bonus[a] = 0 => user.emode # 0 /\ a \in Collaterals[user.emode]

LEMMA UsedUnchanged == ASSUME Next PROVE user'.used = user.used /\ user'.emode = user.emode
  <1>1. ASSUME NEW t \in accepted, Mine(t) PROVE user'.used = user.used /\ user'.emode = user.emode
    <2>1. ASSUME NEW o, executeArbitrage(t, o)
          PROVE  user'.used = user.used /\ user'.emode = user.emode
      BY <2>1 DEF executeArbitrage, Liquidated
    <2> QED  BY <1>1, <2>1 DEF Mine
  <1>2. CASE UserRepays
    BY <1>2 DEF UserRepays
  <1>3. CASE UNCHANGED user
    BY <1>3
  <1>4. ASSUME NEW w \in Workers, SendLiquidation(w) \/ Step(w) PROVE UNCHANGED user
    BY <1>4 DEF chain, SendLiquidation, Step, RequestFails, EstimateGas, SuggestGas, PendingNonceAt,
                Broadcast, BroadcastFails
  <1>5. ASSUME Environment PROVE UserRepays \/ UNCHANGED user \/ \E t \in accepted : Mine(t)
    BY <1>5 DEF Environment, rescueTokens, Gift, PricesMove
  <1> QED  BY <1>1, <1>2, <1>3, <1>4, <1>5 DEF Next

\* The division by the bonus (strategy_engine.go:169) panics only for a user whose E-mode category
\* the store does not have as the pool has it (multicall.go:225-292), for all configurations of
\* assets and categories and every outcome of the batch that fetched them.
THEOREM NoPanic == Spec => []PanicsOnlyIfIncomplete
  <1> USE StrategyAssumption, LiquidationAssumption
  <1>1. Init => Entitled
    <2> SUFFICES ASSUME Init PROVE Entitled
      OBVIOUS
    <2>1. user \in Positions /\ user \in Position
      BY DEF Init, LiquidationAssumption
    <2> QED  BY <2>1 DEF Entitled, Position, LiquidationAssumption
  <1>2. Entitled /\ [Next]_vars => Entitled'
    <2> SUFFICES ASSUME Entitled, [Next]_vars PROVE Entitled'
      OBVIOUS
    <2>1. user'.used = user.used /\ user'.emode = user.emode
      BY UsedUnchanged DEF vars, chain
    <2> QED  BY <2>1 DEF Entitled
  <1>3. TypeInv /\ Entitled => PanicsOnlyIfIncomplete
    <2> SUFFICES ASSUME TypeInv, Entitled, Panics(user, price), user.emode = 0 \/ Complete(user.emode)
                 PROVE  FALSE
      BY DEF PanicsOnlyIfIncomplete
    <2>1. PICK c \in Colls(user, price) : BonusOf(user, c) = 0
      BY DEF Panics
    <2>2. c \in user.used /\ c \in Assets
      BY <2>1 DEF Colls, TypeInv, TypeOK, Position
    <2>3. PercentageFactor \in Nat \ {0} /\ KnownCategories \subseteq Categories /\ 0 \notin Categories
      BY DEF StrategyAssumption
    <2>4. CASE user.emode \in KnownCategories /\ c \in StoredCollaterals[user.emode]
      <3>1. Complete(user.emode) /\ user.emode \in Categories
        BY <2>3, <2>4
      <3>2. CategoryBonus[user.emode] = 0
        BY <2>1, <2>4, <3>1 DEF BonusOf, Complete
      <3>3. \A g \in Categories : CategoryBonus[g] >= PercentageFactor
        BY DEF StrategyAssumption
      <3>4. 0 >= PercentageFactor
        BY <3>1, <3>2, <3>3
      <3> QED  BY <2>3, <3>4
    <2>5. CASE ~(user.emode \in KnownCategories /\ c \in StoredCollaterals[user.emode])
      <3>1. Bonus[c] = 0
        BY <2>1, <2>5 DEF BonusOf
      <3>2. user.emode # 0 /\ c \in Collaterals[user.emode]
        BY <2>2, <3>1 DEF Entitled
      <3> QED  BY <2>5, <3>2 DEF Complete
    <2> QED  BY <2>4, <2>5
  <1> QED  BY <1>1, <1>2, <1>3, Typed, PTL DEF Spec

\* No accepted transaction waits for a nonce nobody used, and neither would one that is about to
\* be sent: the nonce was asked for when all before it were accepted, and what is accepted stays.
Gapless(n) == \A k \in account .. n - 1 : \E u \in accepted : u.nonce = k

NonceInv ==
    /\ \A t \in accepted : Gapless(t.nonce)
    /\ \A w \in Workers : call[w].pc \in {"fees", "send"} => Gapless(call[w].nonce)

\* Transactions are accepted and mined, nothing else happens to nonces.
LEMMA NoncesGrow == ASSUME TypeInv, [Next]_vars PROVE account' \in Nat /\ account <= account' /\ accepted \subseteq accepted'
  <1>1. account \in Nat
    BY LiquidationAssumption DEF TypeInv, TypeOK, LiquidationAssumption
  <1>2. CASE Environment
    BY <1>1, <1>2 DEF Environment, Mine, rescueTokens, Gift, UserRepays, PricesMove
  <1>3. ASSUME NEW w \in Workers, SendLiquidation(w) \/ Step(w)
        PROVE  UNCHANGED account /\ accepted \subseteq accepted'
    BY <1>3 DEF chain, SendLiquidation, Step, RequestFails, EstimateGas, SuggestGas, PendingNonceAt,
                Broadcast, BroadcastFails
  <1>4. CASE UNCHANGED vars
    BY <1>1, <1>4 DEF vars, chain
  <1> QED  BY <1>1, <1>2, <1>3, <1>4 DEF Next

LEMMA GaplessStays == ASSUME TypeInv, [Next]_vars, NEW n \in Nat, Gapless(n) PROVE Gapless(n)'
  <1>1. account' \in Nat /\ account \in Nat /\ account <= account' /\ accepted \subseteq accepted'
    BY NoncesGrow, LiquidationAssumption DEF TypeInv, TypeOK, LiquidationAssumption
  <1>2. ASSUME NEW k \in account' .. n - 1 PROVE \E u \in accepted' : u.nonce = k
    <2>1. k \in account .. n - 1
      BY <1>1
    <2> QED  BY <1>1, <2>1 DEF Gapless
  <1> QED  BY <1>2 DEF Gapless

\* Another worker's call is left alone; this one's keeps its nonce, or gets a node's answer.
LEMMA NonceOrigin ==
    ASSUME TypeInv, NEW w \in Workers, SendLiquidation(w) \/ Step(w), NEW v \in Workers,
           call'[v].pc \in {"fees", "send"}
    PROVE  \/ call[v].pc \in {"fees", "send"} /\ call'[v].nonce = call[v].nonce
           \/ call'[v].nonce \in PendingNonces
  <1>1. call \in [Workers -> Call]
    BY CallTyped DEF TypeInv
  <1>2. CASE v # w
    <2>1. call'[v] = call[v]
      BY <1>1, <1>2 DEF SendLiquidation, Step, RequestFails, EstimateGas, SuggestGas, PendingNonceAt,
                        Broadcast, BroadcastFails, NextAttempt, Goto
    <2> QED  BY <2>1
  <1>3. CASE v = w
    <2>1. ASSUME NextAttempt(w) PROVE call'[w].pc \in {"estimate", "error"}
      BY <1>1, <2>1 DEF NextAttempt, Resting, Call
    <2>2. CASE SendLiquidation(w)
      BY <1>1, <1>3, <2>2 DEF SendLiquidation
    <2>3. CASE RequestFails(w)
      BY <1>3, <2>1, <2>3 DEF RequestFails
    <2>4. CASE EstimateGas(w)
      BY <1>1, <1>3, <2>4 DEF EstimateGas, Goto, Resting, Call
    <2>5. CASE SuggestGas(w)
      <3>1. call' = [call EXCEPT ![w].pc = "send"] /\ call[w].pc = "fees"
        BY <2>5 DEF SuggestGas, Goto
      <3>2. call'[w].nonce = call[w].nonce
        BY <1>1, <3>1 DEF Call
      <3> QED  BY <1>3, <3>1, <3>2
    <2>6. ASSUME NEW n, PendingNonceAt(w, n) PROVE call'[w].nonce \in PendingNonces
      BY <1>1, <2>6 DEF PendingNonceAt, Call
    <2>7. CASE Broadcast(w)
      <3>1. Goto(w, "nil") => call'[w].pc = "nil"
        BY <1>1 DEF Goto, Call
      <3> QED  BY <1>3, <2>1, <2>7, <3>1 DEF Broadcast
    <2>8. CASE BroadcastFails(w)
      BY <1>3, <2>1, <2>8 DEF BroadcastFails
    <2> QED  BY <1>3, <2>2, <2>3, <2>4, <2>5, <2>6, <2>7, <2>8 DEF Step
  <1> QED  BY <1>2, <1>3

LEMMA NonceStep == ASSUME TypeInv, NonceInv, [Next]_vars PROVE NonceInv'
  <1>1. \A t \in accepted : t.nonce \in Nat
    BY LiquidationAssumption DEF TypeInv, TypeOK, LiquidationAssumption
  <1>2. \A w \in Workers : call[w].nonce \in Nat
    BY LiquidationAssumption DEF TypeInv, TypeOK, LiquidationAssumption
  <1>3. ASSUME UNCHANGED <<accepted, call>> PROVE NonceInv'
    <2>1. \A t \in accepted' : Gapless(t.nonce)'
      BY <1>1, <1>3, GaplessStays DEF NonceInv
    <2>2. \A w \in Workers : call'[w].pc \in {"fees", "send"} => Gapless(call[w].nonce)'
      BY <1>2, <1>3, GaplessStays DEF NonceInv
    <2> QED  BY <2>1, <2>2 DEF NonceInv
  <1>4. ASSUME NEW w \in Workers, SendLiquidation(w) \/ Step(w) PROVE NonceInv'
    <2>1. ASSUME NEW t \in accepted' PROVE Gapless(t.nonce)'
      <3>1. t \in accepted \/ (t.nonce = call[w].nonce /\ call[w].pc = "send")
        BY <1>4 DEF SendLiquidation, Step, RequestFails, EstimateGas, SuggestGas, PendingNonceAt,
                    Broadcast, BroadcastFails, Transaction
      <3>2. t.nonce \in Nat /\ Gapless(t.nonce)
        BY <1>1, <1>2, <3>1 DEF NonceInv
      <3> QED  BY <3>2, GaplessStays
    <2>2. ASSUME NEW v \in Workers, call'[v].pc \in {"fees", "send"} PROVE Gapless(call[v].nonce)'
      <3>1. CASE call[v].pc \in {"fees", "send"} /\ call'[v].nonce = call[v].nonce
        <4>1. Gapless(call[v].nonce) /\ call[v].nonce \in Nat
          BY <1>2, <3>1 DEF NonceInv
        <4> QED  BY <3>1, <4>1, GaplessStays
      <3>2. CASE call'[v].nonce \in PendingNonces
        <4>1. call'[v].nonce \in Nat /\ Gapless(call'[v].nonce)
          BY <3>2, LiquidationAssumption DEF PendingNonces, Gapless, TypeInv, TypeOK, LiquidationAssumption
        <4>2. Gapless(call'[v].nonce) => \A k \in account' .. call'[v].nonce - 1 : \E u \in accepted' : u.nonce = k
          <5> DEFINE n == call'[v].nonce
          <5>1. account' \in Nat /\ account \in Nat /\ account <= account' /\ accepted \subseteq accepted'
            BY NoncesGrow, LiquidationAssumption DEF TypeInv, TypeOK, LiquidationAssumption
          <5>2. n \in Nat
            BY <4>1
          <5> HIDE DEF n
          <5>3. \A k \in account' .. n - 1 : k \in account .. n - 1
            BY <5>1, <5>2
          <5> QED  BY <5>1, <5>3 DEF Gapless, n
        <4> QED  BY <4>1, <4>2 DEF Gapless
      <3> QED  BY <1>4, <2>2, <3>1, <3>2, NonceOrigin
    <2> QED  BY <2>1, <2>2 DEF NonceInv
  <1>5. Environment \/ UNCHANGED vars => UNCHANGED <<accepted, call>>
    BY DEF Environment, Mine, rescueTokens, Gift, UserRepays, PricesMove, vars
  <1> QED  BY <1>3, <1>4, <1>5 DEF Next

\* Whatever requests of SendLiquidation fail, are lost or are repeated (tx_executor.go:117-189),
\* for any number of workers: the nonces of the transactions sent leave no gap, so none
\* of them waits for a transaction that nobody sends.
THEOREM NoncesInOrder == Spec => []NoNonceGap
  <1>1. Init => NonceInv
    BY DEF Init, NonceInv, Resting
  <1>2. TypeInv /\ NonceInv /\ [Next]_vars => NonceInv'
    BY NonceStep
  <1>3. NonceInv => NoNonceGap
    BY DEF NonceInv, Gapless, NoNonceGap
  <1> QED  BY <1>1, <1>2, <1>3, Typed, PTL DEF Spec
=============================================================================
