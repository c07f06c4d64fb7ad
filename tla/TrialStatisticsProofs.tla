---------------------- MODULE TrialStatisticsProofs ----------------------
(***************************************************************************)
(* The threshold _fit_threshold keeps is the best of all integers, for any *)
(* calibration values, direction and units; and for any sample, comparators*)
(* and level, the exact tests and intervals are those of their definitions.*)
(*                                                                         *)
(* A distribution of the model is the tally of an enumeration: of the ways *)
(* to exchange discordant sessions, or of lists of draws.  A step of the   *)
(* model tallies the enumeration of one session or draw more.              *)
(***************************************************************************)
EXTENDS TrialStatistics, FiniteSetTheorems, FunctionTheorems, WellFoundedInduction, TLAPS

----------------------------------------------------------------------------
(* Whole numbers.                                                          *)

\* A nonempty set of natural numbers has a least element.
LEMMA Least ==
    ASSUME NEW T \in SUBSET Nat, T # {}
    PROVE  \E x \in T : \A y \in T : x <= y
<1>1. PICK x \in T : \A y \in T : ~(<<y, x>> \in OpToRel(<, Nat))
  BY NatLessThanWellFounded, WFMin
<1>2. \A y \in T : ~(y < x)
  BY <1>1, Zenon DEF OpToRel
<1> QED
  BY <1>2

LEMMA Indices ==
    ASSUME NEW n \in Nat
    PROVE  IsFiniteSet(1..n) /\ Cardinality(1..n) = n
BY FS_Interval

\* What rounding down gives.
LEMMA Quotient ==
    ASSUME NEW a \in Int, NEW p \in Nat \ {0}
    PROVE  /\ a \div p \in Int
           /\ p * (a \div p) <= a
           /\ a < p * (a \div p) + p
           /\ a % p = a - p * (a \div p)
OBVIOUS

\* Rounding a natural number down gives a natural number.
LEMMA QuotientNat ==
    ASSUME NEW a \in Nat, NEW p \in Nat \ {0}
    PROVE  a \div p \in Nat
<1>1. p * (a \div p) <= a /\ a < p * (a \div p) + p /\ a \div p \in Int
  BY Quotient
<1>2. ASSUME a \div p <= -1 PROVE FALSE
  <2>1. p * (a \div p) <= p * (-1)
    BY <1>1, <1>2
  <2> QED
    BY <1>1, <2>1
<1> QED
  BY <1>1, <1>2

\* Whole parts pass through the rounding.
LEMMA QuotientShift ==
    ASSUME NEW a \in Int, NEW p \in Nat \ {0}, NEW m \in Int
    PROVE  (a + p * m) \div p = a \div p + m
OBVIOUS

\* A positive number is at least its divisor.
LEMMA Divides ==
    ASSUME NEW a \in Nat \ {0}, NEW p \in Nat \ {0}, a % p = 0
    PROVE  p <= a /\ \E q \in Int : a = p * q
<1> DEFINE q == a \div p
<1>1. q \in Int /\ a = p * q
  <2>1. a \in Int
    OBVIOUS
  <2>2. q \in Int /\ a % p = a - p * q
    BY <2>1, Quotient
  <2> HIDE DEF q
  <2>3. p * q \in Int
    BY <2>2
  <2> QED
    BY <2>2, <2>3
<1> HIDE DEF q
<1>2. p <= a
  <2>1. ASSUME q <= 0 PROVE FALSE
    <3>1. p * q <= p * 0
      BY <1>1, <2>1
    <3> QED
      BY <1>1, <3>1
  <2>2. p * q >= p * 1
    BY <1>1, <2>1
  <2> QED
    BY <1>1, <2>2
<1> QED
  BY <1>1, <1>2

\* Two positive numbers have a common divisor that is a combination of them.
Combines(P, N, g, a, b) == g = a * P + b * N /\ P % g = 0 /\ N % g = 0

LEMMA Bezout ==
    ASSUME NEW P \in Nat \ {0}, NEW N \in Nat \ {0}
    PROVE  \E g \in Nat \ {0} : \E a, b \in Int : Combines(P, N, g, a, b)
<1> DEFINE C == {x \in Nat \ {0} : \E a, b \in Int : x = a * P + b * N}
<1>1. P \in C
  <2>1. P = 1 * P + 0 * N
    OBVIOUS
  <2> QED
    BY <2>1
<1>2. N \in C
  <2>1. N = 0 * P + 1 * N
    OBVIOUS
  <2> QED
    BY <2>1
<1>3. PICK g \in C : \A x \in C : g <= x
  <2>1. C \in SUBSET Nat /\ C # {}
    BY <1>1
  <2> HIDE DEF C
  <2> QED
    BY <2>1, Least
<1>4. PICK a \in Int, b \in Int : g = a * P + b * N
  BY <1>3
<1>5. g \in Nat \ {0}
  BY <1>3
<1>6. ASSUME NEW x \in C PROVE x % g = 0
  <2>1. PICK c \in Int, d \in Int : x = c * P + d * N
    BY <1>6
  <2> DEFINE q == x \div g
  <2>2. q \in Int /\ x \in Nat /\ g * q <= x /\ x < g * q + g /\ x % g = x - g * q
    BY <1>5, <1>6, Quotient
  <2> HIDE DEF q
  <2>3. x - g * q = (c - a * q) * P + (d - b * q) * N
    BY <1>4, <2>1, <2>2
  <2>4. ASSUME x - g * q # 0 PROVE FALSE
    <3>1. x - g * q \in C
      <4>1. x - g * q \in Nat \ {0} /\ c - a * q \in Int /\ d - b * q \in Int
        BY <2>2, <2>4, <1>5
      <4> QED
        BY <2>3, <4>1
    <3>2. g <= x - g * q
      BY <1>3, <3>1
    <3> QED
      BY <3>2, <2>2, <1>5
  <2> QED
    BY <2>2, <2>4
<1> QED
  BY <1>1, <1>2, <1>4, <1>5, <1>6 DEF Combines

\* A finite nonempty set of integers has a least and a greatest element.
Downto(S, i) == {j \in S : j <= i}
Upto(S, i) == {j \in S : j >= i}

LEMMA Extremes ==
    ASSUME NEW S \in SUBSET Int, IsFiniteSet(S), S # {}
    PROVE  /\ \E x \in S : \A y \in S : x <= y
           /\ \E x \in S : \A y \in S : x >= y
<1>1. \A i \in S : IsFiniteSet(Downto(S, i)) /\ Cardinality(Downto(S, i)) \in Nat
  <2> TAKE i \in S
  <2>1. Downto(S, i) \in SUBSET S
    BY DEF Downto
  <2> QED
    BY <2>1, FS_Subset, FS_CardinalityType
<1>2. \A i \in S : IsFiniteSet(Upto(S, i)) /\ Cardinality(Upto(S, i)) \in Nat
  <2> TAKE i \in S
  <2>1. Upto(S, i) \in SUBSET S
    BY DEF Upto
  <2> QED
    BY <2>1, FS_Subset, FS_CardinalityType
<1>3. \E x \in S : \A y \in S : x <= y
  <2> DEFINE K == {Cardinality(Downto(S, i)) : i \in S}
  <2>1. PICK k \in K : \A l \in K : k <= l
    <3>1. K \in SUBSET Nat /\ K # {}
      BY <1>1
    <3> HIDE DEF K
    <3> QED
      BY <3>1, Least
  <2>2. PICK x \in S : k = Cardinality(Downto(S, x))
    BY <2>1
  <2>3. ASSUME NEW y \in S, y < x PROVE FALSE
    <3>1. Downto(S, y) \in SUBSET Downto(S, x)
      <4>1. \A j \in S : j <= y => j <= x
        BY <2>3
      <4> QED
        BY <4>1 DEF Downto
    <3>2. Downto(S, y) # Downto(S, x)
      BY <2>3 DEF Downto
    <3>3. Cardinality(Downto(S, y)) < Cardinality(Downto(S, x))
      BY <3>1, <3>2, <1>1, FS_Subset
    <3> QED
      BY <3>3, <2>1, <2>2, <1>1
  <2> QED
    BY <2>3
<1>4. \E x \in S : \A y \in S : x >= y
  <2> DEFINE K == {Cardinality(Upto(S, i)) : i \in S}
  <2>1. PICK k \in K : \A l \in K : k <= l
    <3>1. K \in SUBSET Nat /\ K # {}
      BY <1>2
    <3> HIDE DEF K
    <3> QED
      BY <3>1, Least
  <2>2. PICK x \in S : k = Cardinality(Upto(S, x))
    BY <2>1
  <2>3. ASSUME NEW y \in S, y > x PROVE FALSE
    <3>1. Upto(S, y) \in SUBSET Upto(S, x)
      <4>1. \A j \in S : j >= y => j >= x
        BY <2>3
      <4> QED
        BY <4>1 DEF Upto
    <3>2. Upto(S, y) # Upto(S, x)
      BY <2>3 DEF Upto
    <3>3. Cardinality(Upto(S, y)) < Cardinality(Upto(S, x))
      BY <3>1, <3>2, <1>2, FS_Subset
    <3> QED
      BY <3>3, <2>1, <2>2, <1>2
  <2> QED
    BY <2>3
<1> QED
  BY <1>3, <1>4

\* These are Min and Max.
LEMMA MinIs ==
    ASSUME NEW S \in SUBSET Int, IsFiniteSet(S), S # {}
    PROVE  /\ Min(S) \in S /\ \A y \in S : Min(S) <= y
           /\ Max(S) \in S /\ \A y \in S : Max(S) >= y
BY Extremes DEF Min, Max

----------------------------------------------------------------------------
(* Labels and predictions, counted.                                        *)

Labels == {l \in Seq({0, 1}) : \A o \in {0, 1} : Of(l, o) # {}}

LEMMA Classes ==
    ASSUME NEW y \in Labels, NEW o \in {0, 1}
    PROVE  /\ IsFiniteSet(Of(y, o))
           /\ Cardinality(Of(y, o)) \in Nat \ {0}
           /\ Cardinality(Of(y, o)) <= Len(y)
<1>1. y \in Seq({0, 1}) /\ Len(y) \in Nat /\ DOMAIN y = 1..Len(y)
  BY DEF Labels
<1>2. IsFiniteSet(1..Len(y)) /\ Cardinality(1..Len(y)) = Len(y)
  BY <1>1, Indices
<1>3. Of(y, o) \in SUBSET (1..Len(y))
  BY <1>1 DEF Of
<1>4. Of(y, o) # {}
  BY DEF Labels
<1> QED
  BY <1>1, <1>2, <1>3, <1>4, FS_Subset, FS_CardinalityType, FS_EmptySet

LEMMA HitsAre ==
    ASSUME NEW y \in Labels, NEW o \in {0, 1}, NEW pred
    PROVE  Hits(y, pred, o) \in 0..Cardinality(Of(y, o))
<1>1. {i \in Of(y, o) : pred[i] = o} \in SUBSET Of(y, o)
  OBVIOUS
<1>2. IsFiniteSet(Of(y, o)) /\ Cardinality(Of(y, o)) \in Nat
  BY Classes
<1> QED
  BY <1>1, <1>2, FS_Subset, FS_CardinalityType DEF Hits

\* Ties in balanced accuracy are fractions of TieParts parts.
LEMMA TiePartsDivide ==
    ASSUME NEW y \in Labels,
           NEW P \in Nat \ {0}, P = Cardinality(Of(y, 1)),
           NEW N \in Nat \ {0}, N = Cardinality(Of(y, 0)),
           NEW g \in Nat \ {0}, NEW a \in Int, NEW b \in Int,
           g = a * P + b * N, P % g = 0, N % g = 0
    PROVE  TieParts(y) = g
<1> DEFINE D == {d \in 1..Len(y) : \A o \in {0, 1} : Cardinality(Of(y, o)) % d = 0}
<1>1. Len(y) \in Nat
  BY DEF Labels
<1>2. P <= Len(y)
  <2>1. Cardinality(Of(y, 1)) <= Len(y)
    BY Classes
  <2> QED
    BY <2>1
<1>3. g \in D
  <2>1. g <= P
    BY Divides
  <2>2. g \in 1..Len(y)
    <3>1. P \in Nat /\ g \in Nat \ {0}
      OBVIOUS
    <3> QED
      BY ONLY <3>1, <1>1, <1>2, <2>1
  <2>3. \A o \in {0, 1} : Cardinality(Of(y, o)) % g = 0
    OBVIOUS
  <2> QED
    BY <2>2, <2>3
<1>4. ASSUME NEW d \in D PROVE d <= g
  <2>1. d \in Nat \ {0} /\ P % d = 0 /\ N % d = 0
    BY <1>1
  <2>2. PICK p \in Int : P = d * p
    BY <2>1, Divides
  <2>3. PICK n \in Int : N = d * n
    BY <2>1, Divides
  <2> DEFINE k == a * p + b * n
  <2>4. k \in Int
    BY <2>2, <2>3
  <2>5. g = d * k
    <3>1. a * P = d * (a * p)
      <4>1. a * (d * p) = d * (a * p)
        BY <2>1, <2>2
      <4> QED
        BY <4>1, <2>2
    <3>2. b * N = d * (b * n)
      <4>1. b * (d * n) = d * (b * n)
        BY <2>1, <2>3
      <4> QED
        BY <4>1, <2>3
    <3>3. a * p \in Int /\ b * n \in Int
      BY <2>2, <2>3
    <3> QED
      BY <2>1, <3>1, <3>2, <3>3
  <2> HIDE DEF k
  <2>6. g % d = 0
    <3>1. (0 + d * k) \div d = 0 \div d + k
      BY <2>1, <2>4, QuotientShift
    <3>2. 0 \div d = 0
      BY <2>1
    <3>3. g \div d = k
      <4>1. 0 + d * k = g
        BY <2>5
      <4> QED
        BY ONLY <3>1, <3>2, <4>1, <2>4
    <3>4. g % d = g - d * (g \div d)
      BY <2>1, Quotient, g \in Int
    <3>5. d * k \in Int
      BY <2>1, <2>4
    <3> QED
      BY <3>3, <3>4, <3>5, <2>5
  <2> QED
    BY <2>1, <2>6, Divides
<1>5. \A x \in D : (\A d \in D : x >= d) => x = g
  BY <1>3, <1>4, <1>1
<1>6. \A d \in D : g >= d
  BY <1>4, <1>1
<1>7. Max(D) = g
  <2> HIDE DEF D
  <2> QED
    BY <1>3, <1>5, <1>6 DEF Max
<1> QED
  BY <1>7 DEF TieParts

\* A gain of s hits in one class for a loss of t in the other, worth the same, moves
\* both rates by a whole number of units.
Shifts(P, N, s, t, m) == SCALE * s = P * m /\ SCALE * t = N * m

LEMMA ExactTie ==
    ASSUME NEW y \in Labels, SCALE % TieParts(y) = 0,
           NEW P \in Nat \ {0}, P = Cardinality(Of(y, 1)),
           NEW N \in Nat \ {0}, N = Cardinality(Of(y, 0)),
           NEW s \in Int, NEW t \in Int, N * s = P * t
    PROVE  \E m \in Int : Shifts(P, N, s, t, m)
<1>1. \E g \in Nat \ {0} : \E a, b \in Int : Combines(P, N, g, a, b)
  BY Bezout
<1>2. PICK g \in Nat \ {0}, a \in Int, b \in Int :
         g = a * P + b * N /\ P % g = 0 /\ N % g = 0
  BY <1>1 DEF Combines
<1>3. SCALE \in Nat \ {0} /\ SCALE % g = 0
  <2>1. TieParts(y) = g
    BY <1>2, TiePartsDivide
  <2> QED
    BY <2>1, StatisticsConstants
<1>4. PICK u \in Int : SCALE = g * u
  BY <1>3, Divides
<1> DEFINE k == a * s + b * t
           as == a * s
           bt == b * t
<1>5. as \in Int /\ bt \in Int
  OBVIOUS
<1>6. g * s = P * k
  <2>1. g * s = P * as + b * (N * s)
    BY <1>2
  <2>2. b * (P * t) = P * bt
    OBVIOUS
  <2> HIDE DEF as, bt
  <2> QED
    BY <2>1, <2>2, <1>5 DEF as, bt
<1>7. g * t = N * k
  <2>1. g * t = a * (P * t) + N * bt
    BY <1>2
  <2>2. a * (N * s) = N * as
    OBVIOUS
  <2> QED
    BY <2>1, <2>2, <1>5
<1>8. k \in Int
  BY <1>5
<1> HIDE DEF k
<1>9. SCALE * s = P * (k * u) /\ SCALE * t = N * (k * u)
  <2>1. (g * u) * s = (g * s) * u /\ (g * u) * t = (g * t) * u
    BY <1>4
  <2>2. (P * k) * u = P * (k * u) /\ (N * k) * u = N * (k * u)
    BY <1>4, <1>8
  <2> QED
    BY <2>1, <2>2, <1>4, <1>6, <1>7
<1> QED
  BY <1>4, <1>8, <1>9 DEF Shifts

----------------------------------------------------------------------------
(* Rates, rounded down.                                                    *)

Rate(hits, n) == (hits * SCALE) \div n

LEMMA Rates ==
    ASSUME NEW y \in Labels, NEW pred,
           NEW P, P = Cardinality(Of(y, 1)), NEW N, N = Cardinality(Of(y, 0)),
           NEW h1, h1 = Hits(y, pred, 1), NEW h0, h0 = Hits(y, pred, 0)
    PROVE  /\ P \in Nat \ {0} /\ N \in Nat \ {0} /\ h1 \in Nat /\ h0 \in Nat
           /\ Rate(h1, P) \in Nat /\ Rate(h0, N) \in Nat
           /\ (Rate(h1, P) + Rate(h0, N)) \div 2 \in Nat
           /\ Classification(y, pred) =
                [sensitivity |-> Rate(h1, P), specificity |-> Rate(h0, N),
                 balanced |-> (Rate(h1, P) + Rate(h0, N)) \div 2]
<1>1. P \in Nat \ {0} /\ N \in Nat \ {0} /\ h1 \in Nat /\ h0 \in Nat
  <2>1. Cardinality(Of(y, 1)) \in Nat \ {0} /\ Cardinality(Of(y, 0)) \in Nat \ {0}
    BY Classes
  <2>2. Hits(y, pred, 1) \in 0..Cardinality(Of(y, 1))
    BY HitsAre
  <2>3. Hits(y, pred, 0) \in 0..Cardinality(Of(y, 0))
    BY HitsAre
  <2> QED
    BY <2>1, <2>2, <2>3
<1>2. Rate(h1, P) \in Nat /\ Rate(h0, N) \in Nat
  <2>1. h1 * SCALE \in Nat /\ h0 * SCALE \in Nat
    BY <1>1, StatisticsConstants
  <2> QED
    BY <1>1, <2>1, QuotientNat DEF Rate
<1>3. (Rate(h1, P) + Rate(h0, N)) \div 2 \in Nat
  BY <1>2, QuotientNat
<1>4. Of(y, 0) # {} /\ Of(y, 1) # {}
  BY DEF Labels
<1> QED
  BY <1>1, <1>2, <1>3, <1>4 DEF Classification, Rate

Worth(P, N, h1, h0) == N * h1 + P * h0

\* What is better by one part of 2 * P * N still is after rounding down twice.
LEMMA GainRounds ==
    ASSUME NEW P \in Nat \ {0}, NEW N \in Nat \ {0}, 3 * N * P <= SCALE,
           NEW h1 \in Nat, NEW h0 \in Nat, NEW k1 \in Nat, NEW k0 \in Nat,
           N * h1 + P * h0 < N * k1 + P * k0
    PROVE  (Rate(h1, P) + Rate(h0, N)) \div 2 < (Rate(k1, P) + Rate(k0, N)) \div 2
<1> DEFINE Q == P * N
           a == Rate(h1, P)
           b == Rate(h0, N)
           c == Rate(k1, P)
           d == Rate(k0, N)
<1>0. SCALE \in Nat \ {0}
  BY StatisticsConstants
<1>1. /\ a \in Int /\ b \in Int /\ c \in Int /\ d \in Int
      /\ P * a <= h1 * SCALE /\ N * b <= h0 * SCALE
      /\ k1 * SCALE < P * c + P /\ k0 * SCALE < N * d + N
  <2>1. h1 * SCALE \in Int /\ h0 * SCALE \in Int /\ k1 * SCALE \in Int /\ k0 * SCALE \in Int
    BY <1>0
  <2> QED
    BY <2>1, Quotient DEF Rate
<1> HIDE DEF a, b, c, d
<1>2. Q \in Nat \ {0} /\ 3 * Q <= SCALE
  <2>1. P * N \in Nat \ {0}
    OBVIOUS
  <2>2. 3 * N * P = 3 * (P * N)
    OBVIOUS
  <2> QED
    BY <2>1, <2>2
<1>3. Q * (a + b) <= (N * h1 + P * h0) * SCALE
  <2>1. N * (P * a) <= N * (h1 * SCALE) /\ P * (N * b) <= P * (h0 * SCALE)
    BY <1>0, <1>1
  <2>2. N * (P * a) = Q * a /\ P * (N * b) = Q * b
    BY <1>1
  <2>3. N * (h1 * SCALE) = (N * h1) * SCALE /\ P * (h0 * SCALE) = (P * h0) * SCALE
    BY <1>0
  <2> QED
    BY <2>1, <2>2, <2>3, <1>0, <1>1, <1>2
<1>4. (N * k1 + P * k0) * SCALE < Q * (c + d) + 2 * Q
  <2>1. N * (k1 * SCALE) < N * (P * c + P) /\ P * (k0 * SCALE) < P * (N * d + N)
    BY <1>0, <1>1
  <2>2. N * (P * c + P) = Q * c + Q /\ P * (N * d + N) = Q * d + Q
    BY <1>1
  <2>3. N * (k1 * SCALE) = (N * k1) * SCALE /\ P * (k0 * SCALE) = (P * k0) * SCALE
    BY <1>0
  <2> QED
    BY <2>1, <2>2, <2>3, <1>0, <1>1, <1>2
<1>5. (N * h1 + P * h0) * SCALE + SCALE <= (N * k1 + P * k0) * SCALE
  <2> DEFINE T == N * h1 + P * h0
             U == N * k1 + P * k0
  <2>1. T \in Int /\ U \in Int /\ T + 1 <= U
    OBVIOUS
  <2> HIDE DEF T, U
  <2>2. (T + 1) * SCALE <= U * SCALE
    BY <2>1, <1>0
  <2> QED
    BY <2>1, <2>2, <1>0 DEF T, U
<1> HIDE DEF Q
<1>6. Q * (a + b) + 3 * Q < Q * (c + d) + 2 * Q
  <2>1. /\ Q * (a + b) \in Int /\ Q * (c + d) \in Int
        /\ (N * h1 + P * h0) * SCALE \in Int /\ (N * k1 + P * k0) * SCALE \in Int
    BY <1>0, <1>1, <1>2
  <2> QED
    BY <2>1, <1>0, <1>2, <1>3, <1>4, <1>5
<1>7. a + b + 2 <= c + d
  <2>1. ASSUME c + d <= a + b + 1 PROVE FALSE
    <3>1. Q * (c + d) <= Q * (a + b + 1)
      BY <1>1, <1>2, <2>1
    <3>2. Q * (a + b + 1) = Q * (a + b) + Q
      BY <1>1, <1>2
    <3>3. Q * (a + b) \in Int /\ Q * (c + d) \in Int
      BY <1>1, <1>2
    <3> QED
      BY <3>1, <3>2, <3>3, <1>6, <1>2
  <2> QED
    BY <2>1, <1>1
<1>8. (a + b) \div 2 < (c + d) \div 2
  BY <1>1, <1>7
<1> QED
  BY <1>8 DEF a, b, c, d

\* Two predictions of the same worth, the second with fewer errors on negatives: their
\* balanced accuracies are reported equal and the second's specificity is higher.
LEMMA TieRounds ==
    ASSUME NEW y \in Labels, SCALE % TieParts(y) = 0,
           NEW P \in Nat \ {0}, P = Cardinality(Of(y, 1)),
           NEW N \in Nat \ {0}, N = Cardinality(Of(y, 0))
    PROVE  \A h1, h0, k1, k0 \in Nat :
              Worth(P, N, h1, h0) = Worth(P, N, k1, k0) /\ h0 < k0 =>
                 /\ Rate(h1, P) + Rate(h0, N) = Rate(k1, P) + Rate(k0, N)
                 /\ Rate(h0, N) < Rate(k0, N)
<1> SUFFICES ASSUME NEW h1 \in Nat, NEW h0 \in Nat, NEW k1 \in Nat, NEW k0 \in Nat,
                    N * h1 + P * h0 = N * k1 + P * k0, h0 < k0
             PROVE  /\ Rate(h1, P) + Rate(h0, N) = Rate(k1, P) + Rate(k0, N)
                    /\ Rate(h0, N) < Rate(k0, N)
  BY DEF Worth
<1> DEFINE s == h1 - k1
           t == k0 - h0
<1>0. SCALE \in Nat \ {0}
  BY StatisticsConstants
<1>1. s \in Int /\ t \in Int /\ N * s = P * t
  <2>1. N * (h1 - k1) = N * h1 - N * k1 /\ P * (k0 - h0) = P * k0 - P * h0
    OBVIOUS
  <2>2. N * h1 \in Int /\ N * k1 \in Int /\ P * k0 \in Int /\ P * h0 \in Int
    OBVIOUS
  <2> QED
    BY <2>1, <2>2
<1>2. \E m \in Int : Shifts(P, N, s, t, m)
  <2> HIDE DEF s, t
  <2> QED
    BY <1>1, ExactTie
<1>3. PICK m \in Int : SCALE * s = P * m /\ SCALE * t = N * m
  BY <1>2 DEF Shifts
<1>4. /\ k1 * SCALE + P * m = h1 * SCALE
      /\ h0 * SCALE + N * m = k0 * SCALE
  <2>1. SCALE * (h1 - k1) = h1 * SCALE - k1 * SCALE /\ SCALE * (k0 - h0) = k0 * SCALE - h0 * SCALE
    BY <1>0
  <2>2. h1 * SCALE \in Int /\ k1 * SCALE \in Int /\ k0 * SCALE \in Int /\ h0 * SCALE \in Int
    BY <1>0
  <2> QED
    BY <1>3, <2>1, <2>2
<1>5. Rate(h1, P) = Rate(k1, P) + m /\ Rate(k0, N) = Rate(h0, N) + m
  <2>1. k1 * SCALE \in Int /\ h0 * SCALE \in Int
    BY <1>0
  <2>2. \A x \in Int : (x + P * m) \div P = x \div P + m
    BY QuotientShift
  <2>3. \A x \in Int : (x + N * m) \div N = x \div N + m
    BY QuotientShift
  <2> QED
    BY <2>1, <2>2, <2>3, <1>4 DEF Rate
<1>6. m > 0
  <2>1. ASSUME m <= 0 PROVE FALSE
    <3>1. N * m <= N * 0
      BY <2>1
    <3>2. SCALE * (k0 - h0) >= 1
      BY <1>0
    <3> QED
      BY <3>1, <3>2, <1>3
  <2> QED
    BY <2>1
<1>7. Rate(k1, P) \in Int /\ Rate(h0, N) \in Int
  <2>1. k1 * SCALE \in Int /\ h0 * SCALE \in Int
    BY <1>0
  <2> QED
    BY <2>1, Quotient DEF Rate
<1> QED
  BY <1>5, <1>6, <1>7

----------------------------------------------------------------------------
(* The order of thresholds.                                                *)

Keys == Int \X Int \X Int \X Int

LEMMA AboveIs ==
    ASSUME NEW a \in Keys, NEW b \in Keys
    PROVE  Above(a, b) <=>
              \/ a[1] > b[1]
              \/ a[1] = b[1] /\ a[2] > b[2]
              \/ a[1] = b[1] /\ a[2] = b[2] /\ a[3] > b[3]
              \/ a[1] = b[1] /\ a[2] = b[2] /\ a[3] = b[3] /\ a[4] > b[4]
<1>1. DOMAIN a = 1..4 /\ 1..4 = {1, 2, 3, 4}
  BY DEF Keys
<1>2. 1..1-1 = {} /\ 1..2-1 = {1} /\ 1..3-1 = {1, 2} /\ 1..4-1 = {1, 2, 3}
  OBVIOUS
<1> QED
  BY <1>1, <1>2 DEF Above

LEMMA AboveOrders ==
    ASSUME NEW a \in Keys, NEW b \in Keys, NEW c \in Keys
    PROVE  /\ ~Above(a, a)
           /\ Above(b, c) /\ ~Above(a, c) => ~Above(a, b)
<1>1. \A x \in Keys : x[1] \in Int /\ x[2] \in Int /\ x[3] \in Int /\ x[4] \in Int
  BY DEF Keys
<1>2. ~Above(a, a)
  BY <1>1, AboveIs
<1>3. ASSUME Above(b, c), ~Above(a, c) PROVE ~Above(a, b)
  BY <1>1, <1>3, AboveIs
<1> QED
  BY <1>2, <1>3

----------------------------------------------------------------------------
(* Thresholds.                                                             *)

LEMMA ObservedValues ==
    ASSUME NEW f \in Fits
    PROVE  /\ f.y \in Labels /\ DOMAIN f.values = DOMAIN f.y
           /\ f.direction \in {"high", "low"}
           /\ Values(f.values) \in SUBSET Int
           /\ IsFiniteSet(Values(f.values))
           /\ Values(f.values) # {}
           /\ CandidateThresholds(f.values) \in SUBSET Int
           /\ IsFiniteSet(CandidateThresholds(f.values))
<1>1. /\ f.values \in Seq(Int) /\ f.y \in Seq({0, 1}) /\ f.direction \in {"high", "low"}
      /\ Len(f.values) = Len(f.y) /\ \A o \in {0, 1} : \E i \in DOMAIN f.y : f.y[i] = o
  BY StatisticsConstants
<1>2. DOMAIN f.values = DOMAIN f.y /\ f.y \in Labels
  BY <1>1 DEF Labels, Of
<1>3. Values(f.values) \in SUBSET Int
  BY <1>1 DEF Values
<1>4. Values(f.values) # {}
  BY <1>1, <1>2 DEF Values
<1>5. IsFiniteSet(Values(f.values))
  <2> DEFINE n == Len(f.values)
  <2>1. n \in Nat /\ DOMAIN f.values = 1..n
    BY <1>1
  <2>2. IsFiniteSet(1..n)
    BY <2>1, Indices
  <2>3. f.values \in Surjection(1..n, Values(f.values))
    BY <1>1, <2>1 DEF Values, Surjection
  <2> QED
    BY <2>2, <2>3, FS_Surjection
<1>6. CandidateThresholds(f.values) \in SUBSET Int
  <2>1. Min(Values(f.values)) \in Int /\ Max(Values(f.values)) \in Int
    BY <1>3, <1>4, <1>5, MinIs
  <2> QED
    BY <1>3, <2>1 DEF CandidateThresholds
<1>7. IsFiniteSet(CandidateThresholds(f.values))
  <2> DEFINE V == Values(f.values)
             W == V \cup {Min(V) - 1}
  <2>1. IsFiniteSet(W)
    BY <1>5, FS_AddElement
  <2> HIDE DEF W
  <2>2. IsFiniteSet(W \cup {Max(V) + 1})
    BY <2>1, FS_AddElement
  <2>3. CandidateThresholds(f.values) = W \cup {Max(V) + 1}
    BY DEF CandidateThresholds, W
  <2> QED
    BY <2>2, <2>3
<1> QED
  BY <1>1, <1>2, <1>3, <1>4, <1>5, <1>6, <1>7

\* Every integer predicts like one of the candidates.
LEMMA LikeCandidate ==
    ASSUME NEW f \in Fits, NEW t \in Int
    PROVE  \E c \in CandidateThresholds(f.values) :
               Predictions(f.values, c, f.direction) = Predictions(f.values, t, f.direction)
<1> DEFINE V == Values(f.values)
<1>1. V \in SUBSET Int /\ IsFiniteSet(V) /\ V # {} /\ f.direction \in {"high", "low"}
  BY ObservedValues
<1>2. \A i \in DOMAIN f.values : f.values[i] \in V
  BY DEF Values
<1>3. /\ Min(V) \in Int /\ \A v \in V : Min(V) <= v
      /\ Max(V) \in Int /\ \A v \in V : Max(V) >= v
  BY <1>1, MinIs
<1>4. CASE f.direction = "high"
  <2> SUFFICES \E c \in CandidateThresholds(f.values) : \A v \in V : v >= c <=> v >= t
    BY <1>2, <1>4 DEF Predictions
  <2>1. CASE Upto(V, t) = {}
    <3>1. \A v \in V : ~(v >= t)
      BY <2>1 DEF Upto
    <3>2. \A v \in V : ~(v >= Max(V) + 1)
      BY <1>1, <1>3
    <3>3. Max(V) + 1 \in CandidateThresholds(f.values)
      BY DEF CandidateThresholds
    <3> QED
      BY <3>1, <3>2, <3>3
  <2>2. CASE Upto(V, t) # {}
    <3>1. Upto(V, t) \in SUBSET V /\ Upto(V, t) \in SUBSET Int
      BY <1>1 DEF Upto
    <3>2. IsFiniteSet(Upto(V, t))
      BY <1>1, <3>1, FS_Subset
    <3>3. PICK c \in Upto(V, t) : \A v \in Upto(V, t) : c <= v
      BY <2>2, <3>1, <3>2, Extremes
    <3>4. c \in CandidateThresholds(f.values)
      BY <3>1, <3>3 DEF CandidateThresholds
    <3>5. c >= t /\ \A v \in V : v >= t => c <= v
      BY <3>3 DEF Upto
    <3> QED
      BY <1>1, <3>1, <3>4, <3>5
  <2> QED
    BY <2>1, <2>2
<1>5. CASE f.direction = "low"
  <2> SUFFICES \E c \in CandidateThresholds(f.values) : \A v \in V : v <= c <=> v <= t
    BY <1>2, <1>5 DEF Predictions
  <2>1. CASE Downto(V, t) = {}
    <3>1. \A v \in V : ~(v <= t)
      BY <2>1 DEF Downto
    <3>2. \A v \in V : ~(v <= Min(V) - 1)
      BY <1>1, <1>3
    <3>3. Min(V) - 1 \in CandidateThresholds(f.values)
      BY DEF CandidateThresholds
    <3> QED
      BY <3>1, <3>2, <3>3
  <2>2. CASE Downto(V, t) # {}
    <3>1. Downto(V, t) \in SUBSET V /\ Downto(V, t) \in SUBSET Int
      BY <1>1 DEF Downto
    <3>2. IsFiniteSet(Downto(V, t))
      BY <1>1, <3>1, FS_Subset
    <3>3. PICK c \in Downto(V, t) : \A v \in Downto(V, t) : c >= v
      BY <2>2, <3>1, <3>2, Extremes
    <3>4. c \in CandidateThresholds(f.values)
      BY <3>1, <3>3 DEF CandidateThresholds
    <3>5. c <= t /\ \A v \in V : v <= t => c >= v
      BY <3>3 DEF Downto
    <3> QED
      BY <1>1, <3>1, <3>4, <3>5
  <2> QED
    BY <2>1, <2>2
<1> QED
  BY <1>1, <1>4, <1>5

\* Predictions of which one makes every correction the other makes, and that hit as
\* often in both classes, are the same.
LEMMA SameHits ==
    ASSUME NEW y \in Labels, NEW p \in [DOMAIN y -> {0, 1}], NEW q \in [DOMAIN y -> {0, 1}],
           \A i \in DOMAIN y : p[i] = 1 => q[i] = 1,
           \A o \in {0, 1} : Hits(y, p, o) = Hits(y, q, o)
    PROVE  p = q
<1> DEFINE H(r, o) == {i \in Of(y, o) : r[i] = o}
<1>1. \A i \in DOMAIN y : y[i] \in {0, 1}
  BY DEF Labels
<1>2. \A o \in {0, 1} : IsFiniteSet(H(p, o)) /\ IsFiniteSet(H(q, o))
  <2> TAKE o \in {0, 1}
  <2>1. H(p, o) \in SUBSET Of(y, o) /\ H(q, o) \in SUBSET Of(y, o) /\ IsFiniteSet(Of(y, o))
    BY Classes
  <2> HIDE DEF H
  <2> QED
    BY <2>1, FS_Subset
<1>3. H(p, 1) \in SUBSET H(q, 1) /\ H(q, 0) \in SUBSET H(p, 0)
  BY DEF Of
<1>4. \A o \in {0, 1} : Cardinality(H(p, o)) = Cardinality(H(q, o))
  BY DEF Hits
<1>5. H(p, 1) = H(q, 1) /\ H(p, 0) = H(q, 0)
  <2> HIDE DEF H
  <2> QED
    BY <1>2, <1>3, <1>4, FS_Subset
<1>6. \A i \in DOMAIN y : p[i] = q[i]
  <2> TAKE i \in DOMAIN y
  <2>1. i \in Of(y, y[i])
    BY DEF Of
  <2>2. CASE y[i] = 1
    BY <2>1, <2>2, <1>5
  <2>3. CASE y[i] = 0
    BY <2>1, <2>3, <1>5
  <2> QED
    BY <1>1, <2>2, <2>3
<1> QED
  BY <1>6

\* Of two thresholds, one predicts every correction the other does.
LEMMA OnePredicts ==
    ASSUME NEW f \in Fits, NEW t \in Int, NEW u \in Int,
           \A o \in {0, 1} : Hits(f.y, Predictions(f.values, t, f.direction), o)
                                = Hits(f.y, Predictions(f.values, u, f.direction), o)
    PROVE  Predictions(f.values, t, f.direction) = Predictions(f.values, u, f.direction)
<1> DEFINE p == Predictions(f.values, t, f.direction)
           q == Predictions(f.values, u, f.direction)
<1>1. /\ f.y \in Labels /\ DOMAIN f.values = DOMAIN f.y
      /\ \A i \in DOMAIN f.values : f.values[i] \in Int
  BY ObservedValues DEF Values
<1>2. p \in [DOMAIN f.y -> {0, 1}] /\ q \in [DOMAIN f.y -> {0, 1}]
  BY <1>1 DEF Predictions
<1>3. \/ \A i \in DOMAIN f.y : p[i] = 1 => q[i] = 1
      \/ \A i \in DOMAIN f.y : q[i] = 1 => p[i] = 1
  <2>1. CASE t <= u
    BY <1>1, <2>1 DEF Predictions
  <2>2. CASE u <= t
    BY <1>1, <2>2 DEF Predictions
  <2> QED
    BY <2>1, <2>2
<1> HIDE DEF p, q
<1>4. \A o \in {0, 1} : Hits(f.y, p, o) = Hits(f.y, q, o)
  BY DEF p, q
<1>5. p = q
  BY <1>1, <1>2, <1>3, <1>4, SameHits
<1> QED
  BY <1>5 DEF p, q

----------------------------------------------------------------------------
(* The threshold kept is the best so far.                                  *)

\* Threshold t with its statistics on calibration f, and the key it is ranked by.
Tried(f, t) ==
    [stats |-> Classification(f.y, Predictions(f.values, t, f.direction)), threshold |-> t]

Key(f, t) == FitKey(Tried(f, t).stats, t, f.direction)

\* What is kept is one of the candidates tried, with its own statistics, and none of the
\* others tried ranks above it.
BestInv ==
    pc \in {"fit", "fitted"} =>
        /\ input \in Fits
        /\ todo \subseteq CandidateThresholds(input.values)
        /\ best = None => todo = CandidateThresholds(input.values)
        /\ best # None =>
              \E t \in CandidateThresholds(input.values) \ todo :
                  /\ best = Tried(input, t)
                  /\ \A c \in CandidateThresholds(input.values) \ todo :
                        ~Above(Key(input, c), Key(input, t))
        /\ pc = "fitted" => todo = {} /\ best # None

LEMMA KeysTyped ==
    ASSUME NEW f \in Fits, NEW t \in Int
    PROVE  Key(f, t) \in Keys /\ Tried(f, t) # None
<1> DEFINE pred == Predictions(f.values, t, f.direction)
           c == Classification(f.y, pred)
<1>1. f.y \in Labels
  BY ObservedValues
<1>2. c \in [sensitivity: Nat, specificity: Nat, balanced: Nat]
  <2> DEFINE a == Rate(Hits(f.y, pred, 1), Cardinality(Of(f.y, 1)))
             b == Rate(Hits(f.y, pred, 0), Cardinality(Of(f.y, 0)))
  <2> HIDE DEF pred
  <2>1. /\ a \in Nat /\ b \in Nat /\ (a + b) \div 2 \in Nat
        /\ c = [sensitivity |-> a, specificity |-> b, balanced |-> (a + b) \div 2]
    BY <1>1, Rates
  <2> QED
    BY <2>1
<1>3. Tried(f, t) \in [stats: [sensitivity: Nat, specificity: Nat, balanced: Nat], threshold: Int]
  BY <1>2 DEF Tried
<1>4. Key(f, t) \in Keys
  BY <1>2 DEF Key, Tried, FitKey, Keys
<1> QED
  BY <1>3, <1>4, StatisticsConstants

LEMMA BestInit == Init => BestInv
BY DEF Init, BestInv

LEMMA BestTried == BestInv /\ TryThreshold => BestInv'
<1> SUFFICES ASSUME BestInv, TryThreshold PROVE BestInv'
  OBVIOUS
<1> DEFINE C == CandidateThresholds(input.values)
           t == Min(todo)
           new == Tried(input, t)
<1>1. /\ pc = "fit" /\ todo # {} /\ todo' = todo \ {t} /\ input' = input
      /\ pc' = IF todo' = {} THEN "fitted" ELSE pc
      /\ best' = IF best = None THEN new
                 ELSE IF Above(FitKey(new.stats, new.threshold, input.direction),
                               FitKey(best.stats, best.threshold, input.direction))
                      THEN new ELSE best
  BY DEF TryThreshold, Tried
<1>2. input \in Fits /\ todo \subseteq C /\ (best = None => todo = C)
  BY <1>1 DEF BestInv
<1>3. t \in todo
  <2>1. C \in SUBSET Int /\ IsFiniteSet(C)
    BY <1>2, ObservedValues
  <2> HIDE DEF C
  <2>2. todo \in SUBSET Int /\ IsFiniteSet(todo)
    BY <1>2, <2>1, FS_Subset
  <2> QED
    BY <1>1, <2>2, MinIs
<1> HIDE DEF t
<1>4. \A c \in C : Key(input, c) \in Keys /\ Tried(input, c) # None
  BY <1>2, ObservedValues, KeysTyped
<1>5. C \ todo' = (C \ todo) \cup {t}
  BY <1>1, <1>2, <1>3
<1> HIDE DEF C
<1>6. CASE best = None
  <2>1. best' = new /\ C \ todo' = {t}
    BY <1>1, <1>2, <1>5, <1>6
  <2>2. t \in C /\ new # None
    BY <1>2, <1>3, <1>4
  <2>3. ~Above(Key(input, t), Key(input, t))
    BY <1>4, <2>2, AboveOrders
  <2>4. \E u \in C \ todo' :
           best' = new /\ u = t /\ \A c \in C \ todo' : ~Above(Key(input, c), Key(input, u))
    BY <2>1, <2>3
  <2> QED
    BY <1>1, <1>2, <2>1, <2>2, <2>4 DEF BestInv, C
<1>7. CASE best # None
  <2>1. PICK u \in C \ todo :
           /\ best = Tried(input, u)
           /\ \A c \in C \ todo : ~Above(Key(input, c), Key(input, u))
    BY <1>1, <1>7 DEF BestInv, C
  <2>2. u \in C /\ t \in C
    BY <1>2, <1>3, <2>1
  <2>3. best' = IF Above(Key(input, t), Key(input, u)) THEN new ELSE best
    BY <1>1, <1>7, <2>1 DEF Key, Tried
  <2>4. \E w \in C \ todo' :
           /\ best' = Tried(input, w)
           /\ \A c \in C \ todo' : ~Above(Key(input, c), Key(input, w))
    <3>1. CASE Above(Key(input, t), Key(input, u))
      <4>1. \A c \in C \ todo' : ~Above(Key(input, c), Key(input, t))
        BY <1>4, <1>5, <2>1, <2>2, <3>1, AboveOrders
      <4> QED
        BY <1>5, <2>3, <3>1, <4>1
    <3>2. CASE ~Above(Key(input, t), Key(input, u))
      BY <1>5, <2>1, <2>3, <3>2
    <3> QED
      BY <3>1, <3>2
  <2>5. best' # None
    BY <1>4, <2>4
  <2> QED
    BY <1>1, <1>2, <2>4, <2>5 DEF BestInv, C
<1> QED
  BY <1>6, <1>7

LEMMA BestStep == BestInv /\ [Next]_vars => BestInv'
<1> SUFFICES ASSUME BestInv, [Next]_vars PROVE BestInv'
  OBVIOUS
<1>1. CASE TryThreshold
  BY <1>1, BestTried
<1>2. CASE pc' \notin {"fit", "fitted"}
  BY <1>2 DEF BestInv
<1>3. CASE UNCHANGED vars
  BY <1>3 DEF BestInv, vars
<1>4. ASSUME Next, ~TryThreshold PROVE pc' \notin {"fit", "fitted"}
  BY <1>4 DEF Next, Classify, Randomize, EndRandomization, Draw, EndPositive, Interval, Conclude
<1> QED
  BY <1>1, <1>2, <1>3, <1>4

\* No candidate is a better threshold than the one kept at the end.
LEMMA BestCandidate ==
    ASSUME NEW f \in Fits, SCALE % TieParts(f.y) = 0,
           NEW t \in CandidateThresholds(f.values), NEW c \in CandidateThresholds(f.values),
           ~Above(Key(f, c), Key(f, t)),
           NEW fitted, fitted = Predictions(f.values, t, f.direction),
           NEW other, other = Predictions(f.values, c, f.direction)
    PROVE  \/ Delta(f.y, other, fitted) < 0
           \/ Delta(f.y, other, fitted) = 0 /\ Hits(f.y, other, 0) < Hits(f.y, fitted, 0)
           \/ other = fitted /\ (IF f.direction = "high" THEN -c <= -t ELSE c <= t)
<1> DEFINE y == f.y
           P == Cardinality(Of(y, 1))
           N == Cardinality(Of(y, 0))
           h1 == Hits(y, fitted, 1)
           h0 == Hits(y, fitted, 0)
           k1 == Hits(y, other, 1)
           k0 == Hits(y, other, 0)
           a == Rate(h1, P)
           b == Rate(h0, N)
           d == Rate(k1, P)
           e == Rate(k0, N)
<1>1. y \in Labels /\ t \in Int /\ c \in Int
  BY ObservedValues
<1>2. /\ P \in Nat \ {0} /\ N \in Nat \ {0} /\ h1 \in Nat /\ h0 \in Nat
      /\ a \in Nat /\ b \in Nat /\ (a + b) \div 2 \in Nat
      /\ Classification(y, fitted)
            = [sensitivity |-> a, specificity |-> b, balanced |-> (a + b) \div 2]
  <2> HIDE DEF y
  <2> QED
    BY <1>1, Rates
<1>3. /\ k1 \in Nat /\ k0 \in Nat
      /\ d \in Nat /\ e \in Nat /\ (d + e) \div 2 \in Nat
      /\ Classification(y, other)
            = [sensitivity |-> d, specificity |-> e, balanced |-> (d + e) \div 2]
  <2> HIDE DEF y
  <2> QED
    BY <1>1, Rates
<1>4. /\ ~((d + e) \div 2 > (a + b) \div 2)
      /\ ~((d + e) \div 2 = (a + b) \div 2 /\ e > b)
      /\ (d = a /\ e = b) =>
             ~((IF f.direction = "high" THEN -c ELSE c) > (IF f.direction = "high" THEN -t ELSE t))
  <2>1. Key(f, c) \in Keys /\ Key(f, t) \in Keys
    BY <1>1, KeysTyped
  <2>2. /\ Key(f, c) = <<(d + e) \div 2, e, d, IF f.direction = "high" THEN -c ELSE c>>
        /\ Key(f, t) = <<(a + b) \div 2, b, a, IF f.direction = "high" THEN -t ELSE t>>
    BY <1>2, <1>3 DEF Key, Tried, FitKey
  <2> HIDE DEF a, b, d, e
  <2> QED
    BY <2>1, <2>2, AboveIs
<1>5. 3 * N * P <= SCALE
  BY CalibrationSizes
<1>6. Delta(y, other, fitted) = (N * k1 + P * k0) - (N * h1 + P * h0)
  <2>1. Delta(y, other, fitted) = N * (k1 - h1) + P * (k0 - h0)
    BY DEF Delta
  <2> HIDE DEF P, N, h1, h0, k1, k0
  <2> QED
    BY <1>2, <1>3, <2>1
<1>7. N * k1 + P * k0 \in Int /\ N * h1 + P * h0 \in Int
  <2> HIDE DEF P, N, h1, h0, k1, k0
  <2> QED
    BY <1>2, <1>3
<1>8. CASE N * h1 + P * h0 < N * k1 + P * k0
  <2>1. (a + b) \div 2 < (d + e) \div 2
    <3> HIDE DEF P, N, h1, h0, k1, k0
    <3> QED
      BY <1>2, <1>3, <1>5, <1>8, GainRounds
  <2> HIDE DEF a, b, d, e
  <2> QED
    BY <1>2, <1>3, <1>4, <2>1
<1>9. CASE N * h1 + P * h0 = N * k1 + P * k0
  <2>1. CASE h0 < k0
    <3>1. a + b = d + e /\ b < e
      <4>1. P = Cardinality(Of(f.y, 1)) /\ N = Cardinality(Of(f.y, 0)) /\ f.y \in Labels
        BY <1>1
      <4> HIDE DEF P, N, h1, h0, k1, k0
      <4>2. Worth(P, N, h1, h0) = Worth(P, N, k1, k0) /\ h0 < k0
        BY <1>9, <2>1 DEF Worth
      <4>3. \A i1, i0, j1, j0 \in Nat :
              Worth(P, N, i1, i0) = Worth(P, N, j1, j0) /\ i0 < j0 =>
                 /\ Rate(i1, P) + Rate(i0, N) = Rate(j1, P) + Rate(j0, N)
                 /\ Rate(i0, N) < Rate(j0, N)
        BY <4>1, <1>2, TieRounds
      <4>4. /\ Rate(h1, P) + Rate(h0, N) = Rate(k1, P) + Rate(k0, N)
            /\ Rate(h0, N) < Rate(k0, N)
        BY <4>2, <4>3, <1>2, <1>3
      <4> QED
        BY <4>4
    <3> HIDE DEF a, b, d, e
    <3> QED
      BY <1>2, <1>3, <1>4, <3>1
  <2>2. CASE k0 < h0
    BY <1>6, <1>7, <1>9, <2>2
  <2>3. CASE h0 = k0
    <3>1. N * h1 = N * k1
      <4> HIDE DEF P, N, h1, h0, k1, k0
      <4> QED
        BY <1>2, <1>3, <1>9, <2>3
    <3>2. h1 = k1
      <4> HIDE DEF P, N, h1, h0, k1, k0
      <4> QED
        BY <1>2, <1>3, <3>1
    <3>3. \A o \in {0, 1} : Hits(f.y, other, o) = Hits(f.y, fitted, o)
      BY <2>3, <3>2
    <3>4. other = fitted
      BY <1>1, <3>3, OnePredicts
    <3>5. a = d /\ b = e
      BY <2>3, <3>2
    <3> HIDE DEF a, b, d, e
    <3> QED
      BY <1>1, <1>4, <3>4, <3>5
  <2> QED
    BY <1>2, <1>3, <2>1, <2>2, <2>3
<1>10. CASE N * k1 + P * k0 < N * h1 + P * h0
  BY <1>6, <1>7, <1>10
<1> QED
  BY <1>7, <1>8, <1>9, <1>10

LEMMA BestFits == BestInv => FitBest
<1> SUFFICES ASSUME BestInv, pc = "fitted", SCALE % TieParts(input.y) = 0,
                    NEW t \in Min(Values(input.values)) - 2 .. Max(Values(input.values)) + 2
             PROVE  LET y == input.y
                        fitted == Predictions(input.values, best.threshold, input.direction)
                        away(u) == IF input.direction = "high" THEN -u ELSE u
                        other == Predictions(input.values, t, input.direction)
                        gain == Delta(y, other, fitted)
                    IN  \/ gain < 0
                        \/ gain = 0 /\ Hits(y, other, 0) < Hits(y, fitted, 0)
                        \/ other = fitted
                              /\ (t \in CandidateThresholds(input.values)
                                     => away(t) <= away(best.threshold))
  BY DEF FitBest
<1> DEFINE C == CandidateThresholds(input.values)
<1>1. input \in Fits /\ todo = {} /\ best # None
  BY DEF BestInv
<1>2. PICK b \in C : best = Tried(input, b) /\ \A c \in C : ~Above(Key(input, c), Key(input, b))
  BY <1>1 DEF BestInv
<1>3. best.threshold = b /\ b \in Int
  BY <1>1, <1>2, ObservedValues DEF Tried
<1>4. t \in Int
  <2>1. Min(Values(input.values)) \in Int /\ Max(Values(input.values)) \in Int
    BY <1>1, ObservedValues, MinIs
  <2> QED
    BY <2>1
<1>5. CASE t \in C
  BY <1>1, <1>2, <1>3, <1>5, BestCandidate
<1>6. CASE t \notin C
  <2>1. PICK c \in C : Predictions(input.values, c, input.direction)
                          = Predictions(input.values, t, input.direction)
    BY <1>1, <1>4, LikeCandidate
  <2> QED
    BY <1>1, <1>2, <1>3, <1>6, <2>1, BestCandidate
<1> QED
  BY <1>5, <1>6

\* No integer is a better threshold than the one _fit_threshold keeps: in balanced
\* accuracy, then in specificity, then in being conservative, although the accuracies
\* compared are rounded down twice.
THEOREM FittedIsBest == Spec => []FitBest
<1> QED
  BY BestInit, BestStep, BestFits, PTL DEF Spec

----------------------------------------------------------------------------
(* Sums and tallies.                                                       *)

\* Two finite sets without a common element.
LEMMA ApartAdd ==
    ASSUME NEW A, NEW B, IsFiniteSet(A), IsFiniteSet(B), A \cap B = {}
    PROVE  IsFiniteSet(A \cup B) /\ Cardinality(A \cup B) = Cardinality(A) + Cardinality(B)
<1>1. Cardinality(A) \in Nat /\ Cardinality(B) \in Nat
  BY FS_CardinalityType
<1>2. Cardinality(A \cap B) = 0
  BY FS_EmptySet
<1>3. IsFiniteSet(A \cup B)
         /\ Cardinality(A \cup B) = Cardinality(A) + Cardinality(B) - Cardinality(A \cap B)
  BY FS_Union
<1> QED
  BY <1>1, <1>2, <1>3

\* G gives the sums of f over the subsets of S, taking out one element at a time.
SumsOf(f, S, G) ==
    /\ G = [s \in SUBSET S |-> G[s]]
    /\ G[{}] = 0
    /\ \A s \in SUBSET S : \A x \in s : G[s] = f[x] + G[s \ {x}]

\* Whatever the order SumFunctionOnSet takes them in.
LEMMA SumIs ==
    ASSUME NEW f, NEW S, IsFiniteSet(S), NEW G, SumsOf(f, S, G)
    PROVE  SumFunctionOnSet(f, S) = G[S]
<1> DEFINE Eq(g) == g = [s \in SUBSET S |->
                           IF s = {} THEN 0
                           ELSE f[CHOOSE x \in s : TRUE] + g[s \ {CHOOSE x \in s : TRUE}]]
           iter == CHOOSE g : Eq(g)
<1>1. SumFunctionOnSet(f, S) = iter[S]
  BY DEF SumFunctionOnSet, FoldFunctionOnSet, MapThenFoldSet
<1>2. Eq(G)
  <2>1. \A s \in SUBSET S : s # {} => (CHOOSE x \in s : TRUE) \in s
    OBVIOUS
  <2>2. \A s \in SUBSET S : s # {} =>
            G[s] = f[CHOOSE x \in s : TRUE] + G[s \ {CHOOSE x \in s : TRUE}]
    BY <2>1 DEF SumsOf
  <2> QED
    BY <2>2 DEF SumsOf
<1>3. Eq(iter)
  <2> HIDE DEF Eq
  <2> QED
    BY <1>2
<1>4. ASSUME NEW s \in SUBSET S, iter[s] # G[s] PROVE FALSE
  <2> DEFINE W == {t \in SUBSET S : iter[t] # G[t]}
             K == {Cardinality(t) : t \in W}
  <2>1. \A t \in SUBSET S : IsFiniteSet(t) /\ Cardinality(t) \in Nat
    BY FS_Subset, FS_CardinalityType
  <2>2. K \in SUBSET Nat /\ K # {}
    BY <2>1, <1>4
  <2>3. PICK t \in W : \A u \in W : Cardinality(t) <= Cardinality(u)
    <3> HIDE DEF K
    <3>1. PICK k \in K : \A l \in K : k <= l
      BY <2>2, Least
    <3> QED
      BY <3>1 DEF K
  <2>4. t # {}
    <3>1. iter[{}] = 0
      <4> HIDE DEF iter
      <4> QED
        BY <1>3
    <3>2. iter[{}] = G[{}]
      BY <3>1 DEF SumsOf
    <3> QED
      BY <2>3, <3>2
  <2> DEFINE x == CHOOSE x \in t : TRUE
  <2>5. x \in t
    BY <2>4
  <2>6. iter[t] = f[x] + iter[t \ {x}]
    <3> HIDE DEF iter
    <3> QED
      BY <1>3, <2>3, <2>4
  <2> HIDE DEF x
  <2>7. G[t] = f[x] + G[t \ {x}]
    BY <2>3, <2>5 DEF SumsOf
  <2>8. t \ {x} \in W
    <3> HIDE DEF iter
    <3> QED
      BY <2>3, <2>6, <2>7
  <2>9. Cardinality(t \ {x}) < Cardinality(t)
    <3>1. IsFiniteSet(t) /\ Cardinality(t) \in Nat
      BY <2>1, <2>3
    <3>2. Cardinality(t \ {x}) = Cardinality(t) - 1
      BY <3>1, <2>5, FS_RemoveElement
    <3> QED
      BY <3>1, <3>2
  <2>10. Cardinality(t) <= Cardinality(t \ {x}) /\ Cardinality(t) \in Nat /\ Cardinality(t \ {x}) \in Nat
    <3>1. t \in SUBSET S /\ t \ {x} \in SUBSET S
      BY <2>3
    <3> HIDE DEF W
    <3> QED
      BY <2>1, <2>3, <2>8, <3>1
  <2> QED
    BY <2>9, <2>10
<1> QED
  BY <1>1, <1>4

\* How often each value occurs among those of val.
Tally(val) == [v \in {val[h] : h \in DOMAIN val} |-> Cardinality({h \in DOMAIN val : val[h] = v})]

\* A sum of such numbers counts all elements with one of the values.
LEMMA SumCounts ==
    ASSUME NEW U, IsFiniteSet(U), NEW cls, NEW f, NEW S, IsFiniteSet(S),
           \A x \in S : f[x] = Cardinality({z \in U : cls[z] = x})
    PROVE  SumFunctionOnSet(f, S) = Cardinality({z \in U : cls[z] \in S})
<1> DEFINE In(s) == {z \in U : cls[z] \in s}
           G == [s \in SUBSET S |-> Cardinality(In(s))]
<1>1. \A s : IsFiniteSet(In(s)) /\ Cardinality(In(s)) \in Nat
  <2> TAKE s
  <2>1. In(s) \in SUBSET U
    OBVIOUS
  <2> QED
    BY <2>1, FS_Subset, FS_CardinalityType
<1>2. Cardinality(In({})) = 0
  <2>1. In({}) = {}
    OBVIOUS
  <2> QED
    BY <2>1, FS_EmptySet
<1>3. ASSUME NEW s \in SUBSET S, NEW x \in s
      PROVE  Cardinality(In(s)) = f[x] + Cardinality(In(s \ {x}))
  <2>1. In(s) = In({x}) \cup In(s \ {x}) /\ In({x}) \cap In(s \ {x}) = {}
    OBVIOUS
  <2>2. f[x] = Cardinality(In({x}))
    <3>1. In({x}) = {z \in U : cls[z] = x}
      OBVIOUS
    <3> QED
      BY <3>1
  <2> HIDE DEF In
  <2> QED
    BY <1>1, <2>1, <2>2, ApartAdd
<1> HIDE DEF In
<1>4. SumsOf(f, S, G)
  <2>1. \A s \in SUBSET S : \A x \in s : s \ {x} \in SUBSET S
    OBVIOUS
  <2> QED
    BY <1>2, <1>3, <2>1 DEF SumsOf
<1>5. SumFunctionOnSet(f, S) = G[S]
  <2> HIDE DEF G
  <2> QED
    BY <1>4, SumIs
<1> QED
  BY <1>5 DEF In

----------------------------------------------------------------------------
(* Pairs of enumerations, and enumerations matched one for one.            *)

\* The elements of E that g takes into A.
Into(E, g, A) == {x \in E : g[x] \in A}

\* A one-to-one match of finite sets matches the elements that fall into a part.
LEMMA MatchCount ==
    ASSUME NEW E, NEW F, IsFiniteSet(F), NEW g \in Bijection(E, F), NEW A \in SUBSET F
    PROVE  IsFiniteSet(Into(E, g, A)) /\ Cardinality(Into(E, g, A)) = Cardinality(A)
<1> DEFINE B == Into(E, g, A)
           r == [x \in B |-> g[x]]
<1>1. /\ g \in [E -> F] /\ \A x, z \in E : g[x] = g[z] => x = z
      /\ \A h \in F : \E x \in E : g[x] = h
  BY DEF Bijection, Injection, Surjection, IsInjective
<1>2. r \in Bijection(B, A)
  <2>1. r \in [B -> A] /\ \A x, z \in B : r[x] = r[z] => x = z
    BY <1>1 DEF Into
  <2>2. \A h \in A : \E x \in B : r[x] = h
    BY <1>1 DEF Into
  <2> HIDE DEF r
  <2> QED
    BY <2>1, <2>2 DEF Bijection, Injection, Surjection, IsInjective
<1>3. ExistsBijection(A, B)
  <2> HIDE DEF B, r
  <2> QED
    BY <1>2, Fun_ExistsBijSymmetric DEF ExistsBijection
<1>4. IsFiniteSet(A)
  BY FS_Subset
<1> QED
  BY <1>3, <1>4, FS_Bijection

\* Matched elements of the same values are tallied alike.
LEMMA TallyMatched ==
    ASSUME NEW E, NEW F, IsFiniteSet(F), NEW g \in Bijection(E, F),
           NEW val, F = DOMAIN val, NEW mine, E = DOMAIN mine,
           \A x \in E : mine[x] = val[g[x]]
    PROVE  Tally(mine) = Tally(val)
<1>1. g \in [E -> F] /\ \A h \in F : \E x \in E : g[x] = h
  BY DEF Bijection, Injection, Surjection
<1>2. {mine[x] : x \in E} = {val[h] : h \in F}
  BY <1>1
<1>3. \A v : Cardinality({x \in E : mine[x] = v}) = Cardinality({h \in F : val[h] = v})
  <2> TAKE v
  <2> DEFINE A == {h \in F : val[h] = v}
  <2>1. {x \in E : mine[x] = v} = Into(E, g, A)
    BY <1>1 DEF Into
  <2>2. A \in SUBSET F
    OBVIOUS
  <2> HIDE DEF A
  <2>3. Cardinality(Into(E, g, A)) = Cardinality(A)
    BY <2>2, MatchCount
  <2> QED
    BY <2>1, <2>3 DEF A
<1> QED
  BY <1>2, <1>3 DEF Tally

\* A tally is a finite function.
LEMMA TallyParts ==
    ASSUME NEW val, IsFiniteSet(DOMAIN val)
    PROVE  /\ DOMAIN Tally(val) = {val[h] : h \in DOMAIN val}
           /\ IsFiniteSet(DOMAIN Tally(val))
           /\ \A v \in DOMAIN Tally(val) :
                 Tally(val)[v] = Cardinality({h \in DOMAIN val : val[h] = v})
<1>1. /\ DOMAIN Tally(val) = {val[h] : h \in DOMAIN val}
      /\ \A v \in DOMAIN Tally(val) :
            Tally(val)[v] = Cardinality({h \in DOMAIN val : val[h] = v})
  BY DEF Tally
<1>2. IsFiniteSet(DOMAIN Tally(val))
  <2> DEFINE r == [h \in DOMAIN val |-> val[h]]
  <2>1. r \in Surjection(DOMAIN val, DOMAIN Tally(val))
    BY <1>1 DEF Surjection
  <2> HIDE DEF r
  <2> QED
    BY <2>1, FS_Surjection
<1> QED
  BY <1>1, <1>2

\* Part of it sums to the elements with those values.
LEMMA TallySums ==
    ASSUME NEW val, IsFiniteSet(DOMAIN val), NEW V \in SUBSET DOMAIN Tally(val)
    PROVE  SumFunctionOnSet(Tally(val), V) = Cardinality({h \in DOMAIN val : val[h] \in V})
<1>1. /\ IsFiniteSet(DOMAIN Tally(val))
      /\ \A v \in DOMAIN Tally(val) :
            Tally(val)[v] = Cardinality({h \in DOMAIN val : val[h] = v})
  BY TallyParts
<1>2. IsFiniteSet(V)
  BY <1>1, FS_Subset
<1>3. \A x \in V : Tally(val)[x] = Cardinality({z \in DOMAIN val : val[z] = x})
  BY <1>1
<1> QED
  BY <1>2, <1>3, SumCounts

\* Crossing two tallies tallies the pairs.
Pairing(a, b, m, n) ==
    [z \in (DOMAIN a) \X (DOMAIN b) |-> m * a[z[1]] + n * b[z[2]]]

\* Crossing two tallies tallies the pairs.
LEMMA CrossedTallies ==
    ASSUME NEW E, NEW F, IsFiniteSet(E), IsFiniteSet(F),
           NEW a, E = DOMAIN a, NEW b, F = DOMAIN b, NEW m, NEW n
    PROVE  Crossed(Tally(a), Tally(b), m, n) = Tally(Pairing(a, b, m, n))
<1> DEFINE d == Tally(a)
           e == Tally(b)
           pairs == (DOMAIN d) \X (DOMAIN e)
           worth(x) == m * x[1] + n * x[2]
           alike(v) == {x \in pairs : worth(x) = v}
           c == Pairing(a, b, m, n)
           U == E \X F
           cls == [z \in U |-> <<a[z[1]], b[z[2]]>>]
<1>1. /\ DOMAIN d = {a[h] : h \in E} /\ IsFiniteSet(DOMAIN d)
      /\ \A v \in DOMAIN d : d[v] = Cardinality({h \in E : a[h] = v})
  BY TallyParts
<1>2. /\ DOMAIN e = {b[h] : h \in F} /\ IsFiniteSet(DOMAIN e)
      /\ \A v \in DOMAIN e : e[v] = Cardinality({h \in F : b[h] = v})
  BY TallyParts
<1>3. DOMAIN c = U /\ \A z \in U : c[z] = worth(cls[z]) /\ cls[z] \in pairs
  BY <1>1, <1>2 DEF Pairing
<1>4. {c[z] : z \in U} = {worth(x) : x \in pairs}
  <2>1. \A x \in pairs : \E z \in U : cls[z] = x
    <3> TAKE x \in pairs
    <3>1. PICK h \in E, k \in F : x[1] = a[h] /\ x[2] = b[k] /\ x = <<x[1], x[2]>>
      <4>1. x[1] \in DOMAIN d /\ x[2] \in DOMAIN e /\ x = <<x[1], x[2]>>
        OBVIOUS
      <4> HIDE DEF d, e
      <4> QED
        BY <1>1, <1>2, <4>1
    <3>2. cls[<<h, k>>] = x /\ <<h, k>> \in U
      BY <3>1
    <3> QED
      BY <3>2
  <2> HIDE DEF cls, pairs, worth, U, c
  <2> QED
    BY <1>3, <2>1
<1>5. IsFiniteSet(U) /\ IsFiniteSet(pairs)
  <2> HIDE DEF d, e
  <2> QED
    BY <1>1, <1>2, FS_Product
<1>6. ASSUME NEW v
      PROVE  SumFunction([x \in alike(v) |-> d[x[1]] * e[x[2]]]) = Cardinality({z \in U : c[z] = v})
  <2> DEFINE f == [x \in alike(v) |-> d[x[1]] * e[x[2]]]
  <2>1. DOMAIN f = alike(v) /\ IsFiniteSet(alike(v))
    <3>1. alike(v) \in SUBSET pairs
      OBVIOUS
    <3> HIDE DEF pairs
    <3> QED
      BY <1>5, <3>1, FS_Subset
  <2>2. ASSUME NEW x \in alike(v) PROVE f[x] = Cardinality({z \in U : cls[z] = x})
    <3> DEFINE H == {h \in E : a[h] = x[1]}
               K == {k \in F : b[k] = x[2]}
    <3>1. x \in pairs /\ x = <<x[1], x[2]>> /\ x[1] \in DOMAIN d /\ x[2] \in DOMAIN e
      OBVIOUS
    <3>2. f[x] = Cardinality(H) * Cardinality(K)
      <4> HIDE DEF d, e
      <4> QED
        BY <1>1, <1>2, <3>1
    <3>3. IsFiniteSet(H) /\ IsFiniteSet(K)
      <4>1. H \in SUBSET E /\ K \in SUBSET F
        OBVIOUS
      <4> QED
        BY <4>1, FS_Subset
    <3>4. H \X K = {z \in U : cls[z] = x}
      <4>1. \A z \in U : cls[z] = x <=> a[z[1]] = x[1] /\ b[z[2]] = x[2]
        BY <3>1
      <4> HIDE DEF cls
      <4> QED
        BY <4>1
    <3>5. Cardinality(H \X K) = Cardinality(H) * Cardinality(K)
      <4> HIDE DEF H, K
      <4> QED
        BY <3>3, FS_Product
    <3> QED
      BY <3>2, <3>4, <3>5
  <2> HIDE DEF f
  <2>3. SumFunction(f) = Cardinality({z \in U : cls[z] \in alike(v)})
    <3> HIDE DEF alike, cls, U
    <3>1. SumFunctionOnSet(f, alike(v)) = Cardinality({z \in U : cls[z] \in alike(v)})
      BY <1>5, <2>1, <2>2, SumCounts
    <3> QED
      BY <2>1, <3>1 DEF SumFunction
  <2>4. {z \in U : cls[z] \in alike(v)} = {z \in U : c[z] = v}
    <3> HIDE DEF cls, worth, pairs, U, c
    <3> QED
      BY <1>3
  <2> QED
    BY <2>3, <2>4 DEF f
<1>7. Crossed(d, e, m, n) = [v \in {worth(x) : x \in pairs} |->
                                SumFunction([x \in alike(v) |-> d[x[1]] * e[x[2]]])]
  BY DEF Crossed
<1>8. Tally(c) = [v \in {c[z] : z \in U} |-> Cardinality({z \in U : c[z] = v})]
  BY <1>3 DEF Tally
<1> DEFINE s(v) == SumFunction([x \in alike(v) |-> d[x[1]] * e[x[2]]])
           t(v) == Cardinality({z \in U : c[z] = v})
           V == {worth(x) : x \in pairs}
<1>9. Crossed(d, e, m, n) = [v \in V |-> s(v)]
  BY <1>7
<1>10. Tally(c) = [v \in V |-> t(v)]
  <2> HIDE DEF d, e, pairs, worth, alike, c, U
  <2> QED
    BY <1>4, <1>8
<1>11. \A v : s(v) = t(v)
  BY <1>6
<1> HIDE DEF s, t, V
<1> QED
  BY <1>9, <1>10, <1>11

----------------------------------------------------------------------------
(* Rounding up, and quantiles.                                             *)

\* What rounding up gives.
LEMMA CeilIs ==
    ASSUME NEW x \in Int, NEW p \in Nat \ {0}
    PROVE  /\ CeilRatio(x, p) \in Int
           /\ \A a \in Int : CeilRatio(x, p) <= a <=> x <= a * p
<1> DEFINE k == (-x) \div p
           c == -k
<1>1. k \in Int /\ p * k <= -x /\ -x < p * k + p
  <2>1. -x \in Int
    OBVIOUS
  <2> QED
    BY <2>1, Quotient
<1>2. CeilRatio(x, p) = c
  BY DEF CeilRatio
<1> HIDE DEF k
<1>3. ASSUME NEW a \in Int, c <= a PROVE x <= a * p
  <2>1. p * (-a) <= p * k
    BY <1>1, <1>3
  <2>2. p * (-a) = -(a * p) /\ a * p \in Int /\ p * k \in Int
    BY <1>1
  <2> QED
    BY <1>1, <2>1, <2>2
<1>4. ASSUME NEW a \in Int, x <= a * p PROVE c <= a
  <2>1. ASSUME k <= -a - 1 PROVE FALSE
    <3>1. p * k <= p * (-a - 1)
      BY <1>1, <2>1
    <3>2. p * (-a - 1) = -(a * p) - p /\ a * p \in Int /\ p * k \in Int
      BY <1>1
    <3> QED
      BY <1>1, <1>4, <3>1, <3>2
  <2> QED
    BY <1>1, <2>1
<1> QED
  BY <1>1, <1>2, <1>3, <1>4

\* How many are worth at most v.
Mass(val, v) == Cardinality({h \in DOMAIN val : val[h] <= v})

\* Every value an enumeration takes adds to its mass.
LEMMA Masses ==
    ASSUME NEW F, IsFiniteSet(F), NEW val \in [F -> Int]
    PROVE  /\ Cardinality(F) \in Nat
           /\ \A v \in Int : Mass(val, v) \in Nat
           /\ \A h \in F : Mass(val, val[h] - 1) < Mass(val, val[h])
<1>1. \A v : {h \in F : val[h] <= v} \in SUBSET F
  OBVIOUS
<1>2. \A v : IsFiniteSet({h \in F : val[h] <= v})
  BY <1>1, FS_Subset
<1>3. \A v : Mass(val, v) \in Nat
  BY <1>2, FS_CardinalityType DEF Mass
<1>4. ASSUME NEW h \in F PROVE Mass(val, val[h] - 1) < Mass(val, val[h])
  <2> DEFINE A == {k \in F : val[k] <= val[h] - 1}
             B == {k \in F : val[k] <= val[h]}
  <2>1. h \in B /\ h \notin A
    OBVIOUS
  <2>2. A \in SUBSET B
    OBVIOUS
  <2>3. Cardinality(A) = Mass(val, val[h] - 1) /\ Cardinality(B) = Mass(val, val[h])
    BY DEF Mass
  <2>4. IsFiniteSet(B)
    BY <1>2
  <2> HIDE DEF A, B
  <2>5. Cardinality(A) <= Cardinality(B) /\ Cardinality(A) # Cardinality(B)
    BY <2>1, <2>2, <2>4, FS_Subset
  <2> QED
    BY <1>3, <2>3, <2>5
<1> QED
  BY <1>3, <1>4, FS_CardinalityType

\* v is the least value met with q parts of SCALE of all that are met up to it.
IsQuantile(val, v, q) ==
    /\ v \in Int
    /\ Mass(val, v - 1) < Mass(val, v)
    /\ Mass(val, v) * SCALE >= q * Cardinality(DOMAIN val)
    /\ Mass(val, v - 1) = 0 \/ Mass(val, v - 1) * SCALE < q * Cardinality(DOMAIN val)

\* _distribution_quantile of a tally is a quantile of what it tallies.
LEMMA QuantileIs ==
    ASSUME NEW F, IsFiniteSet(F), F # {}, NEW val \in [F -> Int], NEW q \in 0..SCALE
    PROVE  IsQuantile(val, DistributionQuantile(Tally(val), Cardinality(F), q), q)
<1> DEFINE d == Tally(val)
           D == DOMAIN d
           n == Cardinality(F)
           c == CeilRatio(q * n, SCALE)
           rank == Max({1, c})
           below(v) == {u \in D : u <= v}
           reached == {v \in D : SumFunctionOnSet(d, below(v)) >= rank}
<1>0. SCALE \in Nat \ {0} /\ q \in Nat /\ q <= SCALE
  BY StatisticsConstants
<1>1. DOMAIN val = F /\ D = {val[h] : h \in F} /\ IsFiniteSet(D) /\ D \in SUBSET Int /\ D # {}
  <2>1. F = DOMAIN val /\ IsFiniteSet(DOMAIN val)
    OBVIOUS
  <2>2. D = {val[h] : h \in F} /\ IsFiniteSet(D)
    BY <2>1, TallyParts
  <2> QED
    BY <2>1, <2>2
<1>2. n \in Nat \ {0}
  BY FS_CardinalityType, FS_EmptySet
<1>3. ASSUME NEW v \in Int
      PROVE  SumFunctionOnSet(d, below(v)) = Mass(val, v)
  <2>1. below(v) \in SUBSET D
    OBVIOUS
  <2> HIDE DEF below
  <2>2. SumFunctionOnSet(d, below(v)) = Cardinality({h \in F : val[h] \in below(v)})
    <3>1. DOMAIN val = F /\ IsFiniteSet(DOMAIN val)
      OBVIOUS
    <3>2. SumFunctionOnSet(d, below(v)) = Cardinality({h \in DOMAIN val : val[h] \in below(v)})
      BY <3>1, <2>1, TallySums
    <3> QED
      BY <3>1, <3>2
  <2>3. {h \in F : val[h] \in below(v)} = {h \in F : val[h] <= v}
    BY <1>1 DEF below
  <2> QED
    BY <1>1, <2>2, <2>3 DEF Mass
<1> HIDE DEF d, n
<1>4. /\ c \in Int /\ \A a \in Int : c <= a <=> q * n <= a * SCALE
      /\ c <= n
  <2>1. q * n \in Int
    BY <1>0, <1>2
  <2>2. c \in Int /\ \A a \in Int : c <= a <=> q * n <= a * SCALE
    BY <1>0, <2>1, CeilIs
  <2>3. q * n <= SCALE * n /\ SCALE * n = n * SCALE
    BY <1>0, <1>2
  <2> HIDE DEF c
  <2> QED
    BY <1>2, <2>2, <2>3
<1> HIDE DEF c
<1>5. rank \in {1, c} /\ rank >= 1 /\ rank >= c /\ rank <= n /\ rank \in Int
  <2>1. IsFiniteSet({1, c})
    <3>1. IsFiniteSet({c})
      BY FS_Singleton
    <3>2. IsFiniteSet({c} \cup {1}) /\ {c} \cup {1} = {1, c}
      BY <3>1, FS_AddElement
    <3> QED
      BY <3>2
  <2>2. {1, c} \in SUBSET Int /\ {1, c} # {}
    BY <1>4
  <2>3. Max({1, c}) \in {1, c} /\ \A y \in {1, c} : Max({1, c}) >= y
    BY <2>1, <2>2, MinIs
  <2> QED
    BY <2>3, <1>2, <1>4
<1>6. \A v \in D : Mass(val, v) \in Nat /\ Mass(val, v - 1) \in Nat
  BY <1>1, Masses
<1> HIDE DEF rank, D
<1>7. reached = {v \in D : Mass(val, v) >= rank}
  <2> HIDE DEF below
  <2> QED
    BY <1>1, <1>3
<1>8. reached \in SUBSET Int /\ IsFiniteSet(reached)
  <2>1. reached \in SUBSET D
    OBVIOUS
  <2> HIDE DEF reached
  <2> QED
    BY <1>1, <2>1, FS_Subset
<1>9. reached # {}
  <2>1. PICK x \in D : \A z \in D : x >= z
    BY <1>1, Extremes
  <2>2. {h \in F : val[h] <= x} = F
    <3>1. \A h \in F : val[h] \in D
      BY <1>1
    <3> QED
      BY <1>1, <2>1, <3>1
  <2>3. Mass(val, x) = n
    BY <1>1, <2>2 DEF Mass, n
  <2> QED
    BY <1>5, <1>7, <2>1, <2>3
<1>10. DistributionQuantile(d, n, q) = Min(reached)
  <2>1. DistributionQuantile(d, n, q) = IF reached = {} THEN Max(D) ELSE Min(reached)
    BY DEF DistributionQuantile, rank, c, D
  <2> QED
    BY <1>9, <2>1
<1> DEFINE v == Min(reached)
<1> HIDE DEF reached
<1>11. v \in reached /\ \A y \in reached : v <= y
  BY <1>8, <1>9, MinIs
<1> HIDE DEF v
<1>12. v \in D /\ v \in Int /\ Mass(val, v) >= rank /\ Mass(val, v) \in Nat /\ Mass(val, v - 1) \in Nat
  BY <1>1, <1>6, <1>7, <1>11
<1>13. Mass(val, v - 1) < Mass(val, v)
  <2>1. PICK h \in F : v = val[h]
    BY <1>1, <1>12
  <2> QED
    BY <2>1, Masses
<1>14. Mass(val, v) * SCALE >= q * n
  <2>1. c <= Mass(val, v)
    BY <1>4, <1>5, <1>12
  <2>2. q * n <= Mass(val, v) * SCALE
    BY <1>4, <1>12, <2>1
  <2> QED
    BY <2>2, <1>12, <1>0, <1>2
<1>15. Mass(val, v - 1) = 0 \/ Mass(val, v - 1) * SCALE < q * n
  <2> DEFINE B == {u \in D : u <= v - 1}
  <2>1. CASE B = {}
    <3>1. {h \in F : val[h] <= v - 1} = {}
      <4>1. \A h \in F : val[h] \in D
        BY <1>1
      <4> QED
        BY <4>1, <2>1
    <3> QED
      BY <1>1, <3>1, FS_EmptySet DEF Mass
  <2>2. CASE B # {}
    <3>1. B \in SUBSET D /\ B \in SUBSET Int
      BY <1>1
    <3>2. IsFiniteSet(B)
      BY <1>1, <3>1, FS_Subset
    <3>3. PICK w \in B : \A u \in B : w >= u
      BY <2>2, <3>1, <3>2, Extremes
    <3>4. w \in D /\ w \in Int /\ w <= v - 1
      BY <3>1, <3>3
    <3>5. \A h \in F : val[h] <= v - 1 <=> val[h] <= w
      <4>1. \A h \in F : val[h] \in D
        BY <1>1
      <4> QED
        BY <1>1, <1>12, <3>3, <3>4, <4>1
    <3>6. Mass(val, v - 1) = Mass(val, w)
      BY <1>1, <3>5 DEF Mass
    <3>7. w \notin reached
      BY <1>11, <1>12, <3>4
    <3>8. Mass(val, v - 1) < rank
      BY <1>5, <1>6, <1>7, <3>4, <3>6, <3>7
    <3>9. CASE rank = 1
      BY <1>12, <3>8, <3>9
    <3>10. CASE rank = c
      <4>1. ~(q * n <= Mass(val, v - 1) * SCALE)
        BY <1>4, <1>12, <3>8, <3>10
      <4>2. q * n \in Int /\ Mass(val, v - 1) * SCALE \in Int
        BY <1>0, <1>2, <1>12
      <4> QED
        BY <4>1, <4>2
    <3> QED
      BY <1>5, <3>9, <3>10
  <2> QED
    BY <2>1, <2>2
<1> QED
  BY <1>1, <1>10, <1>12, <1>13, <1>14, <1>15 DEF IsQuantile, n, v, d

----------------------------------------------------------------------------
(* Differences, session by session.                                        *)

\* Hits among the sessions A, and the difference they make.
HitsIn(A, y, p, o) == Cardinality({i \in A : y[i] = o /\ p[i] = o})

Weight(y, i) == Cardinality(Of(y, 1 - y[i]))

DeltaIn(A, y, p, q) ==
    Cardinality(Of(y, 0)) * (HitsIn(A, y, p, 1) - HitsIn(A, y, q, 1))
        + Cardinality(Of(y, 1)) * (HitsIn(A, y, p, 0) - HitsIn(A, y, q, 0))

\* Labels of both classes, and the weights of their sessions.
LEMMA Sessions ==
    ASSUME NEW y \in Labels
    PROVE  /\ Len(y) \in Nat /\ DOMAIN y = 1..Len(y) /\ IsFiniteSet(DOMAIN y)
           /\ \A i \in DOMAIN y : y[i] \in {0, 1}
           /\ \A A \in SUBSET DOMAIN y : IsFiniteSet(A)
           /\ Cardinality(Of(y, 0)) \in Nat \ {0} /\ Cardinality(Of(y, 1)) \in Nat \ {0}
           /\ \A i \in DOMAIN y : Weight(y, i) \in Nat \ {0}
<1>1. y \in Seq({0, 1})
  BY DEF Labels
<1>2. Len(y) \in Nat /\ DOMAIN y = 1..Len(y) /\ \A i \in DOMAIN y : y[i] \in {0, 1}
  BY <1>1
<1>3. IsFiniteSet(DOMAIN y)
  BY <1>2, Indices
<1>4. Cardinality(Of(y, 0)) \in Nat \ {0} /\ Cardinality(Of(y, 1)) \in Nat \ {0}
  BY Classes
<1>5. ASSUME NEW i \in DOMAIN y PROVE Weight(y, i) \in Nat \ {0}
  <2>1. 1 - y[i] \in {0, 1}
    BY <1>2
  <2> QED
    BY <1>4, <2>1 DEF Weight
<1> QED
  BY <1>2, <1>3, <1>4, <1>5, FS_Subset

LEMMA HitsInNat ==
    ASSUME NEW A, IsFiniteSet(A), NEW y, NEW p, NEW o
    PROVE  HitsIn(A, y, p, o) \in Nat
<1>1. {i \in A : y[i] = o /\ p[i] = o} \in SUBSET A
  OBVIOUS
<1> QED
  BY <1>1, FS_Subset, FS_CardinalityType DEF HitsIn

\* One more session.
LEMMA HitsInStep ==
    ASSUME NEW A, IsFiniteSet(A), NEW i, i \notin A, NEW y, NEW p, NEW o
    PROVE  HitsIn(A \cup {i}, y, p, o)
              = HitsIn(A, y, p, o) + (IF y[i] = o /\ p[i] = o THEN 1 ELSE 0)
<1> DEFINE H(B) == {j \in B : y[j] = o /\ p[j] = o}
<1>1. H(A) \in SUBSET A
  OBVIOUS
<1>2. IsFiniteSet(H(A)) /\ Cardinality(H(A)) \in Nat
  BY <1>1, FS_Subset, FS_CardinalityType
<1>3. H(A \cup {i}) = IF y[i] = o /\ p[i] = o THEN H(A) \cup {i} ELSE H(A)
  OBVIOUS
<1>4. i \notin H(A)
  OBVIOUS
<1> HIDE DEF H
<1>5. Cardinality(H(A) \cup {i}) = Cardinality(H(A)) + 1
  BY <1>2, <1>4, FS_AddElement
<1>6. Cardinality(H(A \cup {i}))
         = Cardinality(H(A)) + (IF y[i] = o /\ p[i] = o THEN 1 ELSE 0)
  BY <1>2, <1>3, <1>5
<1> QED
  BY <1>6 DEF H, HitsIn

\* One more session: its weight, if one of the two predictors is right and the other is not.
LEMMA DeltaInStep ==
    ASSUME NEW y \in Labels, NEW A \in SUBSET DOMAIN y, NEW i \in DOMAIN y, i \notin A,
           NEW p, NEW q
    PROVE  /\ DeltaIn(A, y, p, q) \in Int
           /\ DeltaIn(A \cup {i}, y, p, q)
                = DeltaIn(A, y, p, q) + Weight(y, i) * (Correct(y, p, i) - Correct(y, q, i))
<1> DEFINE P == Cardinality(Of(y, 1))
           N == Cardinality(Of(y, 0))
           p1 == HitsIn(A, y, p, 1)
           q1 == HitsIn(A, y, q, 1)
           p0 == HitsIn(A, y, p, 0)
           q0 == HitsIn(A, y, q, 0)
           c == Correct(y, p, i)
           d == Correct(y, q, i)
<1>1. P \in Nat /\ N \in Nat /\ IsFiniteSet(A) /\ y[i] \in {0, 1}
  BY Sessions
<1>2. p1 \in Nat /\ q1 \in Nat /\ p0 \in Nat /\ q0 \in Nat
  BY <1>1, HitsInNat
<1>3. c \in {0, 1} /\ d \in {0, 1}
  BY DEF Correct
<1>4. \A o \in {0, 1} :
         /\ HitsIn(A \cup {i}, y, p, o) = HitsIn(A, y, p, o) + (IF y[i] = o THEN c ELSE 0)
         /\ HitsIn(A \cup {i}, y, q, o) = HitsIn(A, y, q, o) + (IF y[i] = o THEN d ELSE 0)
  <2> TAKE o \in {0, 1}
  <2>1. /\ HitsIn(A \cup {i}, y, p, o)
              = HitsIn(A, y, p, o) + (IF y[i] = o /\ p[i] = o THEN 1 ELSE 0)
        /\ HitsIn(A \cup {i}, y, q, o)
              = HitsIn(A, y, q, o) + (IF y[i] = o /\ q[i] = o THEN 1 ELSE 0)
    BY <1>1, HitsInStep
  <2>2. /\ (IF y[i] = o /\ p[i] = o THEN 1 ELSE 0) = (IF y[i] = o THEN c ELSE 0)
        /\ (IF y[i] = o /\ q[i] = o THEN 1 ELSE 0) = (IF y[i] = o THEN d ELSE 0)
    BY DEF Correct
  <2> HIDE DEF c, d
  <2> QED
    BY <2>1, <2>2
<1>5. DeltaIn(A, y, p, q) = N * (p1 - q1) + P * (p0 - q0)
  BY DEF DeltaIn
<1> HIDE DEF c, d
<1>6. CASE y[i] = 1
  <2>1. Weight(y, i) = N
    BY <1>6 DEF Weight
  <2>2. DeltaIn(A \cup {i}, y, p, q) = N * ((p1 + c) - (q1 + d)) + P * ((p0 + 0) - (q0 + 0))
    BY <1>4, <1>6 DEF DeltaIn
  <2> HIDE DEF P, N, p1, q1, p0, q0
  <2>3. N * ((p1 + c) - (q1 + d)) = N * (p1 - q1) + N * (c - d)
    BY <1>1, <1>2, <1>3
  <2>4. (p0 + 0) - (q0 + 0) = p0 - q0
    BY <1>2
  <2>5. N * (p1 - q1) \in Int /\ N * (c - d) \in Int /\ P * (p0 - q0) \in Int
    BY <1>1, <1>2, <1>3
  <2>6. DeltaIn(A \cup {i}, y, p, q) = (N * (p1 - q1) + N * (c - d)) + P * (p0 - q0)
    BY ONLY <2>2, <2>3, <2>4
  <2>7. Weight(y, i) * (c - d) = N * (c - d)
    BY <2>1
  <2> QED
    BY ONLY <1>5, <2>5, <2>6, <2>7 DEF c, d
<1>7. CASE y[i] = 0
  <2>1. Weight(y, i) = P
    BY <1>7 DEF Weight
  <2>2. DeltaIn(A \cup {i}, y, p, q) = N * ((p1 + 0) - (q1 + 0)) + P * ((p0 + c) - (q0 + d))
    BY <1>4, <1>7 DEF DeltaIn
  <2> HIDE DEF P, N, p1, q1, p0, q0
  <2>3. P * ((p0 + c) - (q0 + d)) = P * (p0 - q0) + P * (c - d)
    BY <1>1, <1>2, <1>3
  <2>4. (p1 + 0) - (q1 + 0) = p1 - q1
    BY <1>2
  <2>5. N * (p1 - q1) \in Int /\ P * (c - d) \in Int /\ P * (p0 - q0) \in Int
    BY <1>1, <1>2, <1>3
  <2>6. DeltaIn(A \cup {i}, y, p, q) = N * (p1 - q1) + (P * (p0 - q0) + P * (c - d))
    BY ONLY <2>2, <2>3, <2>4
  <2>7. Weight(y, i) * (c - d) = P * (c - d)
    BY <2>1
  <2> QED
    BY ONLY <1>5, <2>5, <2>6, <2>7 DEF c, d
<1> QED
  BY <1>1, <1>6, <1>7

\* All sessions make the whole difference.
LEMMA DeltaInAll ==
    ASSUME NEW y \in Labels, NEW p, NEW q
    PROVE  /\ DeltaIn(DOMAIN y, y, p, q) = Delta(y, p, q)
           /\ DeltaIn({}, y, p, q) = 0
           /\ \A A \in SUBSET DOMAIN y : DeltaIn(A, y, p, q) \in Int
<1>1. \A r, o : {i \in DOMAIN y : y[i] = o /\ r[i] = o} = {i \in Of(y, o) : r[i] = o}
  BY DEF Of
<1>2. \A r, o : HitsIn(DOMAIN y, y, r, o) = Hits(y, r, o)
  BY <1>1 DEF HitsIn, Hits
<1>3. \A r, o : HitsIn({}, y, r, o) = 0
  <2> TAKE r, o
  <2>1. {i \in {} : y[i] = o /\ r[i] = o} = {}
    OBVIOUS
  <2> QED
    BY <2>1, FS_EmptySet DEF HitsIn
<1>4. Cardinality(Of(y, 0)) \in Nat /\ Cardinality(Of(y, 1)) \in Nat
  BY Sessions
<1>5. DeltaIn({}, y, p, q) = 0
  BY <1>3, <1>4 DEF DeltaIn
<1>6. ASSUME NEW A \in SUBSET DOMAIN y PROVE DeltaIn(A, y, p, q) \in Int
  <2>1. IsFiniteSet(A)
    BY Sessions
  <2>2. \A r, o : HitsIn(A, y, r, o) \in Nat
    BY <2>1, HitsInNat
  <2> QED
    BY <1>4, <2>2 DEF DeltaIn
<1> QED
  BY <1>2, <1>5, <1>6 DEF DeltaIn, Delta

\* The weighted differences of the sessions add up to the difference of the counts.
LEMMA DeltaIs ==
    ASSUME NEW y \in Labels, NEW p, NEW q
    PROVE  DeltaNumerator(y, p, q) = Delta(y, p, q)
<1> DEFINE f == [i \in DOMAIN y |-> Weight(y, i) * (Correct(y, p, i) - Correct(y, q, i))]
           G == [A \in SUBSET DOMAIN y |-> DeltaIn(A, y, p, q)]
<1>1. DeltaNumerator(y, p, q) = SumFunctionOnSet(f, DOMAIN y)
  BY DEF DeltaNumerator, SumFunction, Weight
<1>2. ASSUME NEW A \in SUBSET DOMAIN y, NEW i \in A
      PROVE  DeltaIn(A, y, p, q) = f[i] + DeltaIn(A \ {i}, y, p, q)
  <2> DEFINE w == Weight(y, i) * (Correct(y, p, i) - Correct(y, q, i))
  <2>1. f[i] = w /\ w \in Int
    <3>1. Weight(y, i) \in Nat /\ i \in DOMAIN y
      BY Sessions
    <3>2. Correct(y, p, i) \in {0, 1} /\ Correct(y, q, i) \in {0, 1}
      BY DEF Correct
    <3> QED
      BY <3>1, <3>2
  <2> DEFINE B == A \ {i}
  <2>2. B \cup {i} = A /\ B \in SUBSET DOMAIN y /\ i \in DOMAIN y /\ i \notin B
    OBVIOUS
  <2> HIDE DEF B
  <2>3. /\ DeltaIn(B, y, p, q) \in Int
        /\ DeltaIn(B \cup {i}, y, p, q)
              = DeltaIn(B, y, p, q) + Weight(y, i) * (Correct(y, p, i) - Correct(y, q, i))
    BY <2>2, DeltaInStep
  <2>4. DeltaIn(A, y, p, q) = DeltaIn(B, y, p, q) + w
    BY <2>2, <2>3
  <2> HIDE DEF w, f
  <2>5. DeltaIn(A, y, p, q) = f[i] + DeltaIn(B, y, p, q)
    BY <2>1, <2>3, <2>4
  <2> QED
    BY <2>5 DEF B
<1> HIDE DEF f
<1>3. SumsOf(f, DOMAIN y, G)
  <2>1. \A A \in SUBSET DOMAIN y : \A i \in A : A \ {i} \in SUBSET DOMAIN y
    OBVIOUS
  <2> QED
    BY <1>2, <2>1, DeltaInAll DEF SumsOf
<1>4. SumFunctionOnSet(f, DOMAIN y) = G[DOMAIN y]
  <2> HIDE DEF G
  <2> QED
    BY <1>3, Sessions, SumIs
<1> QED
  BY <1>1, <1>4, DeltaInAll

----------------------------------------------------------------------------
(* The randomization test.                                                 *)

\* Predictor a, but b on the sessions S.
Exchanged(y, S, a, b) == [i \in DOMAIN y |-> IF i \in S THEN b[i] ELSE a[i]]

ExchangeDelta(A, y, S, a, b) == DeltaIn(A, y, Exchanged(y, S, a, b), Exchanged(y, S, b, a))

\* The difference one session makes.
Difference(y, i, a, b) == Weight(y, i) * (Correct(y, a, i) - Correct(y, b, i))

\* One more session: its difference, one way or the other.
LEMMA ExchangeStep ==
    ASSUME NEW y \in Labels, NEW A \in SUBSET DOMAIN y, NEW i \in DOMAIN y, i \notin A,
           NEW S, NEW a, NEW b
    PROVE  /\ Difference(y, i, a, b) \in Int /\ ExchangeDelta(A, y, S, a, b) \in Int
           /\ ExchangeDelta(A \cup {i}, y, S, a, b)
                = ExchangeDelta(A, y, S, a, b)
                     + (IF i \in S THEN -Difference(y, i, a, b) ELSE Difference(y, i, a, b))
<1> DEFINE c == Difference(y, i, a, b)
           p == Exchanged(y, S, a, b)
           q == Exchanged(y, S, b, a)
           w == Weight(y, i)
<1>1. /\ DeltaIn(A, y, p, q) \in Int
      /\ DeltaIn(A \cup {i}, y, p, q)
           = DeltaIn(A, y, p, q) + w * (Correct(y, p, i) - Correct(y, q, i))
  <2> HIDE DEF p, q
  <2> QED
    BY DeltaInStep
<1>2. Correct(y, a, i) \in {0, 1} /\ Correct(y, b, i) \in {0, 1} /\ w \in Nat
  BY Sessions DEF Correct
<1>3. CASE i \in S
  <2>1. Correct(y, p, i) = Correct(y, b, i) /\ Correct(y, q, i) = Correct(y, a, i)
    BY <1>3 DEF Correct, Exchanged
  <2>2. w * (Correct(y, p, i) - Correct(y, q, i)) = -c /\ c \in Int
    BY <1>2, <2>1 DEF Difference
  <2> QED
    BY <1>1, <1>3, <2>2 DEF ExchangeDelta
<1>4. CASE i \notin S
  <2>1. Correct(y, p, i) = Correct(y, a, i) /\ Correct(y, q, i) = Correct(y, b, i)
    BY <1>4 DEF Correct, Exchanged
  <2>2. w * (Correct(y, p, i) - Correct(y, q, i)) = c /\ c \in Int
    BY <1>2, <2>1 DEF Difference
  <2> QED
    BY <1>1, <1>4, <2>2 DEF ExchangeDelta
<1> QED
  BY <1>3, <1>4

\* Exchanging on concordant sessions makes no difference.
LEMMA ExchangeLocal ==
    ASSUME NEW y, NEW A \in SUBSET DOMAIN y, NEW S, NEW T, NEW a, NEW b,
           \A i \in A : i \in Discordant(y, a, b) => (i \in S <=> i \in T)
    PROVE  ExchangeDelta(A, y, S, a, b) = ExchangeDelta(A, y, T, a, b)
<1>1. \A i \in A : i \notin Discordant(y, a, b) => (a[i] = y[i] <=> b[i] = y[i])
  BY DEF Discordant, Correct
<1>2. \A i \in A :
         /\ Exchanged(y, S, a, b)[i] = y[i] <=> Exchanged(y, T, a, b)[i] = y[i]
         /\ Exchanged(y, S, b, a)[i] = y[i] <=> Exchanged(y, T, b, a)[i] = y[i]
  BY <1>1 DEF Exchanged
<1>3. ASSUME NEW o
      PROVE  /\ HitsIn(A, y, Exchanged(y, S, a, b), o) = HitsIn(A, y, Exchanged(y, T, a, b), o)
             /\ HitsIn(A, y, Exchanged(y, S, b, a), o) = HitsIn(A, y, Exchanged(y, T, b, a), o)
  <2>1. {i \in A : y[i] = o /\ Exchanged(y, S, a, b)[i] = o}
          = {i \in A : y[i] = o /\ Exchanged(y, T, a, b)[i] = o}
    BY <1>2
  <2>2. {i \in A : y[i] = o /\ Exchanged(y, S, b, a)[i] = o}
          = {i \in A : y[i] = o /\ Exchanged(y, T, b, a)[i] = o}
    BY <1>2
  <2> QED
    BY <2>1, <2>2 DEF HitsIn
<1> QED
  BY <1>3 DEF ExchangeDelta, DeltaIn

\* The differences of all exchanges on discordant sessions up to k.
DiscordantTo(y, a, b, k) == {i \in Discordant(y, a, b) : i <= k}

Walk(y, a, b, k) ==
    [S \in SUBSET DiscordantTo(y, a, b, k) |-> ExchangeDelta(1..k, y, S, a, b)]

LEMMA WalkFinite ==
    ASSUME NEW y \in Labels, NEW a, NEW b, NEW k
    PROVE  /\ DiscordantTo(y, a, b, k) \in SUBSET DOMAIN y
           /\ IsFiniteSet(DOMAIN Walk(y, a, b, k))
<1>1. DiscordantTo(y, a, b, k) \in SUBSET DOMAIN y
  BY DEF DiscordantTo, Discordant
<1>2. IsFiniteSet(DiscordantTo(y, a, b, k))
  BY <1>1, Sessions
<1> QED
  BY <1>1, <1>2, FS_SUBSET DEF Walk

\* Before the first session there is one way, and no difference.
LEMMA WalkStart ==
    ASSUME NEW y \in Labels, NEW a, NEW b
    PROVE  Tally(Walk(y, a, b, 0)) = Unit
<1>1. DiscordantTo(y, a, b, 0) = {} /\ 1..0 = {}
  BY Sessions DEF DiscordantTo, Discordant
<1>2. DOMAIN Walk(y, a, b, 0) = {{}} /\ Walk(y, a, b, 0)[{}] = 0
  BY <1>1, DeltaInAll DEF Walk, ExchangeDelta
<1>3. {h \in {{}} : Walk(y, a, b, 0)[h] = 0} = {{}}
  BY <1>2
<1>4. {Walk(y, a, b, 0)[h] : h \in {{}}} = {0}
  BY <1>2
<1>5. Cardinality({{}}) = 1
  BY FS_Singleton
<1> QED
  BY <1>2, <1>3, <1>4, <1>5 DEF Tally, Unit

\* A session both predictors get right or wrong changes nothing.
LEMMA WalkConcordant ==
    ASSUME NEW y \in Labels, NEW a, NEW b, NEW k \in Nat, k < Len(y),
           k + 1 \notin Discordant(y, a, b)
    PROVE  Walk(y, a, b, k + 1) = Walk(y, a, b, k)
<1> DEFINE i == k + 1
<1>1. /\ 1..i = (1..k) \cup {i} /\ i \notin 1..k
      /\ 1..k \in SUBSET DOMAIN y /\ i \in DOMAIN y
  BY Sessions
<1>2. DiscordantTo(y, a, b, i) = DiscordantTo(y, a, b, k)
  <2>1. \A j \in Discordant(y, a, b) : j \in Nat
    BY Sessions DEF Discordant
  <2>2. \A j \in Discordant(y, a, b) : j # i
    OBVIOUS
  <2>3. \A j \in Discordant(y, a, b) : j <= i <=> j <= k
    BY <2>1, <2>2
  <2> QED
    BY <2>3 DEF DiscordantTo
<1>3. ASSUME NEW S PROVE ExchangeDelta(1..i, y, S, a, b) = ExchangeDelta(1..k, y, S, a, b)
  <2> DEFINE c == Difference(y, i, a, b)
             A == 1..k
  <2>1. c = 0
    <3>1. Correct(y, a, i) = Correct(y, b, i) /\ Correct(y, a, i) \in {0, 1}
      BY <1>1 DEF Discordant, Correct
    <3>2. Weight(y, i) \in Nat
      BY <1>1, Sessions
    <3> QED
      BY <3>1, <3>2 DEF Difference
  <2>2. A \in SUBSET DOMAIN y /\ i \in DOMAIN y /\ i \notin A
    BY <1>1
  <2> HIDE DEF i, A
  <2>4. /\ ExchangeDelta(A, y, S, a, b) \in Int
        /\ ExchangeDelta(A \cup {i}, y, S, a, b)
             = ExchangeDelta(A, y, S, a, b) + (IF i \in S THEN -c ELSE c)
    BY <2>2, ExchangeStep
  <2>3. ExchangeDelta(A \cup {i}, y, S, a, b) = ExchangeDelta(A, y, S, a, b)
    BY <2>1, <2>4
  <2> QED
    BY <1>1, <2>3 DEF A
<1> QED
  BY <1>2, <1>3 DEF Walk

\* A discordant one counts either way: its step of the test is one of the enumeration.
LEMMA WalkDiscordant ==
    ASSUME NEW y \in Labels, NEW a, NEW b, NEW k \in Nat, k < Len(y),
           k + 1 \in Discordant(y, a, b),
           NEW w, w = Weight(y, k + 1)
    PROVE  Convolve(Tally(Walk(y, a, b, k)), [v \in {w, -w} |-> 1]) = Tally(Walk(y, a, b, k + 1))
<1> DEFINE i == k + 1
           c == Difference(y, i, a, b)
           D == DiscordantTo(y, a, b, k)
           E == DiscordantTo(y, a, b, i)
           way == [v \in {w, -w} |-> v]
           val == Pairing(Walk(y, a, b, k), way, 1, 1)
           mine == Walk(y, a, b, i)
           F == (SUBSET D) \X {w, -w}
           g == [S \in SUBSET E |-> <<S \ {i}, IF i \in S THEN -c ELSE c>>]
<1>1. /\ 1..i = (1..k) \cup {i} /\ i \notin 1..k
      /\ 1..k \in SUBSET DOMAIN y /\ i \in DOMAIN y
  BY Sessions
<1>2. E = D \cup {i} /\ i \notin D
  <2>1. \A j \in Discordant(y, a, b) : j \in Nat
    BY Sessions DEF Discordant
  <2>2. \A j \in Discordant(y, a, b) : j <= i <=> j <= k \/ j = i
    BY <2>1
  <2> QED
    BY <2>2 DEF DiscordantTo
<1>3. w \in Nat \ {0} /\ c \in Int /\ {w, -w} = {c, -c} /\ c # -c
  <2>1. w \in Nat \ {0}
    BY <1>1, Sessions
  <2>2. Correct(y, a, i) # Correct(y, b, i) /\ Correct(y, a, i) \in {0, 1} /\ Correct(y, b, i) \in {0, 1}
    BY DEF Discordant, Correct
  <2>3. c = w \/ c = -w
    BY <2>1, <2>2 DEF Difference
  <2> HIDE DEF c
  <2> QED
    BY <2>1, <2>3
<1>4. Tally(way) = [v \in {w, -w} |-> 1]
  <2>1. DOMAIN way = {w, -w} /\ \A v \in {w, -w} : way[v] = v
    OBVIOUS
  <2> HIDE DEF way
  <2>2. {way[h] : h \in DOMAIN way} = {w, -w}
    BY <2>1
  <2>3. \A v \in {w, -w} : {h \in DOMAIN way : way[h] = v} = {v}
    BY <2>1
  <2>4. \A v \in {w, -w} : Cardinality({h \in DOMAIN way : way[h] = v}) = 1
    BY <2>3, FS_Singleton
  <2> QED
    BY <2>2, <2>4 DEF Tally
<1>5. IsFiniteSet(DOMAIN Walk(y, a, b, k)) /\ IsFiniteSet({w, -w})
  <2>1. IsFiniteSet({w} \cup {-w}) /\ {w} \cup {-w} = {w, -w}
    BY FS_Singleton, FS_AddElement
  <2> QED
    BY <2>1, WalkFinite
<1>6. DOMAIN Walk(y, a, b, k) = SUBSET D /\ DOMAIN way = {w, -w} /\ DOMAIN mine = SUBSET E
  BY DEF Walk
<1>7. Convolve(Tally(Walk(y, a, b, k)), Tally(way)) = Tally(val)
  <2> HIDE DEF way
  <2> QED
    BY <1>5, <1>6, CrossedTallies DEF Convolve
<1>8. DOMAIN val = F /\ IsFiniteSet(F)
  <2> HIDE DEF way, D
  <2> QED
    BY <1>5, <1>6, FS_Product DEF Pairing
<1>9. g \in Bijection(SUBSET E, F)
  <2> HIDE DEF c, D, E, i
  <2>1. \A S \in SUBSET E : S \ {i} \in SUBSET D
    BY <1>2
  <2>2. g \in [SUBSET E -> F]
    BY <1>3, <2>1
  <2>3. \A S, T \in SUBSET E : g[S] = g[T] => S = T
    <3> TAKE S, T \in SUBSET E
    <3> HAVE g[S] = g[T]
    <3>1. S \ {i} = T \ {i} /\ (i \in S <=> i \in T)
      BY <1>3
    <3>2. \A j : j \in S <=> j \in T
      BY <3>1
    <3> QED
      BY <3>2
  <2>4. \A x \in F : \E S \in SUBSET E : g[S] = x
    <3> TAKE x \in F
    <3>1. x = <<x[1], x[2]>> /\ x[1] \in SUBSET D /\ x[2] \in {c, -c}
      BY <1>3
    <3>2. CASE x[2] = c
      <4>1. x[1] \in SUBSET E /\ x[1] \ {i} = x[1] /\ i \notin x[1]
        BY <1>2, <3>1
      <4> QED
        BY <3>1, <3>2, <4>1
    <3>3. CASE x[2] = -c
      <4>1. x[1] \cup {i} \in SUBSET E /\ (x[1] \cup {i}) \ {i} = x[1] /\ i \in x[1] \cup {i}
        BY <1>2, <3>1
      <4> QED
        BY <3>1, <3>3, <4>1
    <3> QED
      BY <3>1, <3>2, <3>3
  <2> HIDE DEF g, F
  <2> QED
    BY <2>2, <2>3, <2>4 DEF Bijection, Injection, Surjection, IsInjective
<1>10. ASSUME NEW S \in SUBSET E PROVE mine[S] = val[g[S]]
  <2> DEFINE A == 1..k
             e == IF i \in S THEN -c ELSE c
  <2>1. ExchangeDelta(A, y, S, a, b) = ExchangeDelta(A, y, S \ {i}, a, b)
    <3>1. \A j \in A : j \in S <=> j \in S \ {i}
      BY <1>1
    <3> QED
      BY <1>1, <3>1, ExchangeLocal
  <2>2. /\ ExchangeDelta(A, y, S, a, b) \in Int
        /\ ExchangeDelta(A \cup {i}, y, S, a, b) = ExchangeDelta(A, y, S, a, b) + e
    <3>1. A \in SUBSET DOMAIN y /\ i \in DOMAIN y /\ i \notin A
      BY <1>1
    <3> HIDE DEF i, A, D, E, val, mine, way, F, g
    <3>2. /\ ExchangeDelta(A, y, S, a, b) \in Int
          /\ ExchangeDelta(A \cup {i}, y, S, a, b)
               = ExchangeDelta(A, y, S, a, b)
                    + (IF i \in S THEN -Difference(y, i, a, b) ELSE Difference(y, i, a, b))
      BY ONLY <3>1, y \in Labels, ExchangeStep
    <3> QED
      BY <3>2
  <2>3. mine[S] = ExchangeDelta(A, y, S \ {i}, a, b) + e
    BY <1>1, <2>1, <2>2 DEF Walk
  <2>4. g[S] = <<S \ {i}, e>> /\ S \ {i} \in SUBSET D /\ e \in {w, -w} /\ g[S] \in F
    <3> HIDE DEF c, D, E, i
    <3> QED
      BY <1>2, <1>3
  <2>5. val[g[S]] = 1 * ExchangeDelta(A, y, S \ {i}, a, b) + 1 * e
    <3>1. \A z \in F : val[z] = 1 * Walk(y, a, b, k)[z[1]] + 1 * way[z[2]]
      BY <1>6 DEF Pairing
    <3>2. \A T \in SUBSET D : Walk(y, a, b, k)[T] = ExchangeDelta(A, y, T, a, b)
      BY DEF Walk
    <3>3. \A v \in {w, -w} : way[v] = v
      OBVIOUS
    <3> HIDE DEF g, e, val, F, way
    <3>4. val[g[S]] = 1 * Walk(y, a, b, k)[S \ {i}] + 1 * way[e]
      BY <2>4, <3>1
    <3> QED
      BY <2>4, <3>2, <3>3, <3>4
  <2>6. e \in Int
    <3> HIDE DEF c
    <3> QED
      BY <1>3
  <2> HIDE DEF e
  <2> QED
    BY <2>1, <2>2, <2>3, <2>5, <2>6
<1>11. Tally(mine) = Tally(val)
  <2> HIDE DEF mine, val, g, E, F
  <2> QED
    BY <1>6, <1>8, <1>9, <1>10, TallyMatched
<1> QED
  BY <1>4, <1>7, <1>11

----------------------------------------------------------------------------
(* All exchanges, from those of the discordant sessions.                   *)

\* extreme of total, as many times over as there are ways to exchange concordant sessions,
\* are the exchanges at least as good as what was seen, of all exchanges.
CountsExchanges(y, a, b, extreme, total) ==
    /\ extreme \in Nat /\ total \in Nat \ {0}
    /\ \E r \in Nat \ {0} : Exchanges(y, a, b) = extreme * r /\ 2^Len(y) = total * r

\* The extreme part of what the test ends with counts the exchanges.
LEMMA WalkEnd ==
    ASSUME NEW y \in Labels, NEW a, NEW b
    PROVE  CountsExchanges(y, a, b,
               Extreme(Tally(Walk(y, a, b, Len(y))), Delta(y, a, b)),
               2^Cardinality(Discordant(y, a, b)))
<1> DEFINE n == Len(y)
           T == DOMAIN y
           D == Discordant(y, a, b)
           R == T \ D
           walk == Walk(y, a, b, n)
           seen == Delta(y, a, b)
           X == {S \in SUBSET D : ExchangeDelta(T, y, S, a, b) >= seen}
           F == (SUBSET D) \X (SUBSET R)
           g == [S \in SUBSET T |-> <<S \cap D, S \ D>>]
<1>1. n \in Nat /\ T = 1..n /\ IsFiniteSet(T) /\ Cardinality(T) = n /\ D \in SUBSET T
  BY Sessions, Indices DEF Discordant
<1>2. IsFiniteSet(D) /\ IsFiniteSet(R)
  <2>1. R \in SUBSET T
    OBVIOUS
  <2> HIDE DEF R, D, T
  <2> QED
    BY <1>1, <2>1, FS_Subset
<1>3. /\ IsFiniteSet(SUBSET D) /\ Cardinality(SUBSET D) = 2^Cardinality(D)
      /\ IsFiniteSet(SUBSET R)
      /\ Cardinality(SUBSET T) = 2^n
  <2> HIDE DEF D, R
  <2> QED
    BY <1>1, <1>2, FS_SUBSET
<1>4. Cardinality(SUBSET D) \in Nat \ {0} /\ Cardinality(SUBSET R) \in Nat \ {0}
  <2>1. SUBSET D # {} /\ SUBSET R # {}
    OBVIOUS
  <2> HIDE DEF D, R
  <2> QED
    BY <1>3, <2>1, FS_CardinalityType, FS_EmptySet
<1>5. IsFiniteSet(X) /\ Cardinality(X) \in Nat
  <2>1. X \in SUBSET (SUBSET D)
    OBVIOUS
  <2> HIDE DEF X, D
  <2> QED
    BY <1>3, <2>1, FS_Subset, FS_CardinalityType
<1>6. Extreme(Tally(walk), seen) = Cardinality(X)
  <2>1. DOMAIN walk = SUBSET D /\ \A S \in SUBSET D : walk[S] = ExchangeDelta(T, y, S, a, b)
    <3>1. DiscordantTo(y, a, b, n) = D
      BY <1>1 DEF DiscordantTo
    <3> QED
      BY <1>1, <3>1 DEF Walk
  <2> HIDE DEF walk, D
  <2> DEFINE V == {v \in DOMAIN Tally(walk) : v >= seen}
  <2>2. IsFiniteSet(DOMAIN walk)
    BY <1>3, <2>1
  <2>3. DOMAIN Tally(walk) = {walk[h] : h \in DOMAIN walk}
    BY <2>2, TallyParts
  <2>4. V \in SUBSET DOMAIN Tally(walk)
    OBVIOUS
  <2>5. {h \in DOMAIN walk : walk[h] \in V} = X
    BY <2>1, <2>3
  <2> HIDE DEF V, X
  <2>6. SumFunctionOnSet(Tally(walk), V) = Cardinality(X)
    BY <2>2, <2>4, <2>5, TallySums
  <2> QED
    BY <2>6 DEF Extreme, V
<1>7. g \in Bijection(SUBSET T, F)
  <2>1. g \in [SUBSET T -> F]
    OBVIOUS
  <2>2. \A S, U \in SUBSET T : g[S] = g[U] => S = U
    <3> TAKE S, U \in SUBSET T
    <3> HAVE g[S] = g[U]
    <3> HIDE DEF D, T
    <3>1. S \cap D = U \cap D /\ S \ D = U \ D
      OBVIOUS
    <3>2. \A j : j \in S <=> j \in U
      BY <3>1
    <3> QED
      BY <3>2
  <2>3. \A x \in F : \E S \in SUBSET T : g[S] = x
    <3> TAKE x \in F
    <3>1. x = <<x[1], x[2]>> /\ x[1] \in SUBSET D /\ x[2] \in SUBSET R
      OBVIOUS
    <3> DEFINE S == x[1] \cup x[2]
    <3>2. S \in SUBSET T
      BY <1>1, <3>1
    <3>3. S \cap D = x[1] /\ S \ D = x[2]
      <4> HIDE DEF D, T
      <4> QED
        BY <3>1
    <3>4. g[S] = <<S \cap D, S \ D>>
      BY <3>2
    <3> HIDE DEF g, S
    <3> QED
      BY <3>1, <3>2, <3>3, <3>4
  <2> HIDE DEF g, F
  <2> QED
    BY <2>1, <2>2, <2>3 DEF Bijection, Injection, Surjection, IsInjective
<1>8. IsFiniteSet(F) /\ Cardinality(F) = Cardinality(SUBSET D) * Cardinality(SUBSET R)
  <2> HIDE DEF D, R
  <2> QED
    BY <1>3, FS_Product
<1>9. 2^n = Cardinality(SUBSET D) * Cardinality(SUBSET R)
  <2>1. IsFiniteSet(SUBSET T)
    <3> HIDE DEF T
    <3> QED
      BY <1>1, FS_SUBSET
  <2>2. Cardinality(F) = Cardinality(SUBSET T)
    <3> HIDE DEF F, g, T
    <3> QED
      BY <1>7, <2>1, FS_Bijection DEF ExistsBijection
  <2> QED
    BY <1>3, <1>8, <2>2
<1>10. Exchanges(y, a, b) = Cardinality(X) * Cardinality(SUBSET R)
  <2> DEFINE Z == {S \in SUBSET T : ExchangeDelta(T, y, S, a, b) >= seen}
             A == X \X (SUBSET R)
  <2>1. Exchanges(y, a, b) = Cardinality(Z)
    <3>1. \A S : ExchangeDelta(T, y, S, a, b) = Delta(y, Exchanged(y, S, a, b), Exchanged(y, S, b, a))
      BY DeltaInAll DEF ExchangeDelta
    <3>2. Z = {S \in SUBSET T : Delta(y, Exchanged(y, S, a, b), Exchanged(y, S, b, a)) >= seen}
      BY <3>1
    <3> QED
      BY <3>2 DEF Exchanges, Exchanged
  <2>2. A \in SUBSET F
    OBVIOUS
  <2>3. Cardinality(Into(SUBSET T, g, A)) = Cardinality(A)
    <3> HIDE DEF A, F, g, T
    <3> QED
      BY <1>7, <1>8, <2>2, MatchCount
  <2>4. Into(SUBSET T, g, A) = Z
    <3>1. ASSUME NEW S \in SUBSET T PROVE g[S] \in A <=> S \in Z
      <4>1. ExchangeDelta(T, y, S, a, b) = ExchangeDelta(T, y, S \cap D, a, b)
        <5>1. \A i \in T : i \in D => (i \in S <=> i \in S \cap D)
          OBVIOUS
        <5> QED
          BY <5>1, ExchangeLocal
      <4>2. g[S] \in A <=> S \cap D \in X
        <5> HIDE DEF X, D
        <5> QED
          OBVIOUS
      <4>3. S \cap D \in SUBSET D
        OBVIOUS
      <4> QED
        BY <4>1, <4>2, <4>3
    <3> HIDE DEF g, A, T
    <3>2. \A S : S \in Into(SUBSET T, g, A) <=> S \in SUBSET T /\ g[S] \in A
      BY DEF Into
    <3>3. Z \in SUBSET (SUBSET T)
      OBVIOUS
    <3> HIDE DEF Z
    <3> QED
      BY <3>1, <3>2, <3>3
  <2>5. Cardinality(A) = Cardinality(X) * Cardinality(SUBSET R)
    <3> HIDE DEF X, R
    <3> QED
      BY <1>3, <1>5, FS_Product
  <2> QED
    BY <2>1, <2>3, <2>4, <2>5
<1> HIDE DEF X, D, R, walk
<1> QED
  BY <1>3, <1>4, <1>5, <1>6, <1>9, <1>10 DEF CountsExchanges, walk, D

----------------------------------------------------------------------------
(* The bootstrap.                                                          *)

\* A list with one more draw is a list and a draw.
Parted(C, k) == [h \in [1..k+1 -> C] |-> <<[j \in 1..k |-> h[j]], h[k + 1]>>]

\* A list of one draw more is a list and a draw.
LEMMA ListsPart ==
    ASSUME NEW C, NEW k \in Nat
    PROVE  Parted(C, k) \in Bijection([1..k+1 -> C], [1..k -> C] \X C)
<1> DEFINE E == [1..k+1 -> C]
           F == [1..k -> C] \X C
           g == Parted(C, k)
<1>1. 1..k+1 = (1..k) \cup {k + 1} /\ k + 1 \notin 1..k
  OBVIOUS
<1>2. g \in [E -> F]
  BY <1>1 DEF Parted
<1>3. \A h, l \in E : g[h] = g[l] => h = l
  <2> TAKE h, l \in E
  <2> HAVE g[h] = g[l]
  <2>1. [j \in 1..k |-> h[j]] = [j \in 1..k |-> l[j]] /\ h[k + 1] = l[k + 1]
    BY DEF Parted
  <2>2. \A j \in 1..k : h[j] = l[j]
    <3> DEFINE s == [j \in 1..k |-> h[j]]
               t == [j \in 1..k |-> l[j]]
    <3>1. (\A j \in 1..k : s[j] = h[j]) /\ (\A j \in 1..k : t[j] = l[j])
      OBVIOUS
    <3>2. s = t
      BY <2>1
    <3> QED
      BY <3>1, <3>2
  <2>3. \A j \in 1..k+1 : h[j] = l[j]
    BY <1>1, <2>1, <2>2
  <2> QED
    BY <2>3
<1>4. \A x \in F : \E h \in E : g[h] = x
  <2> TAKE x \in F
  <2> DEFINE h == [j \in 1..k+1 |-> IF j = k + 1 THEN x[2] ELSE x[1][j]]
  <2>1. x = <<x[1], x[2]>> /\ x[1] \in [1..k -> C] /\ x[2] \in C
    OBVIOUS
  <2>2. h \in E /\ h[k + 1] = x[2]
    BY <1>1, <2>1
  <2>3. [j \in 1..k |-> h[j]] = x[1]
    <3>1. \A j \in 1..k : h[j] = x[1][j]
      BY <1>1
    <3> QED
      BY <2>1, <3>1
  <2> HIDE DEF h
  <2>4. g[h] = x
    BY <2>1, <2>2, <2>3 DEF Parted
  <2> QED
    BY <2>2, <2>4
<1> HIDE DEF E, F, g
<1>5. g \in Bijection(E, F)
  BY <1>2, <1>3, <1>4 DEF Bijection, Injection, Surjection, IsInjective
<1> QED
  BY <1>5 DEF E, F, g

\* There is one list without draws.
LEMMA NoDraws ==
    ASSUME NEW C
    PROVE  \E e : [1..0 -> C] = {e}
<1> DEFINE e == [j \in {} |-> j]
<1>1. 1..0 = {}
  OBVIOUS
<1>2. e \in [{} -> C]
  OBVIOUS
<1>3. \A h \in [{} -> C] : h = e
  OBVIOUS
<1> HIDE DEF e
<1>4. [{} -> C] = {e}
  BY <1>2, <1>3
<1> QED
  BY <1>1, <1>4

\* There are finitely many lists of draws.
LEMMA ListsFinite ==
    ASSUME NEW C, IsFiniteSet(C)
    PROVE  \A k \in Nat : IsFiniteSet([1..k -> C])
<1> SUFFICES ASSUME NEW m \in Nat, ~IsFiniteSet([1..m -> C]) PROVE FALSE
  OBVIOUS
<1> DEFINE K == {k \in Nat : ~IsFiniteSet([1..k -> C])}
<1>1. PICK k \in K : \A l \in K : k <= l
  <2>1. K \in SUBSET Nat /\ K # {}
    OBVIOUS
  <2> HIDE DEF K
  <2> QED
    BY <2>1, Least
<1>2. k \in Nat /\ ~IsFiniteSet([1..k -> C])
  BY <1>1
<1>3. k # 0
  <2>1. PICK e : [1..0 -> C] = {e}
    BY NoDraws
  <2>2. IsFiniteSet({e})
    BY FS_Singleton
  <2>3. IsFiniteSet([1..0 -> C])
    BY ONLY <2>1, <2>2, Zenon
  <2> QED
    BY <1>2, <2>3
<1> DEFINE l == k - 1
<1>4. l \in Nat /\ k = l + 1 /\ ~(k <= l)
  BY <1>2, <1>3
<1> HIDE DEF l
<1>5. IsFiniteSet([1..l -> C])
  BY <1>1, <1>4
<1>6. IsFiniteSet([1..l -> C] \X C)
  BY <1>5, FS_Product
<1>7. Parted(C, l) \in Bijection([1..k -> C], [1..l -> C] \X C)
  <2>1. Parted(C, l) \in Bijection([1..l+1 -> C], [1..l -> C] \X C)
    BY <1>4, ListsPart
  <2> QED
    BY <1>4, <2>1
<1>8. ExistsBijection([1..l -> C] \X C, [1..k -> C])
  BY <1>7, Fun_ExistsBijSymmetric DEF ExistsBijection
<1> QED
  BY <1>2, <1>6, <1>8, FS_Bijection

\* As many for one draw more as there are, times what is drawn from.
LEMMA ListsCount ==
    ASSUME NEW C, IsFiniteSet(C), NEW k \in Nat
    PROVE  Cardinality([1..k+1 -> C]) = Cardinality(C) * Cardinality([1..k -> C])
<1> DEFINE E == [1..k+1 -> C]
           L == [1..k -> C]
<1>1. IsFiniteSet(E) /\ IsFiniteSet(L)
  <2>1. k + 1 \in Nat
    OBVIOUS
  <2>2. \A l \in Nat : IsFiniteSet([1..l -> C])
    BY ListsFinite
  <2> QED
    BY <2>1, <2>2
<1>2. ExistsBijection(E, L \X C)
  BY ListsPart DEF ExistsBijection
<1> HIDE DEF E, L
<1>3. Cardinality(L \X C) = Cardinality(E)
  BY <1>1, <1>2, FS_Bijection
<1>4. Cardinality(L \X C) = Cardinality(L) * Cardinality(C)
  BY <1>1, FS_Product
<1>5. Cardinality(L) \in Nat /\ Cardinality(C) \in Nat
  BY <1>1, FS_CardinalityType
<1>6. Cardinality(E) = Cardinality(C) * Cardinality(L)
  BY <1>3, <1>4, <1>5
<1> QED
  BY <1>6 DEF E, L

\* b to the n is the number of lists of n among b.
LEMMA PowerCounts ==
    ASSUME NEW C, IsFiniteSet(C), NEW n \in Nat
    PROVE  Power(Cardinality(C), n) = Cardinality([1..n -> C])
<1> DEFINE b == Cardinality(C)
           Eq(f) == f = [k \in Nat |-> IF k = 0 THEN 1 ELSE b * f[k - 1]]
           power == CHOOSE f : Eq(f)
           G == [k \in Nat |-> Cardinality([1..k -> C])]
<1>1. Power(b, n) = power[n]
  BY DEF Power
<1>2. G[0] = 1
  <2>1. PICK e : [1..0 -> C] = {e}
    BY NoDraws
  <2> QED
    BY <2>1, FS_Singleton
<1>3. \A k \in Nat : k # 0 => G[k] = b * G[k - 1]
  <2> TAKE k \in Nat
  <2> HAVE k # 0
  <2> DEFINE l == k - 1
  <2>1. l \in Nat /\ k = l + 1
    OBVIOUS
  <2> HIDE DEF l
  <2>2. Cardinality([1..l+1 -> C]) = b * Cardinality([1..l -> C])
    BY <2>1, ListsCount
  <2>3. G[k] = b * G[l]
    BY <2>1, <2>2
  <2> QED
    BY <2>3 DEF l
<1>4. Eq(G)
  <2>1. DOMAIN G = Nat /\ G = [k \in Nat |-> G[k]]
    OBVIOUS
  <2> HIDE DEF G, b
  <2>2. \A k \in Nat : G[k] = IF k = 0 THEN 1 ELSE b * G[k - 1]
    BY <1>2, <1>3
  <2> QED
    BY <2>1, <2>2
<1> HIDE DEF G
<1>5. Eq(power)
  <2> HIDE DEF Eq
  <2> QED
    BY <1>4
<1> HIDE DEF power, b
<1>6. power[0] = 1 /\ \A k \in Nat : k # 0 => power[k] = b * power[k - 1]
  BY <1>5
<1>7. ASSUME power[n] # G[n] PROVE FALSE
  <2> DEFINE K == {k \in Nat : power[k] # G[k]}
  <2>1. PICK k \in K : \A l \in K : k <= l
    <3>1. K \in SUBSET Nat /\ K # {}
      BY <1>7
    <3> HIDE DEF K
    <3> QED
      BY <3>1, Least
  <2>2. k \in Nat /\ k # 0 /\ power[k] # G[k]
    BY <1>2, <1>6, <2>1
  <2>3. power[k - 1] = G[k - 1]
    <3>1. k - 1 \in Nat /\ ~(k <= k - 1)
      BY <2>2
    <3> QED
      BY <2>1, <3>1
  <2> QED
    BY <1>3, <1>6, <2>2, <2>3
<1> QED
  BY <1>1, <1>7 DEF G, b

\* How many of the sessions drawn p gets right.
Score(J, h, p, o) == Cardinality({j \in J : p[h[j]] = o})

\* The differences of all lists of k draws from class o.
Draws(y, a, b, o, k) ==
    [h \in [1..k -> Of(y, o)] |-> Score(1..k, h, a, o) - Score(1..k, h, b, o)]

LEMMA ScoreNat ==
    ASSUME NEW k \in Nat, NEW h, NEW p, NEW o
    PROVE  Score(1..k, h, p, o) \in Nat
<1>1. {j \in 1..k : p[h[j]] = o} \in SUBSET (1..k)
  OBVIOUS
<1> QED
  BY <1>1, Indices, FS_Subset, FS_CardinalityType DEF Score

\* The last draw scores or not.
LEMMA ScoreStep ==
    ASSUME NEW k \in Nat, NEW h, NEW p, NEW o
    PROVE  Score(1..k+1, h, p, o)
              = Score(1..k, [j \in 1..k |-> h[j]], p, o) + (IF p[h[k + 1]] = o THEN 1 ELSE 0)
<1> DEFINE A == {j \in 1..k : p[h[j]] = o}
           B == {j \in 1..k+1 : p[h[j]] = o}
           i == k + 1
           t == [j \in 1..k |-> h[j]]
<1>1. 1..k+1 = (1..k) \cup {i} /\ i \notin 1..k
  OBVIOUS
<1>2. A \in SUBSET (1..k)
  OBVIOUS
<1>3. IsFiniteSet(A) /\ Cardinality(A) \in Nat
  BY <1>2, Indices, FS_Subset, FS_CardinalityType
<1>4. i \notin A /\ B = IF p[h[i]] = o THEN A \cup {i} ELSE A
  BY <1>1
<1>5. {j \in 1..k : p[t[j]] = o} = A
  OBVIOUS
<1>6. Score(1..k+1, h, p, o) = Cardinality(B) /\ Score(1..k, t, p, o) = Cardinality(A)
  BY <1>5 DEF Score
<1> HIDE DEF A, B, i
<1>7. Cardinality(A \cup {i}) = Cardinality(A) + 1
  BY <1>3, <1>4, FS_AddElement
<1>8. Cardinality(B) = Cardinality(A) + (IF p[h[i]] = o THEN 1 ELSE 0)
  BY <1>3, <1>4, <1>7
<1> QED
  BY <1>6, <1>8 DEF i

\* Without a draw there is one list, and no difference.
LEMMA DrawsStart ==
    ASSUME NEW y \in Labels, NEW a, NEW b, NEW o
    PROVE  Tally(Draws(y, a, b, o, 0)) = Unit
<1> DEFINE d == Draws(y, a, b, o, 0)
<1>1. PICK e : [1..0 -> Of(y, o)] = {e}
  BY NoDraws
<1>2. \A p : Score(1..0, e, p, o) = 0
  <2> TAKE p
  <2>1. {j \in 1..0 : p[e[j]] = o} = {}
    OBVIOUS
  <2> QED
    BY <2>1, FS_EmptySet DEF Score
<1>3. DOMAIN d = {e} /\ d[e] = 0
  BY <1>1, <1>2 DEF Draws
<1> HIDE DEF d
<1>4. {h \in {e} : d[h] = 0} = {e} /\ {d[h] : h \in {e}} = {0}
  BY <1>3
<1>5. Cardinality({e}) = 1
  BY FS_Singleton
<1>6. Tally(d) = Unit
  BY <1>3, <1>4, <1>5 DEF Tally, Unit
<1> QED
  BY <1>6 DEF d

\* One more draw.
LEMMA DrawsStep ==
    ASSUME NEW y \in Labels, NEW a, NEW b, NEW o \in {0, 1}, NEW k \in Nat
    PROVE  Convolve(Tally(Draws(y, a, b, o, k)), Differences(y, a, b, o))
              = Tally(Draws(y, a, b, o, k + 1))
<1> DEFINE C == Of(y, o)
           diff == [i \in C |-> Correct(y, a, i) - Correct(y, b, i)]
           E == [1..k+1 -> C]
           L == [1..k -> C]
           F == L \X C
           g == Parted(C, k)
           draws == Draws(y, a, b, o, k)
           mine == Draws(y, a, b, o, k + 1)
           val == Pairing(draws, diff, 1, 1)
<1>1. IsFiniteSet(C)
  BY Classes
<1>2. Differences(y, a, b, o) = Tally(diff)
  <2>1. DOMAIN diff = C /\ \A i \in C : diff[i] = Correct(y, a, i) - Correct(y, b, i)
    OBVIOUS
  <2> HIDE DEF diff
  <2>2. {diff[i] : i \in DOMAIN diff} = {Correct(y, a, i) - Correct(y, b, i) : i \in C}
    BY <2>1
  <2>3. \A v : {i \in DOMAIN diff : diff[i] = v}
                  = {i \in C : Correct(y, a, i) - Correct(y, b, i) = v}
    BY <2>1
  <2> QED
    BY <2>2, <2>3 DEF Differences, Tally
<1>3. DOMAIN draws = L /\ DOMAIN diff = C /\ DOMAIN mine = E
  BY DEF Draws
<1>4. IsFiniteSet(L)
  BY <1>1, ListsFinite
<1>5. Convolve(Tally(draws), Tally(diff)) = Tally(val)
  <2> HIDE DEF draws, diff, C, L
  <2> QED
    BY <1>1, <1>3, <1>4, CrossedTallies DEF Convolve
<1>6. DOMAIN val = F /\ IsFiniteSet(F)
  <2> HIDE DEF draws, diff, C, L
  <2> QED
    BY <1>1, <1>3, <1>4, FS_Product DEF Pairing
<1>7. g \in Bijection(E, F)
  BY ListsPart
<1>8. ASSUME NEW h \in E PROVE mine[h] = val[g[h]]
  <2> DEFINE t == [j \in 1..k |-> h[j]]
             i == h[k + 1]
  <2>1. g[h] = <<t, i>> /\ t \in L /\ i \in C /\ g[h] \in F
    <3>1. g[h] = <<t, i>>
      BY DEF Parted
    <3>2. k + 1 \in 1..k+1 /\ \A j \in 1..k : j \in 1..k+1
      OBVIOUS
    <3>3. t \in L /\ i \in C
      <4> HIDE DEF C
      <4> QED
        BY <3>2
    <3> HIDE DEF t, i, L, C, g
    <3> QED
      BY <3>1, <3>3
  <2>2. mine[h] = Score(1..k+1, h, a, o) - Score(1..k+1, h, b, o)
    BY DEF Draws
  <2>3. draws[t] = Score(1..k, t, a, o) - Score(1..k, t, b, o)
    BY <2>1 DEF Draws
  <2>4. \A p : Score(1..k+1, h, p, o) = Score(1..k, t, p, o) + Correct(y, p, i)
    <3> TAKE p
    <3>1. y[i] = o
      BY <2>1 DEF Of
    <3>2. Correct(y, p, i) = IF p[i] = o THEN 1 ELSE 0
      BY <3>1 DEF Correct
    <3>3. Score(1..k+1, h, p, o) = Score(1..k, t, p, o) + (IF p[i] = o THEN 1 ELSE 0)
      BY ScoreStep
    <3> QED
      BY <3>2, <3>3
  <2>5. val[g[h]] = 1 * draws[t] + 1 * diff[i]
    <3>1. \A z \in F : val[z] = 1 * draws[z[1]] + 1 * diff[z[2]]
      BY <1>3 DEF Pairing
    <3> HIDE DEF val, draws, diff, g, t, i, F
    <3> QED
      BY <2>1, <3>1
  <2>6. diff[i] = Correct(y, a, i) - Correct(y, b, i)
    BY <2>1
  <2>7. \A p : Score(1..k, t, p, o) \in Nat /\ Correct(y, p, i) \in Nat
    BY ScoreNat DEF Correct
  <2> HIDE DEF val, draws, diff, g, t, i, mine
  <2> QED
    BY <2>2, <2>3, <2>4, <2>5, <2>6, <2>7
<1>9. Tally(mine) = Tally(val)
  <2> HIDE DEF mine, val, g, E, F
  <2> QED
    BY <1>3, <1>6, <1>7, <1>8, TallyMatched
<1> QED
  BY <1>2, <1>5, <1>9

----------------------------------------------------------------------------
(* Both classes: lists of draws stand for resamples.                       *)

\* Functions on C, read through a numbering of C.
Renamed(n, J, C) == [h \in [C -> C] |-> [j \in J |-> h[n[j]]]]

\* Naming the places of a list by the elements of the class matches lists and resamples.
LEMMA RenamedMatches ==
    ASSUME NEW J, NEW C, NEW n \in Bijection(J, C)
    PROVE  Renamed(n, J, C) \in Bijection([C -> C], [J -> C])
<1> DEFINE g == Renamed(n, J, C)
<1>1. /\ n \in [J -> C] /\ \A j, k \in J : n[j] = n[k] => j = k
      /\ \A i \in C : \E j \in J : n[j] = i
  BY DEF Bijection, Injection, Surjection, IsInjective
<1>2. \A h \in [C -> C] : g[h] = [j \in J |-> h[n[j]]]
  BY DEF Renamed
<1>3. g \in [[C -> C] -> [J -> C]]
  BY <1>1 DEF Renamed
<1> HIDE DEF g
<1>4. ASSUME NEW h \in [C -> C], NEW l \in [C -> C], g[h] = g[l] PROVE h = l
  <2>1. \A j \in J : h[n[j]] = l[n[j]]
    <3> DEFINE s == [j \in J |-> h[n[j]]]
               t == [j \in J |-> l[n[j]]]
    <3>1. (\A j \in J : s[j] = h[n[j]]) /\ (\A j \in J : t[j] = l[n[j]])
      OBVIOUS
    <3>2. s = t
      BY <1>2, <1>4
    <3> QED
      BY <3>1, <3>2
  <2>2. \A i \in C : h[i] = l[i]
    BY <1>1, <2>1
  <2> QED
    BY <2>2
<1>5. ASSUME NEW t \in [J -> C] PROVE \E h \in [C -> C] : g[h] = t
  <2> DEFINE back(i) == CHOOSE j \in J : n[j] = i
             h == [i \in C |-> t[back(i)]]
  <2>1. \A i \in C : back(i) \in J /\ n[back(i)] = i
    BY <1>1
  <2>2. \A j \in J : back(n[j]) = j
    BY <1>1, <2>1
  <2> HIDE DEF back
  <2>3. h \in [C -> C]
    BY <2>1
  <2>4. \A j \in J : h[n[j]] = t[j]
    BY <1>1, <2>2
  <2>5. g[h] = [j \in J |-> h[n[j]]]
    BY <1>2, <2>3
  <2>6. [j \in J |-> h[n[j]]] = t
    BY <2>4
  <2> QED
    BY <2>3, <2>5, <2>6
<1>6. g \in Bijection([C -> C], [J -> C])
  BY <1>3, <1>4, <1>5 DEF Bijection, Injection, Surjection, IsInjective
<1> QED
  BY <1>6 DEF g

\* Two matches match pairs.
LEMMA PairsMatch ==
    ASSUME NEW A, NEW B, NEW K, NEW L, NEW f \in Bijection(A, K), NEW g \in Bijection(B, L)
    PROVE  [x \in A \X B |-> <<f[x[1]], g[x[2]]>>] \in Bijection(A \X B, K \X L)
<1> DEFINE r == [x \in A \X B |-> <<f[x[1]], g[x[2]]>>]
<1>1. /\ f \in [A -> K] /\ \A j, k \in A : f[j] = f[k] => j = k
      /\ \A i \in K : \E j \in A : f[j] = i
  BY DEF Bijection, Injection, Surjection, IsInjective
<1>2. /\ g \in [B -> L] /\ \A j, k \in B : g[j] = g[k] => j = k
      /\ \A i \in L : \E j \in B : g[j] = i
  BY DEF Bijection, Injection, Surjection, IsInjective
<1>3. r \in [A \X B -> K \X L]
  BY <1>1, <1>2
<1>4. \A x, z \in A \X B : r[x] = r[z] => x = z
  <2> TAKE x, z \in A \X B
  <2> HAVE r[x] = r[z]
  <2>1. f[x[1]] = f[z[1]] /\ g[x[2]] = g[z[2]]
    OBVIOUS
  <2>2. x[1] \in A /\ z[1] \in A /\ x[2] \in B /\ z[2] \in B
        /\ x = <<x[1], x[2]>> /\ z = <<z[1], z[2]>>
    OBVIOUS
  <2>3. x[1] = z[1] /\ x[2] = z[2]
    BY <1>1, <1>2, <2>1, <2>2
  <2> QED
    BY <2>2, <2>3
<1>5. \A w \in K \X L : \E x \in A \X B : r[x] = w
  <2> TAKE w \in K \X L
  <2>1. w = <<w[1], w[2]>> /\ w[1] \in K /\ w[2] \in L
    OBVIOUS
  <2>2. PICK j \in A : f[j] = w[1]
    BY <1>1, <2>1
  <2>3. PICK k \in B : g[k] = w[2]
    BY <1>2, <2>1
  <2>4. <<j, k>> \in A \X B /\ r[<<j, k>>] = <<f[j], g[k]>>
    OBVIOUS
  <2> QED
    BY <2>1, <2>2, <2>3, <2>4
<1> HIDE DEF r
<1>6. r \in Bijection(A \X B, K \X L)
  BY <1>3, <1>4, <1>5 DEF Bijection, Injection, Surjection, IsInjective
<1> QED
  BY <1>6 DEF r

\* A numbering changes no score.
LEMMA ScoreRenamed ==
    ASSUME NEW C, IsFiniteSet(C), NEW J, NEW n \in Bijection(J, C),
           NEW h \in [C -> C], NEW p, NEW o
    PROVE  Score(J, Renamed(n, J, C)[h], p, o) = Score(C, h, p, o)
<1> DEFINE A == {i \in C : p[h[i]] = o}
           t == [j \in J |-> h[n[j]]]
<1>1. Renamed(n, J, C)[h] = t
  BY DEF Renamed
<1>2. n \in [J -> C]
  BY DEF Bijection, Injection
<1>3. {j \in J : p[t[j]] = o} = Into(J, n, A)
  BY <1>2 DEF Into
<1>4. Cardinality(Into(J, n, A)) = Cardinality(A)
  <2>1. A \in SUBSET C
    OBVIOUS
  <2> HIDE DEF A
  <2> QED
    BY <2>1, MatchCount
<1> QED
  BY <1>1, <1>3, <1>4 DEF Score

\* The difference of a resample: what AtMost compares.
ResampleDelta(y, a, b, h) ==
    LET drawn(i) == IF y[i] = 1 THEN h[1][i] ELSE h[2][i]
    IN Delta(y, [i \in DOMAIN y |-> a[drawn(i)]], [i \in DOMAIN y |-> b[drawn(i)]])

\* The difference on a resample is its two classes' scores, each weighed by the size of the other.
LEMMA ResampleDeltaIs ==
    ASSUME NEW y \in Labels, NEW a, NEW b, NEW h,
           NEW C, C = Of(y, 1), NEW B, B = Of(y, 0)
    PROVE  ResampleDelta(y, a, b, h)
             = Cardinality(B) * (Score(C, h[1], a, 1)
                                    - Score(C, h[1], b, 1))
                 + Cardinality(C) * (Score(B, h[2], a, 0)
                                    - Score(B, h[2], b, 0))
<1> DEFINE drawn(i) == IF y[i] = 1 THEN h[1][i] ELSE h[2][i]
           re(p) == [i \in DOMAIN y |-> p[drawn(i)]]
<1>1. \A p : {i \in C : re(p)[i] = 1} = {i \in C : p[h[1][i]] = 1}
  BY DEF Of
<1>2. \A p : {i \in B : re(p)[i] = 0} = {i \in B : p[h[2][i]] = 0}
  BY DEF Of
<1>3. ResampleDelta(y, a, b, h) = Delta(y, re(a), re(b))
  BY DEF ResampleDelta
<1> HIDE DEF re
<1>4. \A p : /\ Hits(y, re(p), 1) = Score(C, h[1], p, 1)
             /\ Hits(y, re(p), 0) = Score(B, h[2], p, 0)
  BY <1>1, <1>2 DEF Hits, Score
<1> QED
  BY <1>3, <1>4 DEF Delta

\* Pairs of lists of draws, one from each class, with their difference.
BothDraws(y, a, b) ==
    Pairing(Draws(y, a, b, 1, Cardinality(Of(y, 1))), Draws(y, a, b, 0, Cardinality(Of(y, 0))),
            Cardinality(Of(y, 0)), Cardinality(Of(y, 1)))

\* They stand for the resamples, one for one, differences included.
LEMMA ResamplesMatch ==
    ASSUME NEW y \in Labels, NEW a, NEW b
    PROVE  \E g \in Bijection(Resamples(y), DOMAIN BothDraws(y, a, b)) :
              \A h \in Resamples(y) : BothDraws(y, a, b)[g[h]] = ResampleDelta(y, a, b, h)
<1> DEFINE C == Of(y, 1)
           B == Of(y, 0)
           P == Cardinality(C)
           N == Cardinality(B)
           pos == Draws(y, a, b, 1, P)
           neg == Draws(y, a, b, 0, N)
           both == BothDraws(y, a, b)
           E == [C -> C] \X [B -> B]
           F == [1..P -> C] \X [1..N -> B]
<1>1. IsFiniteSet(C) /\ IsFiniteSet(B)
  BY Classes
<1>2. PICK n1 : n1 \in Bijection(1..P, C)
  BY <1>1, FS_CardinalityType DEF ExistsBijection
<1>3. PICK n0 : n0 \in Bijection(1..N, B)
  BY <1>1, FS_CardinalityType DEF ExistsBijection
<1> DEFINE f == Renamed(n1, 1..P, C)
           e == Renamed(n0, 1..N, B)
           g == [x \in E |-> <<f[x[1]], e[x[2]]>>]
<1>4. g \in Bijection(E, F)
  <2>1. f \in Bijection([C -> C], [1..P -> C])
    BY <1>2, RenamedMatches
  <2>2. e \in Bijection([B -> B], [1..N -> B])
    BY <1>3, RenamedMatches
  <2> DEFINE V == [C -> C]
             W == [B -> B]
             K == [1..P -> C]
             L == [1..N -> B]
  <2>3. f \in Bijection(V, K) /\ e \in Bijection(W, L)
    BY <2>1, <2>2
  <2> HIDE DEF f, e, V, W, K, L
  <2>4. [x \in V \X W |-> <<f[x[1]], e[x[2]]>>] \in Bijection(V \X W, K \X L)
    BY <2>3, PairsMatch
  <2> QED
    BY <2>4 DEF V, W, K, L
<1>5. /\ DOMAIN both = F
      /\ \A x \in F : both[x] = N * pos[x[1]] + P * neg[x[2]]
  BY DEF BothDraws, Pairing, Draws
<1>6. Resamples(y) = E
  BY DEF Resamples
<1>7. ASSUME NEW h \in E PROVE both[g[h]] = ResampleDelta(y, a, b, h)
  <2> DEFINE s == f[h[1]]
             t == e[h[2]]
  <2>1. h[1] \in [C -> C] /\ h[2] \in [B -> B]
    OBVIOUS
  <2>2. g[h] = <<s, t>> /\ g[h] \in F
    <3>1. g[h] = <<s, t>>
      OBVIOUS
    <3> HIDE DEF g, E, F, s, t
    <3> QED
      BY <1>4, <3>1 DEF Bijection, Injection
  <2>3. s \in [1..P -> C] /\ t \in [1..N -> B]
    <3> HIDE DEF g, E, s, t, C, B, P, N
    <3> QED
      BY <2>2
  <2>4. both[g[h]] = N * pos[s] + P * neg[t]
    <3> HIDE DEF g, F, s, t, both, pos, neg
    <3> QED
      BY <1>5, <2>2
  <2>5. /\ pos[s] = Score(1..P, s, a, 1) - Score(1..P, s, b, 1)
        /\ neg[t] = Score(1..N, t, a, 0) - Score(1..N, t, b, 0)
    BY <2>3 DEF Draws
  <2>6. \A p, o : Score(1..P, s, p, o) = Score(C, h[1], p, o)
    <3> TAKE p, o
    <3> DEFINE l == h[1]
    <3>1. l \in [C -> C]
      BY <2>1
    <3> HIDE DEF C, P, E, l
    <3>2. Score(1..P, Renamed(n1, 1..P, C)[l], p, o) = Score(C, l, p, o)
      BY <1>1, <1>2, <3>1, ScoreRenamed
    <3> QED
      BY <3>2 DEF l
  <2>7. \A p, o : Score(1..N, t, p, o) = Score(B, h[2], p, o)
    <3> TAKE p, o
    <3> DEFINE l == h[2]
    <3>1. l \in [B -> B]
      BY <2>1
    <3> HIDE DEF B, N, E, l
    <3>2. Score(1..N, Renamed(n0, 1..N, B)[l], p, o) = Score(B, l, p, o)
      BY <1>1, <1>3, <3>1, ScoreRenamed
    <3> QED
      BY <3>2 DEF l
  <2>8. ResampleDelta(y, a, b, h)
          = N * (Score(C, h[1], a, 1) - Score(C, h[1], b, 1))
              + P * (Score(B, h[2], a, 0) - Score(B, h[2], b, 0))
    BY ResampleDeltaIs
  <2> HIDE DEF both, g, pos, neg, s, t, P, N, C, B
  <2> QED
    BY <2>4, <2>5, <2>6, <2>7, <2>8
<1> HIDE DEF g, E, F, both
<1> QED
  BY <1>4, <1>5, <1>6, <1>7 DEF both

----------------------------------------------------------------------------
(* The interval.                                                           *)

\* v is the q-quantile of the differences of all resamples.
ResampleQuantile(y, a, b, v, q) ==
    LET upto == AtMost(y, a, b, v)
        below == AtMost(y, a, b, v - 1)
    IN /\ below < upto
       /\ upto * SCALE >= q * Cardinality(Resamples(y))
       /\ below = 0 \/ below * SCALE < q * Cardinality(Resamples(y))

LEMMA BothDrawsFinite ==
    ASSUME NEW y \in Labels, NEW a, NEW b,
           NEW P, P = Cardinality(Of(y, 1)), NEW N, N = Cardinality(Of(y, 0)),
           NEW F, F = DOMAIN BothDraws(y, a, b)
    PROVE  /\ IsFiniteSet(F) /\ F # {} /\ Cardinality(F) = Power(P, P) * Power(N, N)
           /\ BothDraws(y, a, b) \in [F -> Int]
<1> DEFINE C == Of(y, 1)
           B == Of(y, 0)
           pos == Draws(y, a, b, 1, P)
           neg == Draws(y, a, b, 0, N)
           K == [1..P -> C]
           L == [1..N -> B]
<1>1. IsFiniteSet(C) /\ IsFiniteSet(B) /\ C # {} /\ B # {} /\ P \in Nat /\ N \in Nat
  BY Classes, Sessions DEF Labels
<1>2. F = K \X L /\ \A x \in F : BothDraws(y, a, b)[x] = N * pos[x[1]] + P * neg[x[2]]
  BY DEF BothDraws, Pairing, Draws
<1>3. /\ IsFiniteSet(K) /\ IsFiniteSet(L)
      /\ Cardinality(K) = Power(P, P) /\ Cardinality(L) = Power(N, N)
  <2> HIDE DEF C, B
  <2>1. IsFiniteSet(K) /\ IsFiniteSet(L)
    BY <1>1, ListsFinite
  <2>2. Power(Cardinality(C), P) = Cardinality(K)
    BY <1>1, PowerCounts
  <2>3. Power(Cardinality(B), N) = Cardinality(L)
    BY <1>1, PowerCounts
  <2> QED
    BY <2>1, <2>2, <2>3 DEF C, B
<1>4. F # {}
  <2>1. PICK i \in C : TRUE
    BY <1>1
  <2>2. PICK j \in B : TRUE
    BY <1>1
  <2> DEFINE s == [k \in 1..P |-> i]
             t == [k \in 1..N |-> j]
  <2>3. s \in K /\ t \in L
    OBVIOUS
  <2> HIDE DEF K, L, s, t
  <2>4. <<s, t>> \in K \X L
    BY <2>3
  <2> QED
    BY <1>2, <2>4
<1>5. IsFiniteSet(F) /\ Cardinality(F) = Power(P, P) * Power(N, N)
  <2> HIDE DEF K, L
  <2> QED
    BY <1>2, <1>3, FS_Product
<1>6. BothDraws(y, a, b) \in [F -> Int]
  <2>1. \A h \in K : pos[h] \in Int
    <3>1. \A h \in K : pos[h] = Score(1..P, h, a, 1) - Score(1..P, h, b, 1)
      BY DEF Draws
    <3>2. \A h, p : Score(1..P, h, p, 1) \in Nat
      BY <1>1, ScoreNat
    <3> HIDE DEF pos
    <3> QED
      BY <3>1, <3>2
  <2>2. \A h \in L : neg[h] \in Int
    <3>1. \A h \in L : neg[h] = Score(1..N, h, a, 0) - Score(1..N, h, b, 0)
      BY DEF Draws
    <3>2. \A h, p : Score(1..N, h, p, 0) \in Nat
      BY <1>1, ScoreNat
    <3> HIDE DEF neg
    <3> QED
      BY <3>1, <3>2
  <2>3. BothDraws(y, a, b) = [x \in F |-> BothDraws(y, a, b)[x]]
    BY DEF BothDraws, Pairing
  <2>4. \A x \in F : BothDraws(y, a, b)[x] \in Int
    <3> HIDE DEF pos, neg, K, L
    <3> TAKE x \in F
    <3>1. x[1] \in K /\ x[2] \in L
      BY <1>2
    <3>2. pos[x[1]] \in Int /\ neg[x[2]] \in Int
      BY <2>1, <2>2, <3>1
    <3>3. N * pos[x[1]] + P * neg[x[2]] \in Int
      BY <1>1, <3>2
    <3> QED
      BY <1>2, <3>3
  <2> QED
    BY <2>3, <2>4
<1> QED
  BY <1>4, <1>5, <1>6

\* _exact_stratified_bootstrap_ci: the quantile of both classes together is one of the resamples.
LEMMA IntervalIs ==
    ASSUME NEW y \in Labels, NEW a, NEW b,
           NEW P, P = Cardinality(Of(y, 1)), NEW N, N = Cardinality(Of(y, 0)),
           NEW q \in 0..SCALE,
           NEW v, v = DistributionQuantile(
                          Combined(Tally(Draws(y, a, b, 1, P)), Tally(Draws(y, a, b, 0, N)), P, N),
                          Power(P, P) * Power(N, N), q)
    PROVE  v \in Int /\ ResampleQuantile(y, a, b, v, q)
<1> DEFINE both == BothDraws(y, a, b)
           F == DOMAIN both
           pos == Draws(y, a, b, 1, P)
           neg == Draws(y, a, b, 0, N)
           E == Resamples(y)
<1>1. /\ IsFiniteSet(F) /\ F # {} /\ Cardinality(F) = Power(P, P) * Power(N, N)
      /\ both \in [F -> Int]
  BY BothDrawsFinite
<1>2. Combined(Tally(pos), Tally(neg), P, N) = Tally(both)
  <2>1. both = Pairing(pos, neg, N, P)
    BY DEF BothDraws
  <2>2. IsFiniteSet(DOMAIN pos) /\ IsFiniteSet(DOMAIN neg)
    <3>1. DOMAIN pos = [1..P -> Of(y, 1)] /\ DOMAIN neg = [1..N -> Of(y, 0)]
      BY DEF Draws
    <3>2. IsFiniteSet(Of(y, 1)) /\ IsFiniteSet(Of(y, 0)) /\ P \in Nat /\ N \in Nat
      BY Classes, Sessions
    <3>3. IsFiniteSet([1..P -> Of(y, 1)])
      BY <3>2, ListsFinite
    <3>4. IsFiniteSet([1..N -> Of(y, 0)])
      BY <3>2, ListsFinite
    <3> HIDE DEF pos, neg
    <3> QED
      BY ONLY <3>1, <3>3, <3>4
  <2> HIDE DEF pos, neg, both
  <2> QED
    BY <2>1, <2>2, CrossedTallies DEF Combined
<1>3. IsQuantile(both, v, q)
  <2> HIDE DEF both, F
  <2>1. IsQuantile(both, DistributionQuantile(Tally(both), Cardinality(F), q), q)
    BY <1>1, QuantileIs
  <2> QED
    BY <1>1, <1>2, <2>1
<1>4. PICK g \in Bijection(E, F) : \A h \in E : both[g[h]] = ResampleDelta(y, a, b, h)
  BY ResamplesMatch
<1>5. Cardinality(E) = Cardinality(F)
  <2> HIDE DEF E, F
  <2>1. ExistsBijection(F, E)
    BY <1>4, Fun_ExistsBijSymmetric DEF ExistsBijection
  <2> QED
    BY <1>1, <2>1, FS_Bijection
<1>6. ASSUME NEW u PROVE AtMost(y, a, b, u) = Mass(both, u)
  <2> DEFINE A == {x \in F : both[x] <= u}
             Z == {h \in E : ResampleDelta(y, a, b, h) <= u}
  <2>1. AtMost(y, a, b, u) = Cardinality(Z)
    BY DEF AtMost, ResampleDelta
  <2>2. A \in SUBSET F
    OBVIOUS
  <2>3. Cardinality(Into(E, g, A)) = Cardinality(A)
    <3> HIDE DEF A, E, F
    <3> QED
      BY <1>1, <1>4, <2>2, MatchCount
  <2>4. Into(E, g, A) = Z
    <3>1. g \in [E -> F]
      BY <1>4 DEF Bijection, Injection
    <3> HIDE DEF both, F, E
    <3> QED
      BY <1>4, <3>1 DEF Into
  <2>5. Mass(both, u) = Cardinality(A)
    BY DEF Mass
  <2> QED
    BY <2>1, <2>3, <2>4, <2>5
<1> HIDE DEF both, E, F
<1> QED
  BY <1>3, <1>5, <1>6 DEF IsQuantile, ResampleQuantile, E, F

----------------------------------------------------------------------------
(* What judging a sample builds, step by step.                             *)

Results == [extreme: Nat, total: Nat \ {0}, micros: Int, significant: BOOLEAN,
            lower: Int, upper: Int]

Rival(s, k) == s.comparator[Comparators[k]]

Outside(p) == (SCALE - p.confidence) \div 2

\* Result r tests sample s against comparator k by its exchanges.
Tested(s, p, r, k) ==
    /\ CountsExchanges(s.y, s.primary, Rival(s, k), r.extreme, r.total)
    /\ r.micros = CeilRatio(r.extreme * SCALE, r.total)
    /\ r.significant <=> /\ Delta(s.y, s.primary, Rival(s, k)) > 0
                         /\ r.extreme * SCALE <= p.alpha * r.total

\* Its interval is between quantiles of the resamples.
Bounded(s, p, r, k) ==
    /\ ResampleQuantile(s.y, s.primary, Rival(s, k), r.lower, Outside(p))
    /\ ResampleQuantile(s.y, s.primary, Rival(s, k), r.upper, SCALE - Outside(p))

Judged(s, p, r, k) == Tested(s, p, r, k) /\ Bounded(s, p, r, k)

\* i sessions of the randomization test against comparator k are in d.
Randomized(s, k, i, d) ==
    /\ i \in 0..Len(s.y)
    /\ d = Tally(Walk(s.y, s.primary, Rival(s, k), i))

\* i draws from class o are in d.
Drawn(s, k, o, i, d) ==
    /\ i \in 0..Cardinality(Of(s.y, o))
    /\ d = Tally(Draws(s.y, s.primary, Rival(s, k), o, i))

\* Sample s is judged against comparators 1 to k, with n results so far.
JudgedTo(s, p, results, k, n) ==
    /\ s.y \in Labels
    /\ k \in 0..Len(Comparators) /\ Len(results) = n
    /\ \A j \in 1..k : Judged(s, p, results[j], j)

\* The distribution in hand is the tally of all ways to take the sessions or draws so far,
\* and every comparator done is judged by its exchanges and resamples.
StatInv ==
    pc \notin {"fit", "fitted"} =>
        /\ input \in Samples /\ protocol \in Inferences /\ inference \in Seq(Results)
        /\ \/ pc = "evaluate" /\ turn = 0 /\ item = 0 /\ dist = Unit /\ inference = <<>>
           \/ /\ pc = "randomize" /\ turn < Len(Comparators)
              /\ JudgedTo(input, protocol, inference, turn, turn)
              /\ Randomized(input, turn + 1, item, dist)
           \/ /\ pc = "draw positive" /\ turn < Len(Comparators)
              /\ JudgedTo(input, protocol, inference, turn, turn + 1)
              /\ Tested(input, protocol, inference[turn + 1], turn + 1)
              /\ Drawn(input, turn + 1, 1, item, dist)
           \/ /\ pc = "draw negative" /\ turn < Len(Comparators)
              /\ JudgedTo(input, protocol, inference, turn, turn + 1)
              /\ Tested(input, protocol, inference[turn + 1], turn + 1)
              /\ Drawn(input, turn + 1, 1, Size(1), positive)
              /\ Drawn(input, turn + 1, 0, item, dist)
           \/ pc = "conclude" /\ JudgedTo(input, protocol, inference, Len(Comparators), turn)
           \/ /\ pc = "concluded"
              /\ disposition # "INSUFFICIENT_SAMPLE" =>
                    /\ GateExact
                    /\ JudgedTo(input, protocol, inference, Len(Comparators), turn)

\* What the constants are, of one sample and protocol.
LEMMA SampleTypes ==
    ASSUME NEW s \in Samples, NEW p \in Inferences
    PROVE  /\ s.y \in Seq({0, 1})
           /\ p.alpha \in 1..SCALE-1 /\ p.confidence \in 1..SCALE-1
           /\ SCALE \in Nat \ {0} /\ MinClass \in Nat \ {0}
           /\ Len(Comparators) \in Nat \ {0} /\ DOMAIN Comparators = 1..Len(Comparators)
           /\ Outside(p) \in 0..SCALE /\ SCALE - Outside(p) \in 0..SCALE
           /\ 3 * Cardinality(Of(s.y, 0)) * Cardinality(Of(s.y, 1)) <= SCALE
<1>1. /\ s.y \in Seq({0, 1}) /\ p \in [alpha: 1..SCALE-1, confidence: 1..SCALE-1]
      /\ SCALE \in Nat \ {0} /\ MinClass \in Nat \ {0}
      /\ Comparators \in Seq(STRING) \ {<<>>}
  BY StatisticsConstants
<1>2. p.alpha \in 1..SCALE-1 /\ p.confidence \in 1..SCALE-1
  BY <1>1
<1>3. Len(Comparators) \in Nat \ {0} /\ DOMAIN Comparators = 1..Len(Comparators)
  BY <1>1
<1>4. Outside(p) \in 0..SCALE /\ SCALE - Outside(p) \in 0..SCALE
  <2> DEFINE c == p.confidence
  <2>1. c \in 1..SCALE-1 /\ Outside(p) = (SCALE - c) \div 2
    BY <1>2 DEF Outside
  <2> HIDE DEF c
  <2> QED
    BY <1>1, <2>1
<1>5. 3 * Cardinality(Of(s.y, 0)) * Cardinality(Of(s.y, 1)) <= SCALE
  BY CalibrationSizes
<1> QED
  BY <1>1, <1>2, <1>3, <1>4, <1>5

\* evaluate: from here on both classes have sessions.
LEMMA Classified == StatInv /\ Classify => StatInv'
<1> SUFFICES ASSUME StatInv, Classify PROVE StatInv'
  OBVIOUS
<1>1. /\ pc = "evaluate" /\ input' = input /\ protocol' = protocol /\ inference' = inference
      /\ turn' = turn /\ item' = item /\ dist' = dist
  BY DEF Classify
<1>2. /\ input \in Samples /\ protocol \in Inferences /\ inference \in Seq(Results)
      /\ turn = 0 /\ item = 0 /\ dist = Unit /\ inference = <<>>
  BY <1>1 DEF StatInv
<1> DEFINE y == input.y
<1>3. /\ y \in Seq({0, 1}) /\ Len(Comparators) \in Nat \ {0} /\ MinClass \in Nat \ {0}
  BY <1>2, SampleTypes
<1>4. CASE pc' = "concluded" /\ disposition' = "INSUFFICIENT_SAMPLE"
  BY <1>1, <1>2, <1>4 DEF StatInv
<1>5. CASE pc' = "randomize" /\ \A o \in {0, 1} : Size(o) >= MinClass
  <2>1. y \in Labels
    <3>1. \A o \in {0, 1} : Of(y, o) # {}
      <4> TAKE o \in {0, 1}
      <4>1. Cardinality(Of(y, o)) >= MinClass
        BY <1>5 DEF Size
      <4>2. Cardinality({}) = 0
        BY FS_EmptySet
      <4> QED
        <5>1. Cardinality(Of(y, o)) # Cardinality({})
          BY ONLY <1>3, <4>1, <4>2
        <5> QED
          BY ONLY <5>1, Zenon
    <3> HIDE DEF y
    <3> QED
      BY <1>3, <3>1 DEF Labels
  <2>2. JudgedTo(input, protocol, inference, 0, 0)
    BY <1>2, <1>3, <2>1 DEF JudgedTo
  <2>3. Randomized(input, 1, 0, Unit)
    <3>1. Len(y) \in Nat
      BY <1>3
    <3> QED
      BY <2>1, <3>1, WalkStart DEF Randomized
  <2> QED
    BY <1>1, <1>2, <1>3, <1>5, <2>2, <2>3 DEF StatInv
<1> QED
  BY <1>4, <1>5 DEF Classify

\* A session of _exact_paired_randomization.
LEMMA Walked == StatInv /\ Randomize => StatInv'
<1> SUFFICES ASSUME StatInv, Randomize PROVE StatInv'
  OBVIOUS
<1> DEFINE y == input.y
           a == input.primary
           b == Rival(input, turn + 1)
           k == item
           w == Weight(y, k + 1)
<1>1. /\ pc = "randomize" /\ item < Len(y)
      /\ item' = item + 1
      /\ pc' = pc /\ input' = input /\ protocol' = protocol /\ inference' = inference
      /\ turn' = turn
  BY DEF Randomize
<1>2. dist' = IF k + 1 \in Discordant(y, a, b)
              THEN Convolve(dist, [v \in {w, -w} |-> 1]) ELSE dist
  BY DEF Randomize, Comparator, Rival, Size, Weight
<1>3. /\ input \in Samples /\ protocol \in Inferences /\ inference \in Seq(Results)
      /\ turn < Len(Comparators)
      /\ JudgedTo(input, protocol, inference, turn, turn)
      /\ Randomized(input, turn + 1, item, dist)
  BY <1>1 DEF StatInv
<1>4. /\ y \in Labels /\ k \in 0..Len(y) /\ dist = Tally(Walk(y, a, b, k))
  BY <1>3 DEF JudgedTo, Randomized
<1>5. Len(y) \in Nat /\ k \in Nat /\ k < Len(y) /\ k + 1 \in 0..Len(y)
  <2>1. Len(y) \in Nat
    BY <1>4, Sessions
  <2> QED
    BY <1>1, <1>4, <2>1
<1> HIDE DEF y, a, b, w
<1>6. dist' = Tally(Walk(y, a, b, k + 1))
  <2>1. CASE k + 1 \in Discordant(y, a, b)
    <3>1. \A v : v = Weight(y, k + 1) =>
             Convolve(Tally(Walk(y, a, b, k)), [u \in {v, -v} |-> 1]) = Tally(Walk(y, a, b, k + 1))
      BY <1>4, <1>5, <2>1, WalkDiscordant
    <3> QED
      BY <1>2, <1>4, <2>1, <3>1 DEF w
  <2>2. CASE k + 1 \notin Discordant(y, a, b)
    BY <1>2, <1>4, <1>5, <2>2, WalkConcordant
  <2> QED
    BY <2>1, <2>2
<1>7. Randomized(input, turn + 1, item', dist')
  BY <1>1, <1>5, <1>6 DEF Randomized, y, a, b
<1> QED
  BY <1>1, <1>3, <1>7 DEF StatInv

\* The p-value: what _exact_paired_randomization returns.
LEMMA Randomizes == StatInv /\ EndRandomization => StatInv'
<1> SUFFICES ASSUME StatInv, EndRandomization PROVE StatInv'
  OBVIOUS
<1> DEFINE y == input.y
           a == input.primary
           k == turn + 1
           b == Rival(input, k)
           total == 2^Cardinality(Discordant(y, a, b))
           observed == DeltaNumerator(y, a, b)
           extreme == Extreme(dist, observed)
           r == [extreme |-> extreme, total |-> total,
                 micros |-> CeilRatio(extreme * SCALE, total),
                 significant |-> observed > 0 /\ extreme * SCALE <= protocol.alpha * total,
                 lower |-> 0, upper |-> 0]
<1>1. /\ pc = "randomize" /\ item = Len(y)
      /\ item' = 0 /\ dist' = Unit /\ pc' = "draw positive"
      /\ input' = input /\ protocol' = protocol /\ turn' = turn
  BY DEF EndRandomization
<1>2. inference' = Append(inference, r)
  BY DEF EndRandomization, Comparator, Rival
<1>3. /\ input \in Samples /\ protocol \in Inferences /\ inference \in Seq(Results)
      /\ turn < Len(Comparators)
      /\ JudgedTo(input, protocol, inference, turn, turn)
      /\ Randomized(input, turn + 1, item, dist)
  BY <1>1 DEF StatInv
<1>4. /\ y \in Labels /\ dist = Tally(Walk(y, a, b, Len(y))) /\ Len(inference) = turn /\ turn \in Nat
      /\ \A j \in 1..turn : Judged(input, protocol, inference[j], j)
  <2>1. Len(Comparators) \in Nat
    BY <1>3, SampleTypes
  <2>2. y \in Labels /\ turn \in Nat /\ Len(inference) = turn
    BY <1>3, <2>1 DEF JudgedTo
  <2>3. dist = Tally(Walk(y, a, b, Len(y)))
    BY <1>1, <1>3 DEF Randomized
  <2>4. \A j \in 1..turn : Judged(input, protocol, inference[j], j)
    BY <1>3 DEF JudgedTo
  <2> QED
    BY <2>2, <2>3, <2>4
<1>5. observed = Delta(y, a, b)
  <2> HIDE DEF y, a, b
  <2> QED
    BY <1>4, DeltaIs
<1>6. CountsExchanges(y, a, b, extreme, total)
  <2> HIDE DEF y, a, b, observed
  <2> QED
    BY <1>4, <1>5, WalkEnd
<1> HIDE DEF extreme, total, observed
<1>7. r \in Results
  <2>1. extreme \in Nat /\ total \in Nat \ {0}
    BY <1>6 DEF CountsExchanges
  <2>2. SCALE \in Nat
    BY StatisticsConstants
  <2>3. extreme * SCALE \in Int
    BY <2>1, <2>2
  <2>4. CeilRatio(extreme * SCALE, total) \in Int
    BY <2>1, <2>3, CeilIs
  <2> QED
    BY <2>1, <2>4 DEF Results
<1>8. Tested(input, protocol, r, k)
  BY <1>5, <1>6 DEF Tested
<1> HIDE DEF r
<1>9. /\ inference' \in Seq(Results) /\ Len(inference') = k
      /\ inference'[k] = r
      /\ \A j \in 1..turn : inference'[j] = inference[j]
  BY <1>2, <1>3, <1>4, <1>7
<1>10. JudgedTo(input, protocol, inference', turn, k)
  BY <1>3, <1>4, <1>9 DEF JudgedTo
<1>11. Drawn(input, k, 1, 0, Unit)
  <2>1. Cardinality(Of(y, 1)) \in Nat
    BY <1>4, Classes
  <2> HIDE DEF a, b
  <2>2. Tally(Draws(y, a, b, 1, 0)) = Unit
    BY <1>4, DrawsStart
  <2> QED
    BY <2>1, <2>2 DEF Drawn, a, b
<1> QED
  BY <1>1, <1>3, <1>8, <1>9, <1>10, <1>11 DEF StatInv

\* One draw more.
LEMMA OneDraw ==
    ASSUME NEW s \in Samples, s.y \in Labels, NEW k, NEW o \in {0, 1}, NEW i, NEW d,
           Drawn(s, k, o, i, d), i < Cardinality(Of(s.y, o))
    PROVE  Drawn(s, k, o, i + 1, Convolve(d, Differences(s.y, s.primary, Rival(s, k), o)))
<1> DEFINE y == s.y
           a == s.primary
           b == Rival(s, k)
<1>1. Cardinality(Of(y, o)) \in Nat
  BY Classes
<1>2. i \in Nat /\ i + 1 \in 0..Cardinality(Of(y, o)) /\ d = Tally(Draws(y, a, b, o, i))
  BY <1>1 DEF Drawn
<1>3. Convolve(d, Differences(y, a, b, o)) = Tally(Draws(y, a, b, o, i + 1))
  <2>1. y \in Labels
    OBVIOUS
  <2> HIDE DEF y, a, b
  <2> QED
    BY <1>2, <2>1, DrawsStep
<1> QED
  BY <1>2, <1>3 DEF Drawn

\* A draw of _bootstrap_sum_distribution.
LEMMA DrawsOnce == StatInv /\ (\E o \in {0, 1} : Draw(o)) => StatInv'
<1> SUFFICES ASSUME StatInv, NEW o \in {0, 1}, Draw(o) PROVE StatInv'
  OBVIOUS
<1> DEFINE k == turn + 1
<1>1. /\ pc = IF o = 1 THEN "draw positive" ELSE "draw negative"
      /\ item < Cardinality(Of(input.y, o)) /\ item' = item + 1
      /\ pc' = pc /\ input' = input /\ protocol' = protocol /\ inference' = inference
      /\ turn' = turn /\ positive' = positive
      /\ dist' = Convolve(dist, Differences(input.y, input.primary, Rival(input, k), o))
  BY DEF Draw, Size, Comparator, Rival
<1>2. /\ input \in Samples /\ protocol \in Inferences /\ inference \in Seq(Results)
      /\ turn < Len(Comparators)
      /\ JudgedTo(input, protocol, inference, turn, turn + 1)
      /\ Tested(input, protocol, inference[turn + 1], turn + 1)
      /\ Drawn(input, turn + 1, o, item, dist)
  BY <1>1 DEF StatInv
<1>3. Drawn(input, turn + 1, o, item', dist')
  BY <1>1, <1>2, OneDraw DEF JudgedTo
<1>4. CASE o = 1
  BY <1>1, <1>2, <1>3, <1>4 DEF StatInv
<1>5. CASE o = 0
  <2>1. pc = "draw negative"
    <3>1. o # 1
      BY ONLY <1>5
    <3> QED
      BY <1>1, <3>1
  <2>2. Drawn(input, turn + 1, 1, Size(1), positive)
    BY <2>1 DEF StatInv
  <2>3. Size(1)' = Size(1)
    BY <1>1 DEF Size
  <2> QED
    BY <1>1, <1>2, <1>3, <1>5, <2>1, <2>2, <2>3 DEF StatInv
<1> QED
  BY <1>4, <1>5

\* The positive class is drawn.
LEMMA PositiveEnds == StatInv /\ EndPositive => StatInv'
<1> SUFFICES ASSUME StatInv, EndPositive PROVE StatInv'
  OBVIOUS
<1> DEFINE k == turn + 1
<1>1. /\ pc = "draw positive" /\ item = Size(1) /\ item' = 0 /\ dist' = Unit
      /\ positive' = dist /\ pc' = "draw negative"
      /\ input' = input /\ protocol' = protocol /\ inference' = inference /\ turn' = turn
  BY DEF EndPositive
<1>2. /\ input \in Samples /\ protocol \in Inferences /\ inference \in Seq(Results)
      /\ turn < Len(Comparators)
      /\ JudgedTo(input, protocol, inference, turn, turn + 1)
      /\ Tested(input, protocol, inference[turn + 1], turn + 1)
      /\ Drawn(input, turn + 1, 1, item, dist)
  BY <1>1 DEF StatInv
<1>3. Drawn(input, k, 0, 0, Unit)
  <2>1. input.y \in Labels
    BY <1>2 DEF JudgedTo
  <2>2. Cardinality(Of(input.y, 0)) \in Nat
    BY <2>1, Classes
  <2>3. Tally(Draws(input.y, input.primary, Rival(input, k), 0, 0)) = Unit
    BY <2>1, DrawsStart
  <2> QED
    BY <2>2, <2>3 DEF Drawn
<1>4. Size(1)' = Size(1)
  BY <1>1 DEF Size
<1> QED
  BY <1>1, <1>2, <1>3, <1>4 DEF StatInv

\* The interval of one comparator; then the next, or the gate.
LEMMA Intervals == StatInv /\ Interval => StatInv'
<1> SUFFICES ASSUME StatInv, Interval PROVE StatInv'
  OBVIOUS
<1> DEFINE y == input.y
           a == input.primary
           k == turn + 1
           b == Rival(input, k)
           P == Cardinality(Of(y, 1))
           N == Cardinality(Of(y, 0))
           d == Combined(positive, dist, P, N)
           total == Power(P, P) * Power(N, N)
           lower == DistributionQuantile(d, total, Outside(protocol))
           upper == DistributionQuantile(d, total, SCALE - Outside(protocol))
           r == inference[k]
           s == [[r EXCEPT !.lower = lower] EXCEPT !.upper = upper]
<1>1. /\ pc = "draw negative" /\ item = N /\ turn' = k
      /\ item' = 0 /\ dist' = Unit
      /\ pc' = IF turn' < Len(Comparators) THEN "randomize" ELSE "conclude"
      /\ input' = input /\ protocol' = protocol
  BY DEF Interval, Size
<1>2. inference' = [inference EXCEPT ![k].lower = lower, ![k].upper = upper]
  BY DEF Interval, Size, Outside
<1>3. /\ input \in Samples /\ protocol \in Inferences /\ inference \in Seq(Results)
      /\ turn < Len(Comparators)
      /\ JudgedTo(input, protocol, inference, turn, k)
      /\ Tested(input, protocol, r, k)
      /\ Drawn(input, k, 1, P, positive)
      /\ Drawn(input, k, 0, N, dist)
  BY <1>1 DEF StatInv, Size
<1>4. /\ Len(Comparators) \in Nat \ {0}
      /\ Outside(protocol) \in 0..SCALE /\ SCALE - Outside(protocol) \in 0..SCALE
  BY <1>3, SampleTypes
<1>5. /\ y \in Labels /\ Len(inference) = k /\ turn \in Nat
      /\ \A j \in 1..turn : Judged(input, protocol, inference[j], j)
  BY <1>3, <1>4 DEF JudgedTo
<1>6. d = Combined(Tally(Draws(y, a, b, 1, P)), Tally(Draws(y, a, b, 0, N)), P, N)
  BY <1>3 DEF Drawn
<1> HIDE DEF r
<1>7. /\ lower \in Int /\ ResampleQuantile(y, a, b, lower, Outside(protocol))
      /\ upper \in Int /\ ResampleQuantile(y, a, b, upper, SCALE - Outside(protocol))
  <2>1. \A q \in 0..SCALE : LET v == DistributionQuantile(d, total, q)
                            IN v \in Int /\ ResampleQuantile(y, a, b, v, q)
    <3> TAKE q \in 0..SCALE
    <3> DEFINE v == DistributionQuantile(d, total, q)
    <3>1. v = DistributionQuantile(Combined(Tally(Draws(y, a, b, 1, Cardinality(Of(y, 1)))),
                                            Tally(Draws(y, a, b, 0, Cardinality(Of(y, 0)))),
                                            Cardinality(Of(y, 1)), Cardinality(Of(y, 0))),
                                   Power(Cardinality(Of(y, 1)), Cardinality(Of(y, 1)))
                                      * Power(Cardinality(Of(y, 0)), Cardinality(Of(y, 0))), q)
      BY <1>6
    <3> HIDE DEF v, d, total, y, a, b, P, N
    <3>2. v \in Int /\ ResampleQuantile(y, a, b, v, q)
      BY <1>5, <3>1, IntervalIs
    <3> QED
      BY <3>2 DEF v
  <2> HIDE DEF d, total, y, a, b
  <2> QED
    BY <1>4, <2>1
<1> HIDE DEF lower, upper
<1>8. r \in Results
  BY <1>3, <1>5 DEF r
<1>9. /\ s \in Results /\ s.lower = lower /\ s.upper = upper
      /\ s.extreme = r.extreme /\ s.total = r.total
      /\ s.micros = r.micros /\ s.significant = r.significant
  BY <1>7, <1>8 DEF Results
<1> HIDE DEF s
<1>10. Judged(input, protocol, s, k)
  <2>1. Tested(input, protocol, s, k)
    BY <1>3, <1>9 DEF Tested
  <2>2. Bounded(input, protocol, s, k)
    BY <1>7, <1>9 DEF Bounded
  <2> QED
    BY <2>1, <2>2 DEF Judged
<1>11. inference' = [inference EXCEPT ![k] = s]
  BY <1>2, <1>3, <1>5 DEF s, r
<1>12. /\ inference' \in Seq(Results) /\ Len(inference') = k /\ inference'[k] = s
       /\ \A j \in 1..turn : inference'[j] = inference[j]
  BY <1>3, <1>5, <1>9, <1>11
<1>13. k \in 0..Len(Comparators)
  BY <1>3, <1>4, <1>5
<1>14. JudgedTo(input, protocol, inference', k, k)
  <2>1. \A j \in 1..k : j = k \/ j \in 1..turn
    BY <1>5
  <2>2. \A j \in 1..k : Judged(input, protocol, inference'[j], j)
    BY <2>1, <1>5, <1>10, <1>12
  <2> QED
    BY <1>5, <1>12, <1>13, <2>2 DEF JudgedTo
<1>15. CASE k < Len(Comparators)
  <2>1. Randomized(input, k + 1, 0, Unit)
    <3>1. Len(y) \in Nat /\ Tally(Walk(y, a, Rival(input, k + 1), 0)) = Unit
      BY <1>5, WalkStart, Sessions
    <3> QED
      BY <3>1 DEF Randomized
  <2> QED
    BY <1>1, <1>3, <1>12, <1>14, <1>15, <2>1 DEF StatInv
<1>16. CASE ~(k < Len(Comparators))
  <2>1. k = Len(Comparators)
    BY <1>13, <1>16, <1>4
  <2> QED
    BY <1>1, <1>3, <1>12, <1>14, <1>16, <2>1 DEF StatInv
<1> QED
  BY <1>15, <1>16

\* A sample is ranked above another on its comparators as on exact differences.
LEMMA GainShows ==
    ASSUME NEW y \in Labels, 3 * Cardinality(Of(y, 0)) * Cardinality(Of(y, 1)) <= SCALE,
           NEW a, NEW b, Delta(y, a, b) > 0
    PROVE  Classification(y, a).balanced > Classification(y, b).balanced
<1> DEFINE P == Cardinality(Of(y, 1))
           N == Cardinality(Of(y, 0))
           k1 == Hits(y, a, 1)
           k0 == Hits(y, a, 0)
           h1 == Hits(y, b, 1)
           h0 == Hits(y, b, 0)
<1>1. /\ P \in Nat \ {0} /\ N \in Nat \ {0} /\ k1 \in Nat /\ k0 \in Nat
      /\ Classification(y, a).balanced = (Rate(k1, P) + Rate(k0, N)) \div 2
      /\ (Rate(k1, P) + Rate(k0, N)) \div 2 \in Nat
  BY Rates
<1>2. /\ h1 \in Nat /\ h0 \in Nat
      /\ Classification(y, b).balanced = (Rate(h1, P) + Rate(h0, N)) \div 2
      /\ (Rate(h1, P) + Rate(h0, N)) \div 2 \in Nat
  BY Rates
<1>3. N * (k1 - h1) + P * (k0 - h0) > 0
  BY DEF Delta
<1>4. 3 * N * P <= SCALE
  OBVIOUS
<1> HIDE DEF P, N, k1, k0, h1, h0
<1>5. N * h1 + P * h0 < N * k1 + P * k0
  <2>1. N * (k1 - h1) = N * k1 - N * h1 /\ P * (k0 - h0) = P * k0 - P * h0
    BY <1>1, <1>2
  <2>2. N * k1 \in Int /\ N * h1 \in Int /\ P * k0 \in Int /\ P * h0 \in Int
    BY <1>1, <1>2
  <2> QED
    BY <1>3, <2>1, <2>2
<1>6. (Rate(h1, P) + Rate(h0, N)) \div 2 < (Rate(k1, P) + Rate(k0, N)) \div 2
  BY <1>1, <1>2, <1>4, <1>5, GainRounds
<1> QED
  BY <1>1, <1>2, <1>6

\* Scaling both sides by what counts the concordant sessions changes no comparison.
LEMMA Scaled ==
    ASSUME NEW x \in Nat, NEW t \in Nat, NEW r \in Nat \ {0}, NEW c \in Nat, NEW d \in Nat
    PROVE  (x * r) * c <= d * (t * r) <=> x * c <= d * t
<1> DEFINE u == x * c
           v == d * t
<1>1. (x * r) * c = u * r /\ d * (t * r) = v * r /\ u \in Nat /\ v \in Nat
  OBVIOUS
<1> HIDE DEF u, v
<1>2. u <= v => u * r <= v * r
  BY <1>1
<1>3. ASSUME v + 1 <= u PROVE v * r < u * r
  <2>1. (v + 1) * r <= u * r
    BY <1>1, <1>3
  <2>2. (v + 1) * r = v * r + r /\ v * r \in Nat /\ u * r \in Nat
    BY <1>1
  <2> QED
    BY <2>1, <2>2
<1>4. v * r \in Nat /\ u * r \in Nat
  BY <1>1
<1> QED
  BY <1>1, <1>2, <1>3, <1>4 DEF u, v

\* 2 to the n is natural.
LEMMA CountsNat ==
    ASSUME NEW y, NEW a, NEW b, NEW x, NEW t, CountsExchanges(y, a, b, x, t),
           NEW c \in Nat, NEW d \in Nat
    PROVE  /\ Exchanges(y, a, b) * c <= d * 2^Len(y) <=> x * c <= d * t
           /\ x * 2^Len(y) = Exchanges(y, a, b) * t
<1>1. PICK r \in Nat \ {0} : Exchanges(y, a, b) = x * r /\ 2^Len(y) = t * r
  BY DEF CountsExchanges
<1>2. x \in Nat /\ t \in Nat
  BY DEF CountsExchanges
<1>3. (x * r) * c <= d * (t * r) <=> x * c <= d * t
  BY <1>1, <1>2, Scaled
<1>4. x * (t * r) = (x * r) * t
  BY <1>1, <1>2
<1> QED
  BY <1>1, <1>3, <1>4

\* The gate: rounded accuracies and discordant sessions decide it as exact ones and all do.
LEMMA Concludes == StatInv /\ Conclude => StatInv'
<1> SUFFICES ASSUME StatInv, Conclude PROVE StatInv'
  OBVIOUS
<1> DEFINE y == input.y
           a == input.primary
           K == DOMAIN Comparators
           clears == \A k \in K : /\ Classification(y, a).balanced
                                        > Classification(y, Rival(input, k)).balanced
                                  /\ inference[k].significant
           exact == \A k \in K :
                        /\ Delta(y, a, Rival(input, k)) > 0
                        /\ Exchanges(y, a, Rival(input, k)) * SCALE <= protocol.alpha * 2^Len(y)
<1>1. /\ pc = "conclude" /\ pc' = "concluded"
      /\ input' = input /\ protocol' = protocol /\ inference' = inference /\ turn' = turn
      /\ disposition' = IF clears THEN "PRIMARY_SIGNAL_CLEARS_PREREGISTERED_GATE"
                                  ELSE "DOES_NOT_CLEAR_PREREGISTERED_GATE"
  BY DEF Conclude, Rival
<1>2. /\ input \in Samples /\ protocol \in Inferences /\ inference \in Seq(Results)
      /\ JudgedTo(input, protocol, inference, Len(Comparators), turn)
  BY <1>1 DEF StatInv
<1>3. /\ K = 1..Len(Comparators) /\ protocol.alpha \in Nat /\ SCALE \in Nat
      /\ 3 * Cardinality(Of(y, 0)) * Cardinality(Of(y, 1)) <= SCALE
  BY <1>2, SampleTypes
<1>4. /\ y \in Labels
      /\ \A k \in K : Tested(input, protocol, inference[k], k)
  BY <1>2, <1>3 DEF JudgedTo, Judged
<1>5. ASSUME NEW k \in K
      PROVE  /\ inference[k].significant <=>
                    /\ Delta(y, a, Rival(input, k)) > 0
                    /\ Exchanges(y, a, Rival(input, k)) * SCALE <= protocol.alpha * 2^Len(y)
             /\ Delta(y, a, Rival(input, k)) > 0 =>
                    Classification(y, a).balanced > Classification(y, Rival(input, k)).balanced
  <2> DEFINE b == Rival(input, k)
             r == inference[k]
  <2>1. /\ CountsExchanges(y, a, b, r.extreme, r.total)
        /\ r.significant <=> Delta(y, a, b) > 0 /\ r.extreme * SCALE <= protocol.alpha * r.total
    BY <1>4, <1>5 DEF Tested
  <2> HIDE DEF y, a, b, r
  <2>2. Exchanges(y, a, b) * SCALE <= protocol.alpha * 2^Len(y)
           <=> r.extreme * SCALE <= protocol.alpha * r.total
    BY <2>1, <1>3, CountsNat
  <2>3. Delta(y, a, b) > 0 => Classification(y, a).balanced > Classification(y, b).balanced
    BY <1>3, <1>4, GainShows
  <2> QED
    BY <2>1, <2>2, <2>3 DEF b, r
<1>6. clears <=> exact
  BY <1>5
<1>7. GateExact' <=> (disposition' = "PRIMARY_SIGNAL_CLEARS_PREREGISTERED_GATE" <=> exact)
  BY <1>1 DEF GateExact, Rival
<1>8. GateExact'
  <2> HIDE DEF clears, exact
  <2> QED
    BY <1>1, <1>6, <1>7
<1> HIDE DEF clears, exact
<1> QED
  BY <1>1, <1>2, <1>8 DEF StatInv

LEMMA StatInit == Init => StatInv
<1> SUFFICES ASSUME Init PROVE StatInv
  OBVIOUS
<1>1. CASE input \in Fits /\ pc = "fit"
  BY <1>1 DEF StatInv
<1>2. CASE input \in Samples /\ pc = "evaluate"
  <2>1. inference = <<>> /\ protocol \in Inferences /\ turn = 0 /\ item = 0 /\ dist = Unit
    BY DEF Init
  <2>2. inference \in Seq(Results)
    BY <2>1
  <2> QED
    BY <1>2, <2>1, <2>2 DEF StatInv
<1> QED
  BY <1>1, <1>2 DEF Init

\* No step breaks the invariant.
LEMMA StatStep == StatInv /\ [Next]_vars => StatInv'
<1> SUFFICES ASSUME StatInv, [Next]_vars PROVE StatInv'
  OBVIOUS
<1>1. CASE TryThreshold
  BY <1>1 DEF TryThreshold, StatInv
<1>2. CASE Classify
  BY <1>2, Classified
<1>3. CASE Randomize
  BY <1>3, Walked
<1>4. CASE EndRandomization
  BY <1>4, Randomizes
<1>5. CASE \E o \in {0, 1} : Draw(o)
  BY <1>5, DrawsOnce
<1>6. CASE EndPositive
  BY <1>6, PositiveEnds
<1>7. CASE Interval
  BY <1>7, Intervals
<1>8. CASE Conclude
  BY <1>8, Concludes
<1>9. CASE UNCHANGED vars
  BY <1>9 DEF vars, StatInv, GateExact, Size
<1> QED
  BY <1>1, <1>2, <1>3, <1>4, <1>5, <1>6, <1>7, <1>8, <1>9 DEF Next

\* What the invariant says at the end.
LEMMA StatExact == StatInv => InferenceExact
<1> SUFFICES ASSUME StatInv, pc = "concluded", disposition # "INSUFFICIENT_SAMPLE"
             PROVE  GateExact /\ \A k \in DOMAIN Comparators : PValueExact(k) /\ IntervalExact(k)
  BY DEF InferenceExact
<1>1. /\ input \in Samples /\ protocol \in Inferences /\ inference \in Seq(Results)
      /\ GateExact
      /\ JudgedTo(input, protocol, inference, Len(Comparators), turn)
  BY DEF StatInv
<1>2. /\ DOMAIN Comparators = 1..Len(Comparators)
      /\ protocol.alpha \in Nat /\ SCALE \in Nat
  BY <1>1, SampleTypes
<1>3. ASSUME NEW k \in DOMAIN Comparators PROVE PValueExact(k) /\ IntervalExact(k)
  <2> DEFINE y == input.y
             a == input.primary
             b == Rival(input, k)
             r == inference[k]
  <2>1. Tested(input, protocol, r, k) /\ Bounded(input, protocol, r, k)
    BY <1>1, <1>2, <1>3 DEF JudgedTo, Judged
  <2>2. /\ CountsExchanges(y, a, b, r.extreme, r.total)
        /\ r.micros = CeilRatio(r.extreme * SCALE, r.total)
    BY <2>1 DEF Tested
  <2>3. r.extreme \in Nat /\ r.total \in Nat \ {0}
    BY <2>2 DEF CountsExchanges
  <2>4. r.extreme * 2^Len(y) = Exchanges(y, a, b) * r.total
    <3> HIDE DEF y, a, b, r
    <3> QED
      BY <1>2, <2>2, CountsNat
  <2>5. r.micros <= protocol.alpha <=> r.extreme * SCALE <= protocol.alpha * r.total
    <3> HIDE DEF r
    <3>1. r.extreme * SCALE \in Int /\ protocol.alpha \in Int
      BY <1>2, <2>3
    <3> QED
      BY <2>2, <2>3, <3>1, CeilIs
  <2>6. PValueExact(k)
    BY <2>4, <2>5 DEF PValueExact, Rival
  <2>7. IntervalExact(k)
    BY <2>1 DEF IntervalExact, Bounded, ResampleQuantile, Outside, Rival
  <2> QED
    BY <2>6, <2>7
<1> QED
  BY <1>1, <1>3

\* Built session by session and draw by draw from distributions, weights and rounded
\* rates, the verdict, the p-values and the intervals are those of the definitions over
\* all exchanges and all resamples of whole sessions.
THEOREM InferenceIsExact == Spec => []InferenceExact
<1> QED
  BY StatInit, StatStep, StatExact, PTL DEF Spec
=============================================================================
