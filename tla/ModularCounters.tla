-------------------------- MODULE ModularCounters --------------------------
(***************************************************************************)
(* Lemmas about counters that wrap.  The FIFO code keeps its counters as    *)
(* u32 and takes wrapping differences and remainders of them; these facts   *)
(* say when that is the same as counting without a bound.  The last ones are *)
(* the division by two and the induction that words of bits need.           *)
(***************************************************************************)
EXTENDS Integers, TLAPS, WellFoundedInduction

\* Division with remainder by a positive divisor.
LEMMA DivMod ==
  ASSUME NEW a \in Int, NEW n \in Nat \ {0}
  PROVE  /\ a = n * (a \div n) + (a % n)
         /\ a % n \in 0..(n - 1)
         /\ a \div n \in Int
  BY Z3

\* A multiple of n strictly between -n and n is 0.
LEMMA SmallMultiple ==
  ASSUME NEW n \in Nat \ {0}, NEW q \in Int, n * q < n, n * q > -n
  PROVE  q = 0
<1>1. q >= 1 => n * q >= n
  BY Z3
<1>2. q <= -1 => n * q <= -n
  BY Z3
<1> QED
  BY <1>1, <1>2

\* Quotient and remainder are unique.
LEMMA ModUnique ==
  ASSUME NEW n \in Nat \ {0}, NEW q \in Int, NEW r \in 0..(n - 1),
         NEW a \in Int, a = n * q + r
  PROVE  a % n = r
<1>1. /\ a = n * (a \div n) + (a % n)
      /\ a % n \in 0..(n - 1)
      /\ a \div n \in Int
  BY DivMod
<1>2. n * (q - (a \div n)) = (a % n) - r
  BY <1>1
<1>3. q - (a \div n) = 0
  <2>1. n * (q - (a \div n)) < n /\ n * (q - (a \div n)) > -n
    BY <1>1, <1>2
  <2> QED
    BY <1>1, <2>1, SmallMultiple
<1> QED
  BY <1>1, <1>3

\* A wrapping counter counts: the remainder of a sum only needs the remainder of
\* its first term.
LEMMA WrappingAdd ==
  ASSUME NEW a \in Int, NEW b \in Int, NEW n \in Nat \ {0}
  PROVE  ((a % n) + b) % n = (a + b) % n
<1> DEFINE q == (a + b) \div n
           r == (a + b) % n
           p == a \div n
<1>1. a + b = n * q + r /\ r \in 0..(n - 1) /\ q \in Int
  BY DivMod
<1>2. a = n * p + (a % n) /\ p \in Int /\ a % n \in Int
  BY DivMod
<1> HIDE DEF p, q, r
<1>3. (a % n) + b = n * (q - p) + r
  BY <1>1, <1>2
<1>4. ((a % n) + b) % n = r
  <2> DEFINE sum == (a % n) + b
             d == q - p
  <2>1. sum \in Int /\ d \in Int /\ sum = n * d + r /\ r \in 0..(n - 1)
    BY <1>1, <1>2, <1>3
  <2> HIDE DEF sum, d
  <2>2. sum % n = r
    BY <2>1, ModUnique
  <2> QED
    BY <2>2 DEF sum
<1> QED
  BY <1>4 DEF r

\* The wrapping difference of two counters less than a span apart is their
\* difference.
LEMMA WrappingSub ==
  ASSUME NEW a \in Int, NEW b \in Int, NEW n \in Nat \ {0}, b <= a, a - b < n
  PROVE  ((a % n) - (b % n)) % n = a - b
<1>1. a = n * (a \div n) + (a % n) /\ a \div n \in Int /\ a % n \in Int
  BY DivMod
<1>2. b = n * (b \div n) + (b % n) /\ b \div n \in Int /\ b % n \in Int
  BY DivMod
<1> DEFINE q == (b \div n) - (a \div n)
<1>3. (a % n) - (b % n) = n * q + (a - b) /\ q \in Int
  BY <1>1, <1>2
<1> HIDE DEF q
<1>4. a - b \in 0..(n - 1)
  OBVIOUS
<1> QED
  BY <1>1, <1>2, <1>3, <1>4, ModUnique

\* The ring index of a wrapped counter is the ring index of the count, when the
\* ring's size divides the span.
LEMMA RingIndex ==
  ASSUME NEW a \in Int, NEW n \in Nat \ {0}, NEW s \in Nat \ {0}, s % n = 0
  PROVE  (a % s) % n = a % n
<1>1. s = n * (s \div n) /\ s \div n \in Int
  BY DivMod
<1>2. a = s * (a \div s) + (a % s) /\ a \div s \in Int /\ a % s \in Int
  BY DivMod
<1>3. a = n * (a \div n) + (a % n) /\ a % n \in 0..(n - 1) /\ a \div n \in Int
  BY DivMod
<1> DEFINE m == s \div n
           p == a \div s
           q == (a \div n) - (m * p)
<1>4. m \in Int /\ p \in Int /\ m * p \in Int /\ q \in Int
  BY <1>1, <1>2, <1>3
<1>5. s * p = n * (m * p)
  <2>1. s = n * m /\ m \in Int /\ p \in Int
    BY <1>1, <1>2
  <2> HIDE DEF m, p
  <2> QED
    BY <2>1, Z3
<1>6. n * q = n * (a \div n) - n * (m * p)
  <2> DEFINE x == a \div n
             y == m * p
  <2>1. x \in Int /\ y \in Int
    BY <1>3, <1>4
  <2> HIDE DEF x, y
  <2>2. n * (x - y) = n * x - n * y
    BY <2>1, Z3
  <2> QED
    BY <2>2 DEF x, y
<1>7. a % s = n * q + (a % n)
  <2> DEFINE u == n * (a \div n)
             w == n * (m * p)
  <2>1. u \in Int /\ w \in Int
    BY <1>3, <1>4
  <2>2. a = w + (a % s) /\ a = u + (a % n) /\ n * q = u - w
    BY <1>2, <1>3, <1>5, <1>6
  <2> HIDE DEF u, w
  <2> QED
    BY <2>1, <2>2, <1>2, <1>3
<1> DEFINE rest == a % s
           index == a % n
<1>8. rest \in Int /\ index \in 0..(n - 1) /\ q \in Int /\ rest = n * q + index
  BY <1>2, <1>3, <1>4, <1>7
<1> HIDE DEF q, rest, index
<1>9. rest % n = index
  BY <1>8, ModUnique
<1> QED
  BY <1>9 DEF rest, index

\* Positions less than a ring apart have different ring indices.
LEMMA RingDistinct ==
  ASSUME NEW a \in Int, NEW b \in Int, NEW n \in Nat \ {0},
         a % n = b % n, a - b < n, b - a < n
  PROVE  a = b
<1>1. a = n * (a \div n) + (a % n) /\ a \div n \in Int /\ a % n \in Int
  BY DivMod
<1>2. b = n * (b \div n) + (b % n) /\ b \div n \in Int /\ b % n \in Int
  BY DivMod
<1> DEFINE q == (a \div n) - (b \div n)
<1>3. n * q = a - b /\ q \in Int
  BY <1>1, <1>2
<1> HIDE DEF q
<1>4. q = 0
  BY <1>3, SmallMultiple
<1> QED
  BY <1>3, <1>4
-----------------------------------------------------------------------------
\* The quotient is unique too.
LEMMA DivUnique ==
  ASSUME NEW n \in Nat \ {0}, NEW q \in Int, NEW r \in 0..(n - 1),
         NEW a \in Int, a = n * q + r
  PROVE  a \div n = q
<1>1. /\ a = n * (a \div n) + (a % n)
      /\ a % n \in 0..(n - 1)
      /\ a \div n \in Int
  BY DivMod
<1>2. n * (q - (a \div n)) = (a % n) - r
  BY <1>1
<1>3. q - (a \div n) = 0
  <2>1. n * (q - (a \div n)) < n /\ n * (q - (a \div n)) > -n
    BY <1>1, <1>2
  <2> QED
    BY <1>1, <2>1, SmallMultiple
<1> QED
  BY <1>1, <1>3

\* Halving a number moves its bits down by one.
LEMMA Halving ==
  ASSUME NEW u \in Nat, NEW m \in Nat \ {0}, NEW n \in Nat, n = 2 * m
  PROVE  u \div n = (u \div 2) \div m
<1> DEFINE h == u \div 2
           p == h \div m
           r == h % m
           s == u % 2
<1>1. u = 2 * h + s /\ s \in 0..1 /\ h \in Int
  OBVIOUS
<1> HIDE DEF h, s
<1>2. h = m * p + r /\ r \in 0..(m - 1) /\ p \in Int
  BY <1>1, DivMod
<1> HIDE DEF p, r
<1>3. n * p = 2 * (m * p) /\ m * p \in Int
  BY <1>2, Z3
<1>4. u = n * p + (2 * r + s) /\ 2 * r + s \in 0..(n - 1) /\ n # 0
  <2> DEFINE mp == m * p
             np == n * p
  <2>1. np = 2 * mp /\ mp \in Int /\ h = mp + r
    BY <1>2, <1>3
  <2> HIDE DEF mp, np
  <2>2. u = np + (2 * r + s) /\ 2 * r + s \in 0..(n - 1) /\ n # 0
    BY <1>1, <1>2, <2>1
  <2> QED
    BY <2>2 DEF np
<1>5. u \div n = p
  <2> DEFINE t == 2 * r + s
  <2>1. t \in 0..(n - 1) /\ u = n * p + t /\ n \in Nat \ {0} /\ u \in Int /\ p \in Int
    BY <1>4, <1>2
  <2> HIDE DEF t
  <2> QED
    BY <2>1, DivUnique
<1> QED
  BY <1>5 DEF p, h

\* A set of naturals that is not empty has a least element.
LEMMA LeastElement ==
  ASSUME NEW S \in SUBSET Nat, S # {}
  PROVE  \E x \in S : \A y \in S : ~(y < x)
<1> DEFINE R == OpToRel(<, Nat)
<1>1. IsWellFoundedOn(R, Nat)
  BY NatLessThanWellFounded, Zenon
<1> HIDE DEF R
<1>2. PICK x \in S : \A y \in S : ~ (<<y, x>> \in R)
  BY <1>1, WFMin, Zenon
<1>3. \A y \in S : y < x => <<y, x>> \in R
  BY Zenon DEF R, OpToRel
<1> QED
  BY <1>2, <1>3, Zenon

\* Induction over an initial segment of the naturals, as a fact about sets.
LEMMA SegmentInduction ==
  ASSUME NEW n \in Nat, NEW S, 0 \in S, \A k \in 0..(n - 1) : k \in S => k + 1 \in S
  PROVE  \A k \in 0..n : k \in S
<1> DEFINE Bad == {k \in 0..n : k \notin S}
<1> SUFFICES ASSUME Bad # {} PROVE FALSE
  OBVIOUS
<1>1. PICK x \in Bad : \A y \in Bad : ~(y < x)
  <2>1. Bad \in SUBSET Nat
    OBVIOUS
  <2> HIDE DEF Bad
  <2> QED
    BY <2>1, LeastElement
<1>2. x # 0 /\ x - 1 \in 0..(n - 1) /\ x = (x - 1) + 1
  BY <1>1
<1>3. x - 1 \in S
  BY <1>1, <1>2
<1> QED
  BY <1>1, <1>2, <1>3
=============================================================================
