---------------------------- MODULE NumberFacts -----------------------------
(***************************************************************************)
(* Facts about numbers that the proofs share: the least element of a set   *)
(* of naturals, and % with a symbolic modulus, for the two rings of the    *)
(* program, the frame queue and the audio ring.                            *)
(***************************************************************************)
EXTENDS Integers, WellFoundedInduction, TLAPS

\* A non-empty set of naturals has a least element.
LEMMA LeastNatural ==
  ASSUME NEW T, T \subseteq Nat, T # {}
  PROVE  \E x \in T : \A y \in T : x <= y
<1> DEFINE R == OpToRel(<, Nat)
<1>1. \E x \in T : \A y \in T : <<y, x>> \notin R
  BY NatLessThanWellFounded, WFMin
<1>2. R = { ss \in Nat \X Nat : ss[1] < ss[2] }
  BY DEF OpToRel
<1> HIDE DEF R
<1>3. \A x, y \in Nat : <<y, x>> \notin R => x <= y
  BY <1>2
<1> QED
  BY <1>1, <1>3

-----------------------------------------------------------------------------
(* Division.                                                               *)

\* The quotient and remainder of a division, in the form the proofs use.
LEMMA Division ==
  ASSUME NEW n \in Nat \ {0}, NEW a \in Int
  PROVE  /\ a % n \in 0 .. n - 1
         /\ a \div n \in Int
         /\ a = n * (a \div n) + (a % n)
OBVIOUS

\* A remainder is determined by the decomposition it comes from.
LEMMA QuotientUnique ==
  ASSUME NEW n \in Nat \ {0}, NEW p \in Int, NEW q \in Int,
         NEW r \in 0 .. n - 1, NEW s \in 0 .. n - 1,
         n * p + r = n * q + s
  PROVE  r = s
<1>1. n * (p - q) = s - r
  OBVIOUS
<1>2. CASE p = q
  BY <1>1, <1>2
<1>3. CASE p - q >= 1
  <2>1. n * (p - q) >= n
    BY <1>3
  <2>2. QED
    BY <1>1, <2>1
<1>4. CASE q - p >= 1
  <2>1. n * (q - p) >= n
    BY <1>4
  <2>2. n * (q - p) = r - s
    BY <1>1
  <2>3. QED
    BY <2>1, <2>2
<1>5. QED
  BY <1>2, <1>3, <1>4

\* So whatever decomposes as a remainder is the remainder.
LEMMA ModUnique ==
  ASSUME NEW n \in Nat \ {0}, NEW a \in Int, NEW q \in Int,
         NEW r \in 0 .. n - 1, a = n * q + r
  PROVE  a % n = r
<1>1. /\ a % n \in 0 .. n - 1
      /\ a \div n \in Int
      /\ a = n * (a \div n) + (a % n)
  BY Division
<1>2. QED
  BY <1>1, QuotientUnique

\* Whole turns do not change a remainder.
LEMMA ModShift ==
  ASSUME NEW n \in Nat \ {0}, NEW a \in Int, NEW q \in Int
  PROVE  (a + n * q) % n = a % n
<1> DEFINE d == a \div n
           r == a % n
<1>1. r \in 0 .. n - 1 /\ d \in Int /\ a = n * d + r
  BY Division
<1> HIDE DEF d, r
<1>2. n * d + n * q = n * (d + q)
  BY <1>1
<1>3. a + n * q = n * (d + q) + r
  BY <1>1, <1>2
<1>4. a + n * q \in Int /\ d + q \in Int
  BY <1>1
<1>5. (a + n * q) % n = r
  BY <1>1, <1>3, <1>4, ModUnique
<1>6. QED
  BY <1>5 DEF r

\* Within one turn of the ring, equal slots are equal positions.
LEMMA SlotsDistinct ==
  ASSUME NEW n \in Nat \ {0}, NEW a \in Int,
         NEW j \in 0 .. n - 1, NEW k \in 0 .. n - 1,
         (a + j) % n = (a + k) % n
  PROVE  j = k
<1> DEFINE p == (a + j) \div n
           q == (a + k) \div n
           r == (a + j) % n
<1>1. /\ r \in 0 .. n - 1
      /\ p \in Int
      /\ a + j = n * p + r
  BY Division
<1>2. /\ q \in Int
      /\ a + k = n * q + r
  <2>1. (a + k) % n = r
    OBVIOUS
  <2>2. a + k \in Int
    OBVIOUS
  <2>3. q \in Int /\ a + k = n * q + ((a + k) % n)
    BY <2>2, Division
  <2>4. QED
    BY <2>1, <2>3
<1> HIDE DEF p, q, r
<1>3. n * (p - q) = j - k
  BY <1>1, <1>2
<1>4. CASE p = q
  BY <1>1, <1>2, <1>3, <1>4
<1>5. CASE p - q >= 1
  <2>1. n * (p - q) >= n
    BY <1>1, <1>2, <1>5
  <2>2. QED
    BY <1>3, <2>1
<1>6. CASE q - p >= 1
  <2>1. n * (q - p) >= n
    BY <1>1, <1>2, <1>6
  <2>2. n * (q - p) = k - j
    BY <1>1, <1>2, <1>3
  <2>3. QED
    BY <2>1, <2>2
<1>7. QED
  BY <1>1, <1>2, <1>4, <1>5, <1>6

\* The three cases an increment or a difference of indices needs.
LEMMA ModSmall ==
  ASSUME NEW n \in Nat \ {0}, NEW a \in 0 .. n - 1
  PROVE  a % n = a
<1>1. a = n * 0 + a
  OBVIOUS
<1>2. QED
  BY <1>1, ModUnique

\* One turn too far comes back by one turn.
LEMMA ModWrap ==
  ASSUME NEW n \in Nat \ {0}, NEW a \in n .. 2 * n - 1
  PROVE  a % n = a - n
<1>1. a = n * 1 + (a - n)
  OBVIOUS
<1>2. QED
  BY <1>1, ModUnique

\* Less than one turn below zero comes up by one turn.
LEMMA ModNegative ==
  ASSUME NEW n \in Nat \ {0}, NEW a \in Int, -n <= a, a < 0
  PROVE  a % n = a + n
<1>1. a = n * (-1) + (a + n)
  OBVIOUS
<1>2. a + n \in 0 .. n - 1
  OBVIOUS
<1>3. QED
  BY <1>1, <1>2, ModUnique

\* A remainder never exceeds what it remains of.
LEMMA ModAtMost ==
  ASSUME NEW n \in Nat \ {0}, NEW a \in Nat
  PROVE  a % n <= a
<1> DEFINE q == a \div n
           r == a % n
<1>1. r \in 0 .. n - 1 /\ q \in Int /\ a = n * q + r
  BY Division
<1> HIDE DEF q, r
<1>2. CASE q >= 0
  <2>1. n * q >= 0
    BY <1>2, <1>1
  <2>2. QED
    BY <1>1, <2>1 DEF r
<1>3. CASE q <= -1
  <2>1. n * (q + 1) <= 0
    BY <1>1, <1>3
  <2>2. n * q = n * (q + 1) - n
    BY <1>1
  <2>3. QED
    BY <1>1, <2>1, <2>2
<1>4. QED
  BY <1>1, <1>2, <1>3

\* Numbers with the same remainder are whole turns apart, so one that is less
\* than a turn behind the other is not behind it at all.
LEMMA ModDifference ==
  ASSUME NEW n \in Nat \ {0}, NEW a \in Int, NEW b \in Int,
         a % n = b % n
  PROVE  /\ (a - b) % n = 0
         /\ a - b > -n => a - b >= 0
<1> DEFINE p == a \div n
           q == b \div n
           r == a % n
<1>1. r \in 0 .. n - 1 /\ p \in Int /\ a = n * p + r
  BY Division
<1>2. q \in Int /\ b = n * q + r
  <2>1. b = n * (b \div n) + (b % n) /\ b \div n \in Int
    BY Division
  <2>2. QED
    BY <2>1
<1> HIDE DEF p, q, r
<1>3. a - b = n * (p - q)
  BY <1>1, <1>2
<1>4. (a - b) % n = 0
  <2>1. 0 \in 0 .. n - 1 /\ p - q \in Int /\ a - b \in Int /\ a - b = n * (p - q) + 0
    BY <1>1, <1>2, <1>3
  <2>2. QED
    BY <2>1, ModUnique
<1>5. CASE p - q >= 0
  <2>1. n * (p - q) >= 0
    BY <1>1, <1>2, <1>5
  <2>2. QED
    BY <1>3, <1>4, <2>1
<1>6. CASE q - p >= 1
  <2>1. n * (q - p) >= n
    BY <1>1, <1>2, <1>6
  <2>2. n * (q - p) = b - a
    BY <1>1, <1>2
  <2>3. QED
    BY <1>4, <2>1, <2>2
<1>7. QED
  BY <1>1, <1>2, <1>5, <1>6

\* Counting on by one: the next remainder, or zero at the end of a turn.
LEMMA ModNext ==
  ASSUME NEW n \in Nat \ {0}, NEW a \in Int
  PROVE  (a + 1) % n = IF (a % n) + 1 >= n THEN 0 ELSE (a % n) + 1
<1> DEFINE q == a \div n
           r == a % n
<1>1. r \in 0 .. n - 1 /\ q \in Int /\ a = n * q + r
  BY Division
<1> HIDE DEF q, r
<1>2. CASE r + 1 >= n
  <2>1. n * (q + 1) = n * q + n
    BY <1>1
  <2>2. a + 1 = n * (q + 1) + 0
    BY <1>1, <1>2, <2>1
  <2>3. 0 \in 0 .. n - 1 /\ q + 1 \in Int /\ a + 1 \in Int
    BY <1>1
  <2>4. (a + 1) % n = 0
    BY <2>2, <2>3, ModUnique
  <2>5. QED
    BY <1>2, <2>4 DEF r
<1>3. CASE r + 1 < n
  <2>1. a + 1 = n * q + (r + 1) /\ r + 1 \in 0 .. n - 1 /\ a + 1 \in Int
    BY <1>1, <1>3
  <2>2. (a + 1) % n = r + 1
    BY <1>1, <2>1, ModUnique
  <2>3. QED
    BY <1>1, <1>3, <2>2 DEF r
<1>4. QED
  BY <1>1, <1>2, <1>3

\* A sum has the remainder of the sum of a remainder.
LEMMA ModPlus ==
  ASSUME NEW n \in Nat \ {0}, NEW a \in Int, NEW c \in Int
  PROVE  ((a % n) + c) % n = (a + c) % n
<1> DEFINE q == a \div n
           r == a % n
<1>1. r \in 0 .. n - 1 /\ q \in Int /\ a = n * q + r
  BY Division
<1> HIDE DEF q, r
<1>2. r + c \in Int /\ a + c = (r + c) + n * q
  BY <1>1
<1>3. ((r + c) + n * q) % n = (r + c) % n
  BY <1>1, <1>2, ModShift
<1>4. QED
  BY <1>2, <1>3 DEF r

=============================================================================
