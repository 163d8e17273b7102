---------------------------- MODULE SeqNumProofs ----------------------------
(***************************************************************************)
(* Facts about serial numbers for every even modulus: residues, and what   *)
(* the comparisons of seqnum.h mean for positions of a stream.             *)
(***************************************************************************)
EXTENDS SeqNum, TLAPS

\* A residue is below the modulus and differs from its number by a multiple.
LEMMA Division ==
    ASSUME NEW n \in Nat, n > 0, NEW a \in Int
    PROVE  /\ a % n \in 0 .. n - 1
           /\ a \div n \in Int
           /\ a = n * (a \div n) + (a % n)
  OBVIOUS

\* Quotient and remainder are determined by the number.
LEMMA RemainderUnique ==
    ASSUME NEW n \in Nat, n > 0, NEW q \in Int, NEW r \in 0 .. n - 1
    PROVE  (n * q + r) % n = r
  OBVIOUS

\* Only the residue of a summand matters.
LEMMA SumOfResidue ==
    ASSUME NEW n \in Nat, n > 0, NEW a \in Int, NEW b \in Int
    PROVE  ((a % n) + b) % n = (a + b) % n
  <1> DEFINE q == a \div n
             c == (a % n) + b
  <1>1. /\ q \in Int /\ a % n \in Int /\ a = n * q + (a % n)
    BY Division
  <1>2. /\ c \div n \in Int /\ c % n \in 0 .. n - 1
        /\ c = n * (c \div n) + (c % n)
    BY <1>1, Division
  <1>3. a + b = n * q + c
    BY <1>1
  <1>4. a + b = n * (q + (c \div n)) + (c % n)
    BY <1>1, <1>2, <1>3
  <1>5. q + (c \div n) \in Int
    BY <1>1, <1>2
  <1>6. (n * (q + (c \div n)) + (c % n)) % n = c % n
    BY <1>2, <1>5, RemainderUnique
  <1> QED
    BY <1>4, <1>6

Divides(n, m) == \E k \in Nat : k > 0 /\ m = n * k

\* A multiple of n may be added or taken away: n divides m.
LEMMA ResidueOfResidue ==
    ASSUME NEW n \in Nat, n > 0, NEW m \in Nat, NEW a \in Int,
           Divides(n, m)
    PROVE  (a % m) % n = a % n
  <1>0. PICK k \in Nat : k > 0 /\ m = n * k
    BY DEF Divides
  <1> DEFINE q == a \div m
             r == a % m
             p == k * q + (r \div n)
  <1>1. m > 0
    BY <1>0
  <1>2. q \in Int /\ r \in Int /\ a = m * q + r
    BY <1>1, Division
  <1>3. r \div n \in Int /\ r % n \in 0 .. n - 1 /\ r = n * (r \div n) + (r % n)
    BY <1>2, Division
  <1>4. a = n * p + (r % n)
    BY <1>0, <1>2, <1>3
  <1>5. p \in Int
    BY <1>2, <1>3
  <1> HIDE DEF p
  <1>6. a % n = r % n
    BY <1>3, <1>4, <1>5, RemainderUnique
  <1> QED
    BY <1>6

\* Residues of numbers less than n apart differ.
LEMMA ResiduesDiffer ==
    ASSUME NEW n \in Nat, n > 0, NEW a \in Int, NEW b \in Int,
           a < b, b < a + n
    PROVE  a % n # b % n
  <1> DEFINE q == a \div n
             r == b \div n
  <1>1. /\ q \in Int /\ a % n \in Int /\ a = n * q + (a % n)
        /\ r \in Int /\ b % n \in Int /\ b = n * r + (b % n)
    BY Division
  <1> HIDE DEF q, r
  <1>2. SUFFICES ASSUME a % n = b % n
                 PROVE  FALSE
    OBVIOUS
  <1>3. b - a = n * (r - q)
    BY <1>1, <1>2
  <1>4. r - q >= 1 \/ r - q <= 0
    BY <1>1
  <1>5. CASE r - q >= 1
    <2>1. n * (r - q) >= n
      BY <1>1, <1>5
    <2> QED
      BY <1>3, <2>1
  <1>6. CASE r - q <= 0
    <2>1. n * (r - q) <= 0
      BY <1>1, <1>6
    <2> QED
      BY <1>3, <2>1
  <1> QED
    BY <1>4, <1>5, <1>6

-----------------------------------------------------------------------------
\* The modulus is positive and twice Half.
LEMMA ModulusFacts ==
    /\ Modulus \in Nat /\ Modulus > 0
    /\ Half \in Nat /\ Half > 0
    /\ Modulus = 2 * Half
  BY ModulusAssumption DEF Half

\* Sequence numbers are closed under Wrap and Add, and sums may be reduced late.
LEMMA SeqType ==
    ASSUME NEW n \in Int
    PROVE  Wrap(n) \in SeqNums
  BY ModulusFacts, Division DEF Wrap, SeqNums

LEMMA AddSeq ==
    ASSUME NEW a \in Int, NEW b \in Int
    PROVE  Add(Wrap(a), b) = Wrap(a + b)
  BY ModulusFacts, SumOfResidue DEF Add, Wrap

LEMMA SeqOfSeqNum ==
    ASSUME NEW a \in SeqNums
    PROVE  Wrap(a) = a
  <1>1. a = Modulus * 0 + a /\ a \in 0 .. Modulus - 1 /\ Modulus \in Nat
    BY ModulusFacts DEF SeqNums
  <1> QED
    BY <1>1, ModulusFacts, RemainderUnique DEF Wrap

\* The distance between the numbers of two positions less than Modulus apart.
LEMMA DistanceOfPositions ==
    ASSUME NEW a \in Int, NEW d \in 0 .. Modulus - 1
    PROVE  Distance(Wrap(a), Wrap(a + d)) = d
  <1> DEFINE q == a \div Modulus
             c == a + d
             r == c \div Modulus
  <1>1. /\ q \in Int /\ Wrap(a) \in Int /\ a = Modulus * q + Wrap(a)
        /\ r \in Int /\ Wrap(c) \in Int /\ c = Modulus * r + Wrap(c)
    BY ModulusFacts, Division DEF Wrap
  <1>2. Wrap(c) - Wrap(a) = Modulus * (q - r) + d
    BY <1>1, ModulusFacts
  <1>3. q - r \in Int
    BY <1>1
  <1>4. (Modulus * (q - r) + d) % Modulus = d
    BY <1>3, ModulusFacts, RemainderUnique
  <1> QED
    BY <1>2, <1>4 DEF Distance, Wrap

\* Adding the distance leads from one number to the other.
LEMMA AddDistance ==
    ASSUME NEW a \in SeqNums, NEW b \in SeqNums
    PROVE  /\ Distance(a, b) \in 0 .. Modulus - 1
           /\ Distance(a, b) = IF b >= a THEN b - a ELSE b - a + Modulus
           /\ Add(a, Distance(a, b)) = b
  <1>1. a \in 0 .. Modulus - 1 /\ b \in 0 .. Modulus - 1 /\ Modulus \in Nat
    BY ModulusFacts DEF SeqNums
  <1>2. CASE b >= a
    <2>1. b - a = Modulus * 0 + (b - a) /\ b - a \in 0 .. Modulus - 1
      BY <1>1, <1>2
    <2>2. Distance(a, b) = b - a
      BY <2>1, ModulusFacts, RemainderUnique DEF Distance, Wrap
    <2> QED
      BY <1>1, <1>2, <2>1, <2>2, SeqOfSeqNum DEF Add
  <1>3. CASE b < a
    <2>1. /\ b - a = Modulus * (-1) + (b - a + Modulus)
          /\ b - a + Modulus \in 0 .. Modulus - 1
      BY <1>1, <1>3
    <2>2. Distance(a, b) = b - a + Modulus
      BY <2>1, ModulusFacts, RemainderUnique DEF Distance, Wrap
    <2>3. a + (b - a + Modulus) = Modulus * 1 + b
      BY <1>1
    <2>4. Add(a, Distance(a, b)) = b
      BY <2>2, <2>3, <1>1, ModulusFacts, RemainderUnique DEF Add, Wrap
    <2> QED
      BY <1>1, <1>3, <2>1, <2>2, <2>4
  <1> QED
    BY <1>1, <1>2, <1>3

\* There and back again is one lap.
LEMMA OppositeDistance ==
    ASSUME NEW a \in SeqNums, NEW b \in SeqNums
    PROVE  /\ Distance(a, b) = 0 <=> a = b
           /\ a # b => Distance(b, a) = Modulus - Distance(a, b)
  <1>1. a \in 0 .. Modulus - 1 /\ b \in 0 .. Modulus - 1
    BY DEF SeqNums
  <1>2. /\ Distance(a, b) = IF b >= a THEN b - a ELSE b - a + Modulus
        /\ Distance(b, a) = IF a >= b THEN a - b ELSE a - b + Modulus
    BY AddDistance
  <1> QED
    BY <1>1, <1>2, ModulusFacts

\* seqnum.h compares distances: lt holds exactly if b lies less than half the
\* number space ahead of a, gt exactly if it lies less than half behind.
THEOREM ComparisonIsDistance ==
    ASSUME NEW a \in SeqNums, NEW b \in SeqNums
    PROVE  /\ Lt(a, b) <=> Distance(a, b) \in 1 .. Half - 1
           /\ Gt(a, b) <=> Distance(b, a) \in 1 .. Half - 1
  <1>1. a \in 0 .. Modulus - 1 /\ b \in 0 .. Modulus - 1
    BY DEF SeqNums
  <1> QED
    BY <1>1, ModulusFacts, AddDistance DEF Lt, Gt

\* RFC 1982 for stream positions: as long as two positions are less than half
\* the number space apart, their numbers compare as the positions do.
THEOREM ComparisonOfPositions ==
    ASSUME NEW m \in Int, NEW n \in Int, m - n < Half, n - m < Half
    PROVE  /\ Lt(Wrap(m), Wrap(n)) <=> m < n
           /\ Gt(Wrap(m), Wrap(n)) <=> m > n
           /\ Wrap(m) = Wrap(n) <=> m = n
  <1>1. Wrap(m) \in SeqNums /\ Wrap(n) \in SeqNums
    BY SeqType
  <1>2. CASE m <= n
    <2>1. n - m \in 0 .. Modulus - 1 /\ m + (n - m) = n
      BY <1>2, ModulusFacts
    <2>2. Distance(Wrap(m), Wrap(n)) = n - m
      BY <2>1, DistanceOfPositions
    <2>3. Wrap(m) # Wrap(n) => Distance(Wrap(n), Wrap(m)) = Modulus - (n - m)
      BY <1>1, <2>2, OppositeDistance
    <2>4. Wrap(m) = Wrap(n) <=> m = n
      BY <1>1, <2>2, OppositeDistance
    <2> QED
      BY <1>1, <1>2, <2>2, <2>3, <2>4, ModulusFacts,
         ComparisonIsDistance, OppositeDistance
  <1>3. CASE n <= m
    <2>1. m - n \in 0 .. Modulus - 1 /\ n + (m - n) = m
      BY <1>3, ModulusFacts
    <2>2. Distance(Wrap(n), Wrap(m)) = m - n
      BY <2>1, DistanceOfPositions
    <2>3. Wrap(m) # Wrap(n) => Distance(Wrap(m), Wrap(n)) = Modulus - (m - n)
      BY <1>1, <2>2, OppositeDistance
    <2>4. Wrap(m) = Wrap(n) <=> m = n
      BY <1>1, <2>2, OppositeDistance
    <2> QED
      BY <1>1, <1>3, <2>2, <2>3, <2>4, ModulusFacts,
         ComparisonIsDistance, OppositeDistance
  <1> QED
    BY <1>2, <1>3
=============================================================================
