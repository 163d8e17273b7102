------------------------- MODULE ReorderQueueProofs -------------------------
(***************************************************************************)
(* Proofs about ReorderQueue for every ring size, number width, packet set *)
(* and drop strategy: types; ownership (OneOwner, NothingLeaked); the gaps *)
(* Takion looks for (GapsAreFound); the assertion of push (AssertHolds);   *)
(* and that the ring implements InOrderBuffer (DeliversInOrder).  The last *)
(* two need PlaceInv: every buffered packet lies at its stream position.   *)
(***************************************************************************)
EXTENDS ReorderQueue, SeqNumProofs

-----------------------------------------------------------------------------
(* The ring *)

\* Widths as plain arithmetic.
LEMMA Widths ==
    /\ Size \in Nat /\ Size > 1
    /\ Modulus \in Nat /\ Modulus > 0
    /\ Half \in Nat /\ Modulus = 2 * Half /\ Size < Half
  BY SizeAssumption, ModulusFacts

\* The ring divides the number space.
LEMMA RingDividesNumbers ==
    Divides(Size, Modulus)
  <1>1. Modulus \div Size \in Int /\ Modulus = Size * (Modulus \div Size)
    BY SizeAssumption, ModulusFacts, Division
  <1>2. Modulus \div Size > 0
    <2>1. Modulus \div Size <= 0 => Size * (Modulus \div Size) <= 0
      BY <1>1, SizeAssumption
    <2> QED
      BY <1>1, <2>1, ModulusFacts
  <1>3. Modulus \div Size \in Nat
    BY <1>1, <1>2
  <1> QED
    BY <1>1, <1>2, <1>3 DEF Divides

\* The slot of an entry depends on its unreduced number only.
LEMMA SlotOfSum ==
    ASSUME NEW b \in Int, NEW i \in Int
    PROVE  /\ Idx(Add(b, i)) = (b + i) % Size
           /\ Idx(Add(b, i)) \in 0 .. Size - 1
  <1>1. Divides(Size, Modulus)
    BY RingDividesNumbers
  <1>2. ((b + i) % Modulus) % Size = (b + i) % Size
    <2> DEFINE a == b + i
    <2>1. a \in Int
      OBVIOUS
    <2> HIDE DEF a
    <2>3. Size \in Nat /\ Size > 0 /\ Modulus \in Nat
      BY Widths
    <2>2. (a % Modulus) % Size = a % Size
      BY <1>1, <2>1, <2>3, ResidueOfResidue, Zenon
    <2> QED
      BY <2>2 DEF a
  <1>3. (b + i) % Size \in 0 .. Size - 1
    BY Widths, Division
  <1> QED
    BY <1>1, <1>2, <1>3 DEF Idx, Add, Wrap

\* The slot of a number by itself.
LEMMA SlotOfNumber ==
    ASSUME NEW s \in Int
    PROVE  Idx(s) \in 0 .. Size - 1
  BY Widths, Division DEF Idx

\* Counting entries from a later head.
LEMMA SlotShift ==
    ASSUME NEW b \in Int, NEW k \in Int, NEW i \in Int
    PROVE  Idx(Add(Add(b, k), i)) = Idx(Add(b, k + i))
  <1>1. Add(Add(b, k), i) = Add(b, k + i)
    BY AddSeq, Widths DEF Add
  <1> QED
    BY <1>1

\* Entries of one window lie in different slots.
LEMMA SlotsDiffer ==
    ASSUME NEW b \in Int, NEW i \in Int, NEW j \in Int,
           i < j + Size, j < i + Size,
           Idx(Add(b, i)) = Idx(Add(b, j))
    PROVE  i = j
  <1>1. (b + i) % Size = (b + j) % Size
    BY SlotOfSum
  <1>2. CASE i < j
    BY <1>1, <1>2, Widths, ResiduesDiffer
  <1>3. CASE j < i
    BY <1>1, <1>3, Widths, ResiduesDiffer
  <1> QED
    BY <1>2, <1>3

-----------------------------------------------------------------------------
(* push classifies a number by its distance from the head *)

\* begin is an integer and so are all sequence numbers.
LEMMA NumbersAreIntegers ==
    /\ SeqNums \subseteq Int
    /\ \A n \in Int : Wrap(n) \in SeqNums
    /\ \A a, b \in Int : Add(a, b) \in SeqNums
  BY Widths, SeqType DEF SeqNums, Add

\* A number inside the window is fewer than count steps from the head.
LEMMA InsideIsNear ==
    ASSUME TypeOK, NEW s \in SeqNums, InWindow(s)
    PROVE  /\ Distance(begin, s) \in 0 .. count - 1
           /\ s = Add(begin, Distance(begin, s))
  <1> DEFINE d == Distance(begin, s)
  <1>1. begin \in SeqNums /\ begin \in Int /\ s \in Int /\ count \in 0 .. Size
    BY NumbersAreIntegers DEF TypeOK
  <1>2. s = Add(begin, d) /\ d \in 0 .. Modulus - 1
    BY <1>1, AddDistance
  <1>3. d \in 0 .. Half - 1
    <2>1. s = begin => d = 0
      BY <1>1, OppositeDistance
    <2>2. Gt(s, begin) => d \in 1 .. Half - 1
      BY <1>1, ComparisonIsDistance
    <2> QED
      BY <2>1, <2>2, Widths DEF InWindow, Ge
  <1> HIDE DEF d
  <1>4. Lt(Wrap(begin + d), Wrap(begin + count))
    BY <1>2 DEF InWindow, End, Add
  <1>5. (begin + d) - (begin + count) < Half /\ (begin + count) - (begin + d) < Half
    BY <1>1, <1>3, Widths
  <1>6. begin + d < begin + count
    BY <1>1, <1>3, <1>4, <1>5, ComparisonOfPositions
  <1> QED
    BY <1>1, <1>2, <1>3, <1>6 DEF d

\* A number push accepts behind the end is at most Half steps from the head.
LEMMA BeyondIsNear ==
    ASSUME TypeOK, NEW s \in SeqNums, ~InWindow(s), ~Late(s), Ge(s, End)
    PROVE  /\ Distance(begin, s) \in count .. Half
           /\ s = Add(begin, Distance(begin, s))
  <1> DEFINE e == Distance(begin, s)
             f == Distance(End, s)
  <1>1. begin \in SeqNums /\ begin \in Int /\ s \in Int /\ count \in 0 .. Size
        /\ End \in SeqNums
    BY NumbersAreIntegers DEF TypeOK, End
  <1>2. s = Add(begin, e) /\ e \in 0 .. Modulus - 1
    BY <1>1, AddDistance
  <1>3. f \in 0 .. Half - 1 /\ s = Add(End, f)
    <2>1. s = End => f = 0
      BY <1>1, OppositeDistance
    <2>2. Gt(s, End) => f \in 1 .. Half - 1
      BY <1>1, ComparisonIsDistance
    <2> QED
      BY <1>1, <2>1, <2>2, Widths, AddDistance DEF Ge
  <1>4. e = count + f
    <2>1. s = Wrap(begin + (count + f)) /\ begin = Wrap(begin)
      BY <1>1, <1>3, AddSeq, SeqOfSeqNum DEF End, Add
    <2>2. count + f \in 0 .. Modulus - 1
      BY <1>1, <1>3, Widths
    <2> QED
      BY <1>1, <2>1, <2>2, DistanceOfPositions
  <1>5. e <= Half
    <2>1. ~Lt(s, begin)
      BY DEF Late
    <2>2. CASE s = begin
      BY <1>1, <2>2, OppositeDistance, Widths
    <2>3. CASE s # begin
      <3>1. Distance(s, begin) = Modulus - e /\ e # 0
        BY <1>1, <2>3, OppositeDistance
      <3>2. Distance(s, begin) \notin 1 .. Half - 1
        BY <1>1, <2>1, ComparisonIsDistance
      <3> QED
        BY <3>1, <3>2, <1>2, Widths
    <2> QED
      BY <2>2, <2>3
  <1> QED
    BY <1>1, <1>2, <1>3, <1>4, <1>5

\* The tests for room compare distances from the head.
LEMMA RoomIsDistance ==
    ASSUME TypeOK, NEW e \in count .. Half, NEW j \in 0 .. count
    PROVE  Lt(Add(begin, Size + j), Add(Add(begin, e), 1)) <=> Size + j < e + 1
  <1>1. begin \in Int /\ count \in 0 .. Size /\ e \in Int /\ e >= count /\ e <= Half
        /\ j \in Int /\ j >= 0 /\ j <= count
    BY NumbersAreIntegers, Widths DEF TypeOK
  <1>2. Add(Add(begin, e), 1) = Wrap(begin + (e + 1))
    BY <1>1, Widths, AddSeq DEF Add
  <1>3. /\ (begin + (Size + j)) - (begin + (e + 1)) < Half
        /\ (begin + (e + 1)) - (begin + (Size + j)) < Half
        /\ begin + (Size + j) \in Int /\ begin + (e + 1) \in Int
    BY <1>1, Widths
  <1>4. Lt(Wrap(begin + (Size + j)), Wrap(begin + (e + 1)))
          <=> begin + (Size + j) < begin + (e + 1)
    BY <1>3, ComparisonOfPositions
  <1> QED
    BY <1>1, <1>2, <1>4, Widths DEF Add

-----------------------------------------------------------------------------
(* Types *)

\* The prover is told the fields of an entry.
LEMMA EntryType ==
    /\ \A p \in Packets : Entry(p) \in [set : BOOLEAN, user : Packets \union {NULL}]
    /\ \A p \in Packets : Entry(p).set /\ Entry(p).user = p
    /\ Unset \in [set : BOOLEAN, user : Packets \union {NULL}]
    /\ ~Unset.set
  BY DEF Entry, Unset

\* A set entry of the window belongs to a packet.
LEMMA EntryUser ==
    ASSUME TypeOK, NEW i \in 0 .. count - 1
    PROVE  /\ At(i) \in 0 .. Size - 1
           /\ Set(i) \in BOOLEAN
           /\ Set(i) => queue[At(i)].user \in Packets
  <1>1. begin \in Int /\ i \in Int
    BY NumbersAreIntegers DEF TypeOK
  <1>2. At(i) \in 0 .. Size - 1
    BY <1>1, SlotOfSum DEF At
  <1> QED
    BY <1>2 DEF TypeOK, Set

\* Hints computed from a distance stay within the ring.
LEMMA HintType ==
    ASSUME TypeOK, NEW b \in SeqNums, NEW s \in SeqNums, NEW n \in 0 .. Size
    PROVE  /\ HintAfterSet(b, n, s) \in {Invalid} \union 0 .. Size - 1
           /\ n < Size => HintAfterAdvance(n) \in {Invalid} \union 0 .. Size - 1
  <1>1. Distance(b, s) \in 0 .. Modulus - 1
    BY AddDistance
  <1>2. hint \in Int /\ hint \in {Invalid} \union 0 .. Size - 1 /\ Invalid = -1
    BY Widths DEF TypeOK, Invalid
  <1>3. OffsetForSeq(b, n, s) \in {Invalid} \union 0 .. Size - 1
    BY <1>1, Widths DEF OffsetForSeq
  <1>4. HintAfterAdvance(n) \in {Invalid} \union 0 .. Size - 1
    BY <1>2, Widths DEF HintAfterAdvance
  <1> QED
    BY <1>2, <1>3, <1>4 DEF HintAfterSet

\* What a push beyond the end does to the window, in steps from the old head:
\* the packet is e steps away, the new head m steps, and k old entries go.
BeyondShape(s, k, e, m) ==
    /\ e \in count .. Half /\ s = Add(begin, e)
    /\ k \in 0 .. count
    /\ m \in 0 .. e /\ NewBegin(s, k) = Add(begin, m)
    /\ m = k \/ (k = count /\ m = e)
    /\ Overflows(s) \/ m = 0
    /\ Distance(NewBegin(s, k), s) = e - m
    /\ Distance(NewBegin(s, k), Add(s, 1)) = e - m + 1
    /\ e - m + 1 <= Size

LEMMA BeyondHasShape ==
    ASSUME TypeOK, NEW p \in Packets, NEW n \in Nat, NEW k \in 0 .. count,
           PushBeyond(p, n, k)
    PROVE  \E e, m \in Nat : BeyondShape(Wrap(n), k, e, m)
  <1> DEFINE s == Wrap(n)
             e == Distance(begin, s)
             b == NewBegin(s, k)
             m == IF Overflows(s) /\ k = count THEN e ELSE k
  <1>1. begin \in SeqNums /\ begin \in Int /\ s \in SeqNums /\ s \in Int
        /\ count \in 0 .. Size
    <2>1. n \in Int
      OBVIOUS
    <2>2. s \in SeqNums /\ s \in Int
      BY <2>1, NumbersAreIntegers
    <2> QED
      BY <2>2, NumbersAreIntegers DEF TypeOK
  <1>2. ~InWindow(s) /\ ~Late(s) /\ Ge(s, End)
        /\ (IF Overflows(s) THEN k \in Evictions(s) ELSE k = 0)
    BY DEF PushBeyond, Refuse
  <1>3. e \in count .. Half /\ s = Add(begin, e)
    BY <1>1, <1>2, BeyondIsNear
  <1> HIDE DEF s, e
  <1>4. Add(s, 1) = Wrap(begin + (e + 1)) /\ s = Wrap(begin + e)
        /\ Wrap(begin) = begin
    BY <1>1, <1>3, AddSeq, SeqOfSeqNum DEF Add
  <1>5. ASSUME NEW j \in 0 .. count
        PROVE  Lt(Add(begin, Size + j), Add(s, 1)) <=> Size + j < e + 1
    BY <1>1, <1>3, RoomIsDistance, Widths
  <1>6. Overflows(s) <=> Size < e + 1
    <2>1. 0 \in 0 .. count /\ Size + 0 = Size
      BY <1>1, Widths
    <2> QED
      BY <2>1, <1>5 DEF Overflows
  <1>7. m \in k .. e /\ e - m + 1 <= Size
    <2>1. CASE ~Overflows(s)
      BY <2>1, <1>1, <1>2, <1>3, <1>6, Widths
    <2>2. CASE Overflows(s) /\ k = count
      BY <2>2, <1>1, <1>3, Widths
    <2>3. CASE Overflows(s) /\ k # count
      <3>1. ~Lt(Add(begin, Size + k), Add(s, 1))
        BY <2>3, <1>2 DEF Evictions
      <3>2. ~(Size + k < e + 1)
        BY <3>1, <1>5
      <3> QED
        BY <2>3, <3>2, <1>1, <1>3, Widths
    <2> QED
      BY <2>1, <2>2, <2>3
  <1>8. b = Add(begin, m)
    BY <1>1, <1>3 DEF NewBegin
  <1>9. b = Wrap(begin + m)
    BY <1>8 DEF Add
  <1>10. Distance(b, s) = e - m /\ Distance(b, Add(s, 1)) = e - m + 1
    <2>1. /\ begin + m \in Int /\ e - m \in 0 .. Modulus - 1
          /\ e - m + 1 \in 0 .. Modulus - 1
          /\ (begin + m) + (e - m) = begin + e
          /\ (begin + m) + (e - m + 1) = begin + (e + 1)
      BY <1>1, <1>3, <1>7, Widths
    <2> QED
      BY <2>1, <1>4, <1>9, DistanceOfPositions
  <1>11. (m = k \/ (k = count /\ m = e)) /\ (Overflows(s) \/ m = 0)
    BY <1>2
  <1> QED
    BY <1>1, <1>3, <1>7, <1>8, <1>10, <1>11 DEF BeyondShape, s, e

-----------------------------------------------------------------------------
(* Ownership *)

\* When the head goes, each entry behind it moves one step forward in the window.
LEMMA HeadEntries ==
    ASSUME TypeOK, count > 0, begin' = Add(begin, 1), count' = count - 1,
           \A i \in 1 .. count - 1 : queue'[At(i)] = queue[At(i)],
           NEW i \in 0 .. count' - 1
    PROVE  /\ i + 1 \in 0 .. count - 1
           /\ Set(i)' <=> Set(i + 1)
           /\ queue'[At(i)'].user = queue[At(i + 1)].user
  <1>1. begin \in Int /\ count \in 0 .. Size
    BY NumbersAreIntegers DEF TypeOK
  <1>2. i \in Int /\ i + 1 \in 1 .. count - 1 /\ i + 1 = 1 + i
    BY <1>1
  <1>3. At(i)' = At(i + 1)
    BY <1>1, <1>2, SlotShift DEF At
  <1> QED
    BY <1>2, <1>3 DEF Set

\* What the queue gives back at its head is owned by nobody else in the window:
\* pull and skip_gap, which differ in what they do to the freed slot.
LEMMA HeadGone ==
    ASSUME TypeOK, NoTwoEntries, HeldIffOwned, count > 0,
           begin' = Add(begin, 1), count' = count - 1,
           \A i \in 1 .. count - 1 : queue'[At(i)] = queue[At(i)],
           Release(IF Set(0) THEN {queue[At(0)].user} ELSE {})
    PROVE  NoTwoEntries' /\ HeldIffOwned'
  <1>1. begin \in Int /\ count \in 0 .. Size
    BY NumbersAreIntegers DEF TypeOK
  <1>2. ASSUME NEW i \in 0 .. count' - 1
        PROVE  /\ i + 1 \in 0 .. count - 1
               /\ Set(i)' <=> Set(i + 1)
               /\ queue'[At(i)'].user = queue[At(i + 1)].user
    BY HeadEntries
  <1>3. NoTwoEntries'
    <2> SUFFICES ASSUME NEW i \in 0 .. count' - 1, NEW j \in 0 .. count' - 1,
                        Set(i)', Set(j)',
                        queue'[At(i)'].user = queue'[At(j)'].user
                 PROVE  i = j
      BY DEF NoTwoEntries
    <2>1. i + 1 = j + 1
      BY <1>2 DEF NoTwoEntries
    <2> QED
      BY <1>1, <2>1
  <1>4. HeldIffOwned'
    <2> SUFFICES ASSUME NEW p \in Packets
                 PROVE  owner'[p] = "queue" <=>
                          \E i \in 0 .. count' - 1 : Set(i)' /\ queue'[At(i)'].user = p
      BY DEF HeldIffOwned
    <2>1. 0 \in 0 .. count - 1
      BY <1>1
    <2>2. CASE Set(0) /\ queue[At(0)].user = p
      <3>1. owner'[p] = "caller"
        BY <2>2 DEF Release
      <3>2. ASSUME NEW i \in 0 .. count' - 1, Set(i)', queue'[At(i)'].user = p
            PROVE  FALSE
        <4>1. i + 1 = 0
          BY <1>2, <2>1, <2>2, <3>2 DEF NoTwoEntries
        <4> QED
          BY <1>1, <4>1
      <3> QED
        BY <3>1, <3>2
    <2>3. CASE ~(Set(0) /\ queue[At(0)].user = p)
      <3>1. owner'[p] = owner[p]
        BY <2>3 DEF Release
      <3>2. ASSUME NEW i \in 0 .. count - 1, Set(i), queue[At(i)].user = p
            PROVE  \E j \in 0 .. count' - 1 : Set(j)' /\ queue'[At(j)'].user = p
        <4>1. i # 0
          BY <2>3, <3>2
        <4>2. i - 1 \in 0 .. count' - 1 /\ (i - 1) + 1 = i
          BY <1>1, <4>1
        <4> QED
          BY <1>2, <3>2, <4>2
      <3>3. ASSUME NEW j \in 0 .. count' - 1, Set(j)', queue'[At(j)'].user = p
            PROVE  \E i \in 0 .. count - 1 : Set(i) /\ queue[At(i)].user = p
        BY <1>2, <3>3
      <3> QED
        BY <3>1, <3>2, <3>3 DEF HeldIffOwned
    <2> QED
      BY <2>2, <2>3
  <1> QED
    BY <1>3, <1>4

\* Entries of the window occupy different slots.
LEMMA EntriesApart ==
    ASSUME TypeOK, NEW i \in 0 .. count - 1, NEW j \in 0 .. count - 1, At(i) = At(j)
    PROVE  i = j
  <1>1. begin \in Int /\ count \in 0 .. Size /\ i \in Int /\ j \in Int
        /\ i < j + Size /\ j < i + Size
    BY NumbersAreIntegers, Widths DEF TypeOK
  <1> QED
    BY <1>1, SlotsDiffer DEF At

\* The dropped entry is gone, the others are where they were.
LEMMA DropEntries ==
    ASSUME TypeOK, NEW d \in Nat, Drop(d)
    PROVE  /\ d \in 0 .. count - 1 /\ Set(d) /\ begin' = begin
           /\ count' \in 0 .. count
           /\ count' > 0 /\ Set(count - 1) => Set(count' - 1) /\ count' - 1 # d
           /\ \A i \in 0 .. count - 1 : Set(i) /\ i # d => i < count'
           /\ \A i \in 0 .. count' - 1 :
                 /\ Set(i)' <=> i # d /\ Set(i)
                 /\ i # d => queue'[At(i)'].user = queue[At(i)].user
  <1>1. /\ d \in 0 .. count - 1 /\ Set(d) /\ begin' = begin
        /\ queue' = [queue EXCEPT ![At(d)] = Unset]
        /\ count' \in Trimmed(d)
    BY DEF Drop, TypeOK
  <1>2. count' \in 0 .. count /\ count \in Nat
    BY <1>1, Widths DEF TypeOK, Trimmed
  <1>3. ASSUME NEW i \in 0 .. count - 1
        PROVE  /\ At(i)' = At(i)
               /\ i = d => ~Set(i)'
               /\ i # d => (Set(i)' <=> Set(i)) /\ queue'[At(i)'].user = queue[At(i)].user
    <2>1. At(i)' = At(i)
      BY <1>1 DEF At
    <2>2. CASE i = d
      BY <1>1, <2>1, <2>2, EntryType, EntryUser DEF Set, TypeOK
    <2>3. CASE i # d
      <3>1. At(i) # At(d)
        BY <1>1, <2>3, EntriesApart
      <3> QED
        BY <1>1, <2>1, <2>3, <3>1 DEF Set, TypeOK
    <2> QED
      BY <2>1, <2>2, <2>3
  <1>4. \A i \in 0 .. count - 1 : Set(i) /\ i # d => i < count'
    BY <1>1, <1>2, Widths DEF TypeOK, Trimmed
  <1>5. ASSUME count' > 0, Set(count - 1)
        PROVE  Set(count' - 1) /\ count' - 1 # d
    <2>1. CASE d # count - 1
      BY <1>1, <1>2, <1>5, <2>1 DEF Trimmed
    <2>2. CASE d = count - 1
      <3>1. /\ count' \in 0 .. d
            /\ count' = 0 \/ Set(count' - 1)
        BY <1>1, <2>2 DEF Trimmed
      <3>2. PICK c \in Nat : count' = c
        BY <1>2
      <3>3. c - 1 # d
        BY <1>1, <3>1, <3>2
      <3> QED
        BY <1>5, <3>1, <3>2, <3>3
    <2> QED
      BY <2>1, <2>2
  <1>6. PICK c \in Nat : count' = c /\ c <= count
    BY <1>2
  <1>7. \A i \in 0 .. c - 1 : i \in 0 .. count - 1
    BY <1>2, <1>6
  <1> QED
    BY <1>1, <1>2, <1>3, <1>4, <1>5, <1>6, <1>7

LEMMA DropKeepsOwnership ==
    ASSUME TypeOK, NoTwoEntries, HeldIffOwned, NEW d \in Nat, Drop(d)
    PROVE  NoTwoEntries' /\ HeldIffOwned'
  <1>1. /\ d \in 0 .. count - 1 /\ Set(d)
        /\ Release({queue[At(d)].user})
    BY DropEntries DEF Drop
  <1>2. PICK c \in Nat : count' = c /\ c <= count /\ count \in Int
    BY DropEntries, Widths DEF TypeOK
  <1>0. ASSUME NEW i \in 0 .. count - 1, i >= c, i # d
        PROVE  ~Set(i)
    <2>1. Set(i) => i < c
      BY <1>0, <1>2, DropEntries
    <2> QED
      BY <1>0, <1>2, <2>1
  <1>4. ASSUME NEW i \in 0 .. c - 1
        PROVE  /\ i \in 0 .. count - 1
               /\ Set(i)' <=> i # d /\ Set(i)
               /\ i # d => queue'[At(i)'].user = queue[At(i)].user
    <2>1. i \in 0 .. count - 1
      BY <1>2
    <2> QED
      BY <1>2, <2>1, DropEntries
  <1>5. NoTwoEntries'
    BY <1>2, <1>4 DEF NoTwoEntries
  <1>6. HeldIffOwned'
    <2> SUFFICES ASSUME NEW p \in Packets
                 PROVE  owner'[p] = "queue" <=>
                          \E i \in 0 .. c - 1 : Set(i)' /\ queue'[At(i)'].user = p
      BY <1>2 DEF HeldIffOwned
    <2>1. CASE p = queue[At(d)].user
      <3>1. owner'[p] = "caller"
        BY <1>1, <2>1 DEF Release
      <3>2. ASSUME NEW i \in 0 .. c - 1, Set(i)', queue'[At(i)'].user = p
            PROVE  FALSE
        BY <1>1, <1>4, <2>1, <3>2 DEF NoTwoEntries
      <3> QED
        BY <3>1, <3>2
    <2>2. CASE p # queue[At(d)].user
      <3>1. owner'[p] = owner[p]
        BY <1>1, <2>2 DEF Release
      <3>2. ASSUME NEW i \in 0 .. count - 1, Set(i), queue[At(i)].user = p
            PROVE  \E j \in 0 .. c - 1 : Set(j)' /\ queue'[At(j)'].user = p
        <4>1. i # d
          BY <2>2, <3>2
        <4>2. i < c
          BY <1>0, <1>2, <3>2, <4>1
        <4>3. i \in 0 .. c - 1
          BY <1>2, <4>2
        <4> QED
          BY <1>4, <3>2, <4>1, <4>3
      <3>3. ASSUME NEW i \in 0 .. c - 1, Set(i)', queue'[At(i)'].user = p
            PROVE  \E j \in 0 .. count - 1 : Set(j) /\ queue[At(j)].user = p
        BY <1>4, <3>3
      <3> QED
        BY <3>1, <3>2, <3>3 DEF HeldIffOwned
    <2> QED
      BY <2>1, <2>2
  <1> QED
    BY <1>5, <1>6

\* The packet becomes the entry d, which was a gap; the others stay.
InsideMoves(p, d) ==
    /\ d \in 0 .. count - 1 /\ ~Set(d)
    /\ begin' = begin /\ count' = count
    /\ \A i \in 0 .. count - 1 :
          /\ i = d => Set(i)' /\ queue'[At(i)'].user = p
          /\ i # d => (Set(i)' <=> Set(i)) /\ queue'[At(i)'].user = queue[At(i)].user

LEMMA InsideEntries ==
    ASSUME TypeOK, NEW p \in Packets, NEW n \in Nat, PushInside(p, n)
    PROVE  \E d \in Nat : InsideMoves(p, d) /\ Wrap(n) = Add(begin, d)
  <1> DEFINE s == Wrap(n)
             d == Distance(begin, s)
  <1>1. s \in SeqNums
    <2>1. n \in Int
      OBVIOUS
    <2> QED
      BY <2>1, NumbersAreIntegers
  <1>2. d \in 0 .. count - 1 /\ s = Add(begin, d) /\ d \in Nat
    BY <1>1, InsideIsNear DEF PushInside
  <1> HIDE DEF d
  <1>3. /\ begin' = begin /\ count' = count
        /\ queue' = [queue EXCEPT ![At(d)] = Entry(p)]
        /\ ~Set(d)
    BY <1>2 DEF PushInside, At, Duplicate, Set
  <1>4. ASSUME NEW i \in 0 .. count - 1
        PROVE  /\ At(i)' = At(i)
               /\ i = d => Set(i)' /\ queue'[At(i)'].user = p
               /\ i # d => (Set(i)' <=> Set(i)) /\ queue'[At(i)'].user = queue[At(i)].user
    <2>1. At(i)' = At(i)
      BY <1>3 DEF At
    <2>2. CASE i = d
      BY <1>3, <2>1, <2>2, EntryType, EntryUser DEF Set, TypeOK
    <2>3. CASE i # d
      <3>1. At(i) # At(d)
        BY <1>2, <2>3, EntriesApart
      <3> QED
        BY <1>3, <2>1, <2>3, <3>1 DEF Set, TypeOK
    <2> QED
      BY <2>1, <2>2, <2>3
  <1>5. InsideMoves(p, d)
    BY <1>2, <1>3, <1>4 DEF InsideMoves
  <1> QED
    BY <1>2, <1>5

LEMMA InsideKeepsOwnership ==
    ASSUME TypeOK, NoTwoEntries, HeldIffOwned, NEW p \in Packets, NEW n \in Nat,
           owner[p] = "caller", PushInside(p, n)
    PROVE  NoTwoEntries' /\ HeldIffOwned'
  <1>1. PICK d \in Nat : InsideMoves(p, d)
    BY InsideEntries
  <1>2. d \in 0 .. count - 1
    BY <1>1 DEF InsideMoves
  <1>3. /\ count' = count /\ ~Set(d)
        /\ owner' = [owner EXCEPT ![p] = "queue"]
    BY <1>1 DEF InsideMoves, PushInside
  <1>4. ASSUME NEW i \in 0 .. count - 1
        PROVE  /\ i = d => Set(i)' /\ queue'[At(i)'].user = p
               /\ i # d => (Set(i)' <=> Set(i)) /\ queue'[At(i)'].user = queue[At(i)].user
    BY <1>1 DEF InsideMoves
  <1>5. ASSUME NEW i \in 0 .. count - 1, Set(i)
        PROVE  queue[At(i)].user # p /\ i # d
    BY <1>3, <1>5 DEF HeldIffOwned
  <1>6. NoTwoEntries'
    <2> SUFFICES ASSUME NEW i \in 0 .. count - 1, NEW j \in 0 .. count - 1,
                        Set(i)', Set(j)',
                        queue'[At(i)'].user = queue'[At(j)'].user
                 PROVE  i = j
      BY <1>3 DEF NoTwoEntries
    <2>1. CASE i = d \/ j = d
      BY <1>4, <1>5, <2>1
    <2>2. CASE i # d /\ j # d
      BY <1>4, <2>2 DEF NoTwoEntries
    <2> QED
      BY <2>1, <2>2
  <1>7. HeldIffOwned'
    <2> SUFFICES ASSUME NEW q \in Packets
                 PROVE  owner'[q] = "queue" <=>
                          \E i \in 0 .. count - 1 : Set(i)' /\ queue'[At(i)'].user = q
      BY <1>3 DEF HeldIffOwned
    <2>1. CASE q = p
      BY <1>2, <1>3, <1>4, <2>1 DEF TypeOK
    <2>2. CASE q # p
      <3>1. owner'[q] = owner[q]
        BY <1>3, <2>2 DEF TypeOK
      <3>2. ASSUME NEW i \in 0 .. count - 1
            PROVE  Set(i)' /\ queue'[At(i)'].user = q <=> Set(i) /\ queue[At(i)].user = q
        BY <1>3, <1>4, <2>2
      <3> QED
        BY <3>1, <3>2 DEF HeldIffOwned
    <2> QED
      BY <2>1, <2>2
  <1> QED
    BY <1>6, <1>7

\* The packet becomes the last entry; k entries went, the others are m = k steps nearer
\* to the new head.
BeyondMoves(p, k, e, m) ==
    /\ begin' = Add(begin, m) /\ count' = e - m + 1
    /\ k \in 0 .. count /\ e \in count .. Half /\ m \in 0 .. e /\ e - m + 1 <= Size
    /\ m = k \/ (k = count /\ m = e)
    /\ Set(e - m)' /\ queue'[At(e - m)'].user = p
    /\ \A i \in 0 .. e - m - 1 : Set(i)' =>
          /\ m = k /\ k + i \in k .. count - 1
          /\ Set(k + i) /\ queue'[At(i)'].user = queue[At(k + i)].user
    /\ \A j \in k .. count - 1 : Set(j) =>
          /\ m = k /\ j - k \in 0 .. e - m - 1
          /\ Set(j - k)' /\ queue'[At(j - k)'].user = queue[At(j)].user

LEMMA BeyondEntries ==
    ASSUME TypeOK, NEW p \in Packets, NEW n \in Nat,
           NEW k \in 0 .. count, PushBeyond(p, n, k)
    PROVE  \E e, m \in Nat : BeyondShape(Wrap(n), k, e, m) /\ BeyondMoves(p, k, e, m)
  <1> DEFINE s       == Wrap(n)
             b       == NewBegin(s, k)
             cleared == ClearedByGrowth(b, count - k, s)
  <1>1. PICK e \in Nat, m \in Nat : BeyondShape(s, k, e, m)
    BY BeyondHasShape
  <1>2. /\ begin' = b /\ b = Add(begin, m) /\ s = Add(begin, e)
        /\ count' = e - m + 1 /\ count' <= Size
        /\ k \in 0 .. count /\ count <= e /\ m \in 0 .. e
        /\ m = k \/ (k = count /\ m = e)
        /\ Distance(b, s) = e - m
        /\ begin \in Int /\ count \in Nat /\ count <= Size
    BY <1>1, NumbersAreIntegers, Widths DEF BeyondShape, PushBeyond, TypeOK
  <1>3. queue' = [t \in 0 .. Size - 1 |->
                        IF t = Idx(s) THEN Entry(p)
                        ELSE IF t \in cleared THEN [queue[t] EXCEPT !.set = FALSE]
                        ELSE queue[t]]
    BY DEF PushBeyond
  <1>4. cleared = {Idx(Add(b, i)) : i \in count - k .. e - m}
    BY <1>2 DEF ClearedByGrowth
  <1> HIDE DEF b, cleared
  <1>5. ASSUME NEW i \in 0 .. count' - 1
        PROVE  /\ i \in Int /\ i <= e - m
               /\ At(i)' = Idx(Add(b, i)) /\ At(i)' = Idx(Add(begin, m + i))
               /\ At(i)' \in 0 .. Size - 1
    <2>1. i \in Int /\ i <= e - m /\ m \in Int
      BY <1>2
    <2>2. At(i)' = Idx(Add(b, i))
      BY <1>2 DEF At
    <2>3. At(i)' = Idx(Add(begin, m + i))
      BY <1>2, <2>1, <2>2, SlotShift
    <2>4. At(i)' \in 0 .. Size - 1
      BY <1>2, <2>1, <2>3, SlotOfSum
    <2> QED
      BY <2>1, <2>2, <2>3, <2>4
  <1>6. ASSUME NEW i \in 0 .. count' - 1, NEW j \in 0 .. count' - 1, At(i)' = At(j)'
        PROVE  i = j
    <2>1. /\ m + i \in Int /\ m + j \in Int
          /\ m + i < m + j + Size /\ m + j < m + i + Size
      BY <1>2, <1>5, Widths
    <2>2. m + i = m + j
      BY <1>2, <1>5, <1>6, <2>1, SlotsDiffer
    <2> QED
      BY <1>2, <1>5, <2>2
  <1>7. e - m \in 0 .. count' - 1 /\ At(e - m)' = Idx(s)
    <2>1. e - m \in 0 .. count' - 1 /\ m + (e - m) = e
      BY <1>2
    <2> QED
      BY <1>2, <1>5, <2>1
  <1>8. ASSUME NEW i \in 0 .. count' - 1
        PROVE  /\ i = e - m => Set(i)' /\ queue'[At(i)'].user = p
               /\ i # e - m /\ i >= count - k => ~Set(i)'
               /\ i # e - m /\ i < count - k => queue'[At(i)'] = queue[At(i)']
    <2>1. CASE i = e - m
      BY <1>3, <1>5, <1>7, <2>1, EntryType DEF Set
    <2>2. CASE i # e - m
      <3>1. At(i)' # Idx(s)
        BY <1>6, <1>7, <2>2
      <3>2. CASE i >= count - k
        <4>1. At(i)' \in cleared
          BY <1>2, <1>4, <1>5, <3>2
        <4>2. queue'[At(i)'] = [queue[At(i)'] EXCEPT !.set = FALSE]
          BY <1>3, <1>5, <3>1, <4>1
        <4>3. queue[At(i)'] \in [set : BOOLEAN, user : Packets \union {NULL}]
          BY <1>5 DEF TypeOK
        <4>4. ~queue'[At(i)'].set
          BY <4>2, <4>3
        <4> QED
          BY <2>2, <3>2, <4>4, <1>2, <1>5 DEF Set
      <3>3. CASE i < count - k
        <4>1. ASSUME NEW j \in count - k .. e - m, At(i)' = Idx(Add(b, j))
              PROVE  FALSE
          <5>1. j \in 0 .. count' - 1 /\ At(j)' = Idx(Add(b, j))
            BY <1>2, <1>5
          <5> QED
            BY <1>2, <1>6, <3>3, <4>1, <5>1
        <4>2. At(i)' \notin cleared
          BY <1>4, <4>1
        <4> QED
          BY <1>2, <1>3, <1>5, <2>2, <3>1, <3>3, <4>2
      <3> QED
        BY <1>2, <1>5, <2>2, <3>2, <3>3
    <2> QED
      BY <2>1, <2>2
  <1>9. ASSUME NEW i \in 0 .. count' - 1, i # e - m, Set(i)'
        PROVE  /\ k + i \in k .. count - 1 /\ k + i \in 0 .. count - 1
               /\ Set(k + i) /\ queue'[At(i)'].user = queue[At(k + i)].user
    <2>1. i < count - k
      BY <1>2, <1>5, <1>8, <1>9
    <2>2. m = k
      BY <1>2, <1>5, <2>1
    <2>3. At(i)' = At(k + i)
      BY <1>5, <2>2 DEF At
    <2>4. k + i \in k .. count - 1 /\ k + i \in 0 .. count - 1
      BY <1>2, <1>5, <2>1
    <2> QED
      BY <1>8, <1>9, <2>1, <2>3, <2>4 DEF Set
  <1>10. ASSUME NEW j \in k .. count - 1, Set(j)
         PROVE  /\ j - k \in 0 .. count' - 1 /\ j - k # e - m
                /\ Set(j - k)' /\ queue'[At(j - k)'].user = queue[At(j)].user
    <2>1. /\ m = k /\ j - k \in 0 .. count' - 1 /\ j - k # e - m
          /\ j - k < count - k /\ m + (j - k) = j
      BY <1>2
    <2>2. At(j - k)' = At(j)
      BY <1>5, <2>1 DEF At
    <2> QED
      BY <1>8, <1>10, <2>1, <2>2 DEF Set
  <1>11. BeyondMoves(p, k, e, m)
    <2>1. \A i \in 0 .. e - m - 1 : Set(i)' =>
              /\ m = k /\ k + i \in k .. count - 1
              /\ Set(k + i) /\ queue'[At(i)'].user = queue[At(k + i)].user
      <3>1. e \in Int /\ m \in Int /\ count' = e - m + 1
        BY <1>2
      <3>2. \A i \in 0 .. e - m - 1 : i \in 0 .. count' - 1 /\ i # e - m
        BY <3>1
      <3> QED
        BY <1>2, <1>9, <3>2
    <2>2. \A j \in k .. count - 1 : Set(j) =>
              /\ m = k /\ j - k \in 0 .. e - m - 1
              /\ Set(j - k)' /\ queue'[At(j - k)'].user = queue[At(j)].user
      <3>1. \A j \in k .. count - 1 : m = k /\ j - k \in 0 .. e - m - 1
        BY <1>2
      <3> QED
        BY <1>10, <3>1
    <2>3. Set(e - m)' /\ queue'[At(e - m)'].user = p
      BY <1>7, <1>8
    <2>4. e \in count .. Half
      BY <1>1 DEF BeyondShape
    <2> QED
      BY <1>2, <2>1, <2>2, <2>3, <2>4 DEF BeyondMoves
  <1> QED
    BY <1>1, <1>11

LEMMA BeyondKeepsOwnership ==
    ASSUME TypeOK, NoTwoEntries, HeldIffOwned, NEW p \in Packets, NEW n \in Nat,
           NEW k \in 0 .. count, owner[p] = "caller", PushBeyond(p, n, k)
    PROVE  NoTwoEntries' /\ HeldIffOwned'
  <1> DEFINE evicted == {queue[At(i)].user : i \in {j \in 0 .. k - 1 : Set(j)}}
  <1>1. PICK e \in Nat, m \in Nat : BeyondMoves(p, k, e, m)
    BY BeyondEntries
  <1>2. /\ count' = e - m + 1 /\ k \in 0 .. count /\ count \in Nat /\ count <= e
        /\ m \in 0 .. e
    BY <1>1, Widths DEF BeyondMoves, TypeOK
  <1>3. owner' = [q \in Packets |-> IF q = p THEN "queue"
                                    ELSE IF q \in evicted THEN "caller"
                                    ELSE owner[q]]
    BY DEF PushBeyond
  <1> HIDE DEF evicted
  <1>5. ASSUME NEW i \in 0 .. count' - 1
        PROVE  i \in Int /\ i <= e - m /\ (i # e - m => i \in 0 .. e - m - 1)
    BY <1>2
  <1>7. e - m \in 0 .. count' - 1
    BY <1>2
  <1>8. ASSUME NEW i \in 0 .. count' - 1
        PROVE  i = e - m => Set(i)' /\ queue'[At(i)'].user = p
    BY <1>1 DEF BeyondMoves
  <1>9. ASSUME NEW i \in 0 .. count' - 1, i # e - m, Set(i)'
        PROVE  /\ k + i \in k .. count - 1 /\ k + i \in 0 .. count - 1
               /\ Set(k + i) /\ queue'[At(i)'].user = queue[At(k + i)].user
    <2>1. /\ k + i \in k .. count - 1
          /\ Set(k + i) /\ queue'[At(i)'].user = queue[At(k + i)].user
      BY <1>1, <1>5, <1>9 DEF BeyondMoves
    <2> QED
      BY <1>2, <2>1
  <1>10. ASSUME NEW j \in k .. count - 1, Set(j)
         PROVE  /\ j - k \in 0 .. count' - 1 /\ j - k # e - m
                /\ Set(j - k)' /\ queue'[At(j - k)'].user = queue[At(j)].user
    <2>1. /\ j - k \in 0 .. e - m - 1
          /\ Set(j - k)' /\ queue'[At(j - k)'].user = queue[At(j)].user
      BY <1>1, <1>10 DEF BeyondMoves
    <2> QED
      BY <1>2, <2>1
  <1>11. ASSUME NEW j \in 0 .. count - 1, Set(j)
         PROVE  queue[At(j)].user # p
    BY <1>11 DEF HeldIffOwned
  <1>12. NoTwoEntries'
    <2> SUFFICES ASSUME NEW i \in 0 .. count' - 1, NEW j \in 0 .. count' - 1,
                        Set(i)', Set(j)',
                        queue'[At(i)'].user = queue'[At(j)'].user
                 PROVE  i = j
      BY DEF NoTwoEntries
    <2>1. CASE i = e - m /\ j = e - m
      BY <2>1
    <2>2. CASE i = e - m /\ j # e - m
      BY <2>2, <1>8, <1>9, <1>11
    <2>3. CASE i # e - m /\ j = e - m
      BY <2>3, <1>8, <1>9, <1>11
    <2>4. CASE i # e - m /\ j # e - m
      <3>1. k + i = k + j
        BY <2>4, <1>9 DEF NoTwoEntries
      <3> QED
        BY <1>2, <1>5, <3>1
    <2> QED
      BY <2>1, <2>2, <2>3, <2>4
  <1>13. HeldIffOwned'
    <2> SUFFICES ASSUME NEW q \in Packets
                 PROVE  owner'[q] = "queue" <=>
                          \E i \in 0 .. count' - 1 : Set(i)' /\ queue'[At(i)'].user = q
      BY DEF HeldIffOwned
    <2>1. CASE q = p
      BY <1>3, <1>7, <1>8, <2>1
    <2>2. CASE q # p /\ q \in evicted
      <3>1. owner'[q] = "caller"
        BY <1>3, <2>2
      <3>2. PICK j \in 0 .. k - 1 : Set(j) /\ queue[At(j)].user = q
        BY <2>2 DEF evicted
      <3>3. j \in 0 .. count - 1 /\ j < k
        BY <1>2
      <3>4. ASSUME NEW i \in 0 .. count' - 1, Set(i)', queue'[At(i)'].user = q
            PROVE  FALSE
        <4>1. i # e - m
          BY <1>8, <2>2, <3>4
        <4>2. k + i = j
          BY <1>9, <3>2, <3>3, <3>4, <4>1 DEF NoTwoEntries
        <4> QED
          BY <1>2, <1>5, <3>3, <4>2
      <3> QED
        BY <3>1, <3>4
    <2>3. CASE q # p /\ q \notin evicted
      <3>1. owner'[q] = owner[q]
        BY <1>3, <2>3
      <3>2. ASSUME NEW j \in 0 .. count - 1, Set(j), queue[At(j)].user = q
            PROVE  \E i \in 0 .. count' - 1 : Set(i)' /\ queue'[At(i)'].user = q
        <4>1. j \notin 0 .. k - 1
          BY <2>3, <3>2 DEF evicted
        <4>2. j \in k .. count - 1
          BY <1>2, <4>1
        <4> QED
          BY <1>10, <3>2, <4>2
      <3>3. ASSUME NEW i \in 0 .. count' - 1, Set(i)', queue'[At(i)'].user = q
            PROVE  \E j \in 0 .. count - 1 : Set(j) /\ queue[At(j)].user = q
        <4>1. i # e - m
          BY <1>8, <2>3, <3>3
        <4> QED
          BY <1>9, <3>3, <4>1
      <3> QED
        BY <3>1, <3>2, <3>3 DEF HeldIffOwned
    <2> QED
      BY <2>1, <2>2, <2>3
  <1> QED
    BY <1>12, <1>13

-----------------------------------------------------------------------------
(* The invariant: types, ownership while open, nothing kept once closed. *)

IInv == TypeOK /\ OneOwner /\ NothingLeaked

LEMMA InitIInv == Init => IInv
  <1> SUFFICES ASSUME Init PROVE IInv
    OBVIOUS
  <1>1. Wrap(Start) \in SeqNums
    BY PositionsAssumption, NumbersAreIntegers
  <1>2. TypeOK
    BY <1>1, Widths, EntryType, PositionsAssumption DEF Init, TypeOK, Unset
  <1>3. OneOwner /\ NothingLeaked
    BY DEF Init, OneOwner, NoTwoEntries, HeldIffOwned, NothingLeaked
  <1> QED
    BY <1>2, <1>3 DEF IInv

LEMMA TypeStep == TypeOK /\ [Next]_vars => TypeOK'
  <1> SUFFICES ASSUME TypeOK, [Next]_vars PROVE TypeOK'
    OBVIOUS
  <1>a. /\ begin \in SeqNums /\ begin \in Int /\ count \in 0 .. Size /\ count \in Int
        /\ Size \in Nat /\ Size > 1
    BY Widths, NumbersAreIntegers DEF TypeOK
  <1>b. \A i \in 0 .. count - 1 : At(i) \in 0 .. Size - 1 /\ Set(i) \in BOOLEAN
                                  /\ (Set(i) => queue[At(i)].user \in Packets)
    BY EntryUser
  <1>c. ASSUME NEW ps, Release(ps)
        PROVE  owner' \in [Packets -> {"caller", "queue"}] /\ pos' \in [Packets -> Nat]
    BY <1>c DEF Release, TypeOK
  <1>d. ASSUME Advance, count > 0
        PROVE  /\ begin' \in SeqNums /\ count' \in 0 .. Size /\ first' \in Nat
               /\ hint' \in {Invalid} \union 0 .. Size - 1
    <2>1. count - 1 \in 0 .. Size /\ count - 1 < Size
      BY <1>a, <1>d
    <2>2. hint' \in {Invalid} \union 0 .. Size - 1
      BY <1>a, <1>d, <2>1, HintType DEF Advance
    <2>3. begin' \in SeqNums
      BY <1>a, <1>d, NumbersAreIntegers DEF Advance
    <2> QED
      BY <1>d, <2>1, <2>2, <2>3 DEF Advance, TypeOK
  <1>1. ASSUME NEW p \in Packets, NEW n \in Int, Push(p, n)
        PROVE  TypeOK'
    <2>1. /\ n \in Nat /\ n \in Int /\ Wrap(n) \in SeqNums
          /\ pulled' = Nothing /\ found' = NoCall /\ refused' \in {Nowhere} \union Nat
      BY <1>1, PositionsAssumption, NumbersAreIntegers DEF Push
    <2>2. CASE UNCHANGED <<implVars, first, pos, owner, phase>>
      BY <2>1, <2>2 DEF TypeOK, implVars
    <2>3. CASE PushAborts(Wrap(n))
      BY <2>1, <2>3 DEF TypeOK, PushAborts, implVars
    <2>4. CASE PushInside(p, n)
      <3>1. /\ hint' \in {Invalid} \union 0 .. Size - 1
        BY <1>a, <2>1, <2>4, HintType DEF PushInside
      <3>2. Idx(Wrap(n)) \in 0 .. Size - 1
        <4>1. Wrap(n) \in Int
          BY <1>a, <2>1, NumbersAreIntegers
        <4> QED
          BY <4>1, SlotOfNumber
      <3>3. /\ queue' \in [0 .. Size - 1 -> [set : BOOLEAN, user : Packets \union {NULL}]]
            /\ \A s \in 0 .. Size - 1 : queue'[s].set => queue'[s].user \in Packets
        BY <2>4, <3>2, EntryType DEF PushInside, TypeOK
      <3>4. owner' \in [Packets -> {"caller", "queue"}] /\ pos' \in [Packets -> Nat]
        BY <2>1, <2>4 DEF PushInside, TypeOK
      <3> QED
        BY <2>1, <2>4, <3>1, <3>3, <3>4 DEF PushInside, TypeOK
    <2>5. ASSUME NEW k \in 0 .. count, PushBeyond(p, n, k)
          PROVE  TypeOK'
      <3> DEFINE s == Wrap(n)
                 b == NewBegin(s, k)
      <3>1. PICK e \in Nat, m \in Nat : BeyondShape(s, k, e, m)
        BY <2>1, <2>5, BeyondHasShape
      <3>2. b = Add(begin, m) /\ Distance(b, Add(s, 1)) = e - m + 1
            /\ m \in 0 .. e /\ e - m + 1 <= Size
        BY <3>1 DEF BeyondShape
      <3>3. b \in SeqNums /\ Distance(b, Add(s, 1)) \in 0 .. Size
        BY <1>a, <3>2, NumbersAreIntegers
      <3> HIDE DEF b
      <3>4. /\ begin' = b /\ count' = Distance(b, Add(s, 1))
            /\ first' = first + Distance(begin, b)
            /\ hint' = HintAfterSet(b, Distance(b, Add(s, 1)), s)
            /\ phase' = phase
        BY <2>5 DEF PushBeyond, b
      <3>5. /\ begin' \in SeqNums /\ count' \in 0 .. Size
            /\ hint' \in {Invalid} \union 0 .. Size - 1
        BY <2>1, <3>3, <3>4, HintType
      <3>6. first' \in Nat
        <4>1. Distance(begin, b) \in Nat
          BY <1>a, <3>3, AddDistance, Widths
        <4> QED
          BY <3>4, <4>1 DEF TypeOK
      <3>7. \A t \in 0 .. Size - 1 :
               /\ [queue[t] EXCEPT !.set = FALSE]
                    \in [set : BOOLEAN, user : Packets \union {NULL}]
               /\ ~[queue[t] EXCEPT !.set = FALSE].set
        BY DEF TypeOK
      <3>8. /\ queue' \in [0 .. Size - 1 -> [set : BOOLEAN, user : Packets \union {NULL}]]
            /\ \A t \in 0 .. Size - 1 : queue'[t].set => queue'[t].user \in Packets
        BY <2>5, <3>7, EntryType DEF PushBeyond, TypeOK
      <3>9. owner' \in [Packets -> {"caller", "queue"}] /\ pos' \in [Packets -> Nat]
        BY <2>1, <2>5 DEF PushBeyond, TypeOK
      <3> QED
        BY <2>1, <3>4, <3>5, <3>6, <3>8, <3>9 DEF TypeOK
    <2> QED
      BY <1>1, <2>2, <2>3, <2>4, <2>5 DEF Push
  <1>2. CASE Pull
    <2>1. queue[At(0)].user \in Packets /\ pos[queue[At(0)].user] \in Nat
      BY <1>2, <1>a, <1>b DEF Pull, TypeOK
    <2>2. pulled' \in Nat \X Packets /\ found' = NoCall /\ queue' = queue /\ phase' = phase
      BY <1>2, <2>1 DEF Pull
    <2> QED
      BY <1>2, <1>c, <1>d, <2>2 DEF Pull, TypeOK
  <1>3. CASE SkipGap
    <2>1. At(0) \in 0 .. Size - 1
      BY <1>3, <1>a, <1>b DEF SkipGap
    <2>2. /\ queue' \in [0 .. Size - 1 -> [set : BOOLEAN, user : Packets \union {NULL}]]
          /\ \A s \in 0 .. Size - 1 : queue'[s].set => queue'[s].user \in Packets
      BY <1>3, <2>1, EntryType DEF SkipGap, TypeOK
    <2> QED
      BY <1>3, <1>c, <1>d, <2>2 DEF SkipGap, TypeOK
  <1>4. ASSUME NEW i \in 0 .. Size - 1, Drop(i)
        PROVE  TypeOK'
    <2>1. i \in 0 .. count - 1 /\ At(i) \in 0 .. Size - 1
      BY <1>4, <1>a, <1>b DEF Drop
    <2>2. /\ queue' \in [0 .. Size - 1 -> [set : BOOLEAN, user : Packets \union {NULL}]]
          /\ \A s \in 0 .. Size - 1 : queue'[s].set => queue'[s].user \in Packets
      BY <1>4, <2>1, EntryType DEF Drop, TypeOK
    <2>3. count' \in 0 .. Size
      BY <1>4, <1>a, <2>1 DEF Drop, Trimmed
    <2>4. hint' \in {Invalid} \union 0 .. Size - 1
      <3>1. ASSUME NEW n \in 0 .. Size, NEW h \in HintsAfterDrop(i, n)
            PROVE  h \in {Invalid} \union 0 .. Size - 1
        BY <3>1, <1>a, <2>1 DEF HintsAfterDrop, TypeOK
      <3> QED
        BY <1>4, <2>3, <3>1 DEF Drop
    <2> QED
      BY <1>4, <1>c, <2>2, <2>3, <2>4 DEF Drop, TypeOK
  <1>5. CASE FindFirstSet
    <2>1. FindStart \in 0 .. Size - 1 \/ count = 0
      BY <1>a DEF FindStart, TypeOK, Invalid
    <2>2. /\ found' \in {NoCall, Invalid} \union 0 .. Size - 1
          /\ hint' \in {Invalid} \union 0 .. Size - 1
      <3>1. FindStart \in Nat
        BY <1>a DEF FindStart, TypeOK, Invalid
      <3> QED
        BY <1>5, <1>a, <3>1 DEF FindFirstSet, TypeOK
    <2> QED
      BY <1>5, <2>2 DEF FindFirstSet, TypeOK
  <1>6. CASE Fini
    BY <1>6, <1>c DEF Fini, TypeOK, implVars
  <1>7. CASE UNCHANGED vars
    BY <1>7 DEF vars, TypeOK
  <1> QED
    BY <1>1, <1>2, <1>3, <1>4, <1>5, <1>6, <1>7, PositionsAssumption DEF Next, TypeOK

LEMMA OwnershipStep == IInv /\ [Next]_vars => (OneOwner /\ NothingLeaked)'
  <1> SUFFICES ASSUME IInv, [Next]_vars PROVE (OneOwner /\ NothingLeaked)'
    OBVIOUS
  <1> USE DEF IInv
  <1>a. count \in Int /\ (phase = "open" => NoTwoEntries /\ HeldIffOwned)
    BY Widths DEF TypeOK, OneOwner
  <1>b. ASSUME UNCHANGED <<begin, count, queue, owner>>
        PROVE  NoTwoEntries' = NoTwoEntries /\ HeldIffOwned' = HeldIffOwned
    BY <1>b DEF NoTwoEntries, HeldIffOwned, At, Set
  <1>1. ASSUME NEW p \in Packets, NEW n \in Int, Push(p, n)
        PROVE  (OneOwner /\ NothingLeaked)'
    <2>1. /\ phase = "open" /\ owner[p] = "caller" /\ n \in Nat
          /\ NoTwoEntries /\ HeldIffOwned
      BY <1>1, <1>a, PositionsAssumption DEF Push
    <2>2. CASE UNCHANGED <<implVars, first, pos, owner, phase>>
      BY <1>b, <2>1, <2>2 DEF OneOwner, NothingLeaked, implVars
    <2>3. CASE PushAborts(Wrap(n))
      BY <2>3 DEF PushAborts, OneOwner, NothingLeaked
    <2>4. CASE PushInside(p, n)
      BY <2>1, <2>4, InsideKeepsOwnership DEF PushInside, OneOwner, NothingLeaked
    <2>5. ASSUME NEW k \in 0 .. count, PushBeyond(p, n, k)
          PROVE  (OneOwner /\ NothingLeaked)'
      BY <2>1, <2>5, BeyondKeepsOwnership DEF PushBeyond, OneOwner, NothingLeaked
    <2> QED
      BY <1>1, <2>2, <2>3, <2>4, <2>5 DEF Push
  <1>2. CASE Pull
    <2>1. \A i \in 1 .. count - 1 : queue'[At(i)] = queue[At(i)]
      BY <1>2 DEF Pull
    <2>2. Release(IF Set(0) THEN {queue[At(0)].user} ELSE {})
      BY <1>2 DEF Pull
    <2>3. NoTwoEntries' /\ HeldIffOwned'
      BY <1>2, <1>a, <2>1, <2>2, HeadGone DEF Pull, Advance
    <2> QED
      BY <1>2, <2>3 DEF Pull, OneOwner, NothingLeaked
  <1>3. CASE SkipGap
    <2>1. ASSUME NEW i \in 1 .. count - 1
          PROVE  queue'[At(i)] = queue[At(i)]
      <3>1. /\ i \in 0 .. count - 1 /\ 0 \in 0 .. count - 1 /\ i # 0
            /\ At(i) \in 0 .. Size - 1
        BY <1>a, EntryUser
      <3>2. At(i) # At(0)
        BY <3>1, EntriesApart
      <3> QED
        BY <1>3, <3>1, <3>2 DEF SkipGap, TypeOK
    <2>2. NoTwoEntries' /\ HeldIffOwned'
      BY <1>3, <1>a, <2>1, HeadGone DEF SkipGap, Advance
    <2> QED
      BY <1>3, <2>2 DEF SkipGap, OneOwner, NothingLeaked
  <1>4. ASSUME NEW i \in 0 .. Size - 1, Drop(i)
        PROVE  (OneOwner /\ NothingLeaked)'
    <2>1. i \in Nat
      BY Widths
    <2>2. NoTwoEntries' /\ HeldIffOwned'
      BY <1>4, <1>a, <2>1, DropKeepsOwnership DEF Drop
    <2> QED
      BY <1>4, <2>2 DEF Drop, OneOwner, NothingLeaked
  <1>5. CASE FindFirstSet
    BY <1>5, <1>b DEF FindFirstSet, OneOwner, NothingLeaked
  <1>6. CASE Fini
    <2>1. ASSUME NEW p \in Packets, owner[p] = "queue"
          PROVE  p \in Held
      <3>1. PICK i \in 0 .. count - 1 : Set(i) /\ queue[At(i)].user = p
        BY <1>6, <1>a, <2>1 DEF Fini, HeldIffOwned
      <3> QED
        BY <3>1 DEF Held, Window, Set
    <2>2. ASSUME NEW p \in Packets
          PROVE  owner'[p] = "caller"
      BY <1>6, <2>1, <2>2 DEF Fini, Release, TypeOK
    <2> QED
      BY <1>6, <2>2 DEF Fini, OneOwner, NothingLeaked
  <1>7. CASE UNCHANGED vars
    BY <1>7, <1>b DEF vars, OneOwner, NothingLeaked
  <1> QED
    BY <1>1, <1>2, <1>3, <1>4, <1>5, <1>6, <1>7, PositionsAssumption DEF Next, TypeOK

LEMMA Invariance == Spec => []IInv
  <1>1. Init => IInv
    BY InitIInv
  <1>2. IInv /\ [Next]_vars => IInv'
    BY TypeStep, OwnershipStep DEF IInv
  <1> QED
    BY <1>1, <1>2, PTL DEF Spec

\* Every operation keeps the fields of the queue in their ranges: in particular
\* count never exceeds the ring, which push asserts, whatever is pushed.
THEOREM TypeCorrect == Spec => []TypeOK
  <1>1. IInv => TypeOK
    BY DEF IInv
  <1> QED
    BY <1>1, Invariance, PTL

\* Exactly one set entry of the window refers to a packet that was pushed and
\* not yet given back, and none to any other: no leak, no second free, no read
\* of a flag left over from an earlier lap of the ring.
THEOREM Ownership == Spec => []OneOwner
  <1>1. IInv => OneOwner
    BY DEF IInv
  <1> QED
    BY <1>1, Invariance, PTL

\* chiaki_reorder_queue_fini gives back every packet the queue still holds.
THEOREM FiniReleasesAll == Spec => []NothingLeaked
  <1>1. IInv => NothingLeaked
    BY DEF IInv
  <1> QED
    BY <1>1, Invariance, PTL
-----------------------------------------------------------------------------
(* Stream positions *)

\* Packet p is the entry at stream position n.
Buffered(n, p) ==
    \E i \in 0 .. count - 1 : Set(i) /\ n = first + i /\ queue[At(i)].user = p

\* The numbers of the ring stand for the positions of the stream.
InPlace ==
    /\ begin = Wrap(first)
    /\ phase = "open" => \A n \in Nat, p \in Packets : Buffered(n, p) => pos[p] = n

\* Positions less than the number space apart are told apart by their numbers.
LEMMA SamePosition ==
    ASSUME NEW a \in Int, NEW b \in Int, Wrap(a) = Wrap(b), a - b < Modulus, b - a < Modulus
    PROVE  a = b
  <1>1. CASE a < b
    BY <1>1, Widths, ResiduesDiffer DEF Wrap
  <1>2. CASE b < a
    BY <1>2, Widths, ResiduesDiffer DEF Wrap
  <1> QED
    BY <1>1, <1>2

\* What push finds out about a number is so of its position.
LEMMA PositionsAreNear ==
    ASSUME TypeOK, InPlace, Reach < Half, NEW n \in Nat, n >= first - Reach, n <= first + Reach
    PROVE  /\ Late(Wrap(n)) => n < first
           /\ InWindow(Wrap(n)) => n \in first .. first + count - 1
           /\ n >= first /\ n < first + count => InWindow(Wrap(n))
           /\ n < first => Late(Wrap(n))
           /\ n >= first + count => Ge(Wrap(n), End)
  <1>1. /\ first \in Int /\ first >= 0 /\ count \in Int /\ 0 <= count /\ count <= Size
        /\ begin = Wrap(first) /\ Reach \in Nat /\ Reach < Half /\ Size < Half /\ Half \in Int
        /\ Size \in Int
    BY Widths, PositionsAssumption DEF TypeOK, InPlace
  <1>2. End = Wrap(first + count)
    BY <1>1, AddSeq DEF End
  <1>3. /\ Lt(Wrap(n), begin) <=> n < first
        /\ Gt(Wrap(n), begin) <=> n > first
        /\ Wrap(n) = begin <=> n = first
    BY <1>1, ComparisonOfPositions
  <1>4. ASSUME n >= first
        PROVE  /\ Lt(Wrap(n), End) <=> n < first + count
               /\ Gt(Wrap(n), End) <=> n > first + count
               /\ Wrap(n) = End <=> n = first + count
    <2> DEFINE e == first + count
    <2>1. e \in Int /\ n <= e + Reach /\ e <= n + Size
      BY <1>1, <1>4
    <2> HIDE DEF e
    <2>2. n - e < Half /\ e - n < Half
      BY <1>1, <2>1
    <2>3. /\ Lt(Wrap(n), Wrap(e)) <=> n < e
          /\ Gt(Wrap(n), Wrap(e)) <=> n > e
          /\ Wrap(n) = Wrap(e) <=> n = e
      BY <2>1, <2>2, ComparisonOfPositions
    <2> QED
      BY <1>2, <2>3 DEF e
  <1> QED
    BY <1>1, <1>3, <1>4 DEF Late, InWindow, Ge

\* The assertion of push cannot fail.
LEMMA NoAbort ==
    ASSUME TypeOK, InPlace, Reach < Half, NEW n \in Nat, n >= first - Reach, n <= first + Reach
    PROVE  ~PushAborts(Wrap(n))
  <1>1. first \in Int /\ count \in Int
    BY Widths DEF TypeOK
  <1> QED
    BY <1>1, PositionsAreNear DEF PushAborts

\* A packet that fills a gap.
LEMMA InsideBuffered ==
    ASSUME TypeOK, InPlace, Reach < Half, NEW n \in Nat, n >= first - Reach, n <= first + Reach,
           NEW p \in Packets, PushInside(p, n)
    PROVE  /\ n \in first .. first + count - 1
           /\ \A q \in Packets : ~Buffered(n, q)
           /\ \A m \in Nat, q \in Packets :
                 Buffered(m, q)' <=> Buffered(m, q) \/ (m = n /\ q = p)
  <1>1. PICK d \in Nat : InsideMoves(p, d) /\ Wrap(n) = Add(begin, d)
    BY InsideEntries
  <1>2. /\ first \in Int /\ count \in Int /\ count <= Size /\ d \in 0 .. count - 1 /\ d \in Int
        /\ begin = Wrap(first) /\ Reach \in Nat /\ Size < Half /\ Modulus = 2 * Half
        /\ Half \in Int /\ Size \in Int /\ count' = count /\ first' = first
    BY <1>1, Widths, PositionsAssumption DEF TypeOK, InPlace, InsideMoves, PushInside
  <1>3. n = first + d
    <2>1. Wrap(n) = Wrap(first + d)
      BY <1>1, <1>2, AddSeq
    <2> DEFINE a == first + d
    <2>2. a \in Int /\ n <= a + Reach /\ a <= n + Reach + Size
      BY <1>2
    <2> HIDE DEF a
    <2>3. n - a < Modulus /\ a - n < Modulus
      BY <1>2, <2>2
    <2>4. Wrap(n) = Wrap(a)
      BY <2>1 DEF a
    <2>5. n = a
      BY <2>2, <2>3, <2>4, SamePosition
    <2> QED
      BY <2>5 DEF a
  <1>4. \A i \in 0 .. count - 1 : first + i = n => i = d
    BY <1>2, <1>3
  <1>5. \A q \in Packets : ~Buffered(n, q)
    BY <1>1, <1>4 DEF Buffered, InsideMoves
  <1>6. ASSUME NEW m \in Nat, NEW q \in Packets
        PROVE  Buffered(m, q)' <=> Buffered(m, q) \/ (m = n /\ q = p)
    <2>1. Buffered(m, q)' <=>
              \E i \in 0 .. count - 1 : Set(i)' /\ m = first + i /\ queue'[At(i)'].user = q
      BY <1>2 DEF Buffered
    <2>2. CASE m = n
      <3>1. /\ d \in 0 .. count - 1 /\ Set(d)' /\ queue'[At(d)'].user = p
        BY <1>1 DEF InsideMoves
      <3> QED
        BY <1>3, <1>4, <1>5, <2>1, <2>2, <3>1
    <2>3. CASE m # n
      <3>1. \A i \in 0 .. count - 1 : m = first + i => i # d
        BY <1>3, <2>3
      <3>2. \A i \in 0 .. count - 1 : i # d =>
                (Set(i)' <=> Set(i)) /\ queue'[At(i)'].user = queue[At(i)].user
        BY <1>1 DEF InsideMoves
      <3> QED
        BY <2>1, <2>3, <3>1, <3>2 DEF Buffered
    <2> QED
      BY <2>2, <2>3
  <1> QED
    BY <1>2, <1>3, <1>5, <1>6

\* A packet beyond the end.
LEMMA BeyondBuffered ==
    ASSUME TypeOK, InPlace, Reach < Half, NEW n \in Nat, n >= first - Reach, n <= first + Reach,
           NEW p \in Packets, NEW k \in 0 .. count, PushBeyond(p, n, k)
    PROVE  /\ begin' = Wrap(first')
           /\ first' \in Nat /\ first' >= first + k /\ n >= first + count
           /\ n >= first' /\ n < first' + Size
           /\ Overflows(Wrap(n)) \/ first' = first
           /\ \A m \in Nat, q \in Packets :
                 Buffered(m, q)' <=> (m >= first' /\ Buffered(m, q)) \/ (m = n /\ q = p)
  <1>1. PICK e \in Nat, m \in Nat : BeyondShape(Wrap(n), k, e, m) /\ BeyondMoves(p, k, e, m)
    BY BeyondEntries
  <1>2. /\ first \in Int /\ first >= 0 /\ count \in Int /\ count <= Size /\ count >= 0
        /\ begin = Wrap(first) /\ Reach \in Nat /\ Size < Half /\ Modulus = 2 * Half
        /\ Half \in Int /\ Size \in Int
    BY Widths, PositionsAssumption DEF TypeOK, InPlace
  <1>3. /\ e \in count .. Half /\ Wrap(n) = Add(begin, e) /\ m \in 0 .. e
        /\ e - m + 1 <= Size /\ (m = k \/ (k = count /\ m = e))
        /\ Overflows(Wrap(n)) \/ m = 0
    BY <1>1 DEF BeyondShape
  <1>4. n = first + e
    <2>1. Wrap(n) = Wrap(first + e)
      BY <1>2, <1>3, AddSeq
    <2>2. first + e \in Int /\ n - (first + e) < Modulus /\ (first + e) - n < Modulus
      BY <1>2, <1>3
    <2> QED
      BY <2>1, <2>2, SamePosition
  <1>5. first' = first + m /\ begin' = Wrap(first + m)
    <2>1. begin' = Add(begin, m) /\ Add(begin, m) = Wrap(first + m)
      BY <1>1, <1>2, AddSeq DEF BeyondMoves
    <2>2. m \in 0 .. Modulus - 1
      BY <1>2, <1>3, Widths
    <2>3. Distance(begin, Wrap(first + m)) = m
      BY <1>2, <2>2, DistanceOfPositions
    <2>4. first' = first + Distance(begin, begin')
      BY DEF PushBeyond
    <2> QED
      BY <2>1, <2>3, <2>4
  <1>6. count' = e - m + 1 /\ Set(e - m)' /\ queue'[At(e - m)'].user = p
    BY <1>1 DEF BeyondMoves
  <1>7. ASSUME NEW l \in Nat, NEW q \in Packets
        PROVE  Buffered(l, q)' <=> (l >= first' /\ Buffered(l, q)) \/ (l = n /\ q = p)
    <2>1. Buffered(l, q)' <=>
              \E i \in 0 .. e - m : Set(i)' /\ l = first + m + i /\ queue'[At(i)'].user = q
      <3>1. e - m + 1 - 1 = e - m
        BY <1>3
      <3> QED
        BY <1>5, <1>6, <3>1 DEF Buffered
    <2>2. ASSUME NEW i \in 0 .. e - m, Set(i)', l = first + m + i, queue'[At(i)'].user = q
          PROVE  (l >= first' /\ Buffered(l, q)) \/ (l = n /\ q = p)
      <3>1. CASE i = e - m
        BY <1>2, <1>3, <1>4, <1>6, <2>2, <3>1
      <3>2. CASE i # e - m
        <4>1. i \in 0 .. e - m - 1
          BY <1>3, <3>2
        <4>2. /\ m = k /\ k + i \in k .. count - 1 /\ Set(k + i)
              /\ queue[At(k + i)].user = q
          BY <1>1, <2>2, <4>1 DEF BeyondMoves
        <4>3. k + i \in 0 .. count - 1 /\ l = first + (k + i) /\ l >= first + m
          BY <1>2, <1>3, <2>2, <4>1, <4>2
        <4> QED
          BY <1>5, <4>2, <4>3 DEF Buffered
      <3> QED
        BY <3>1, <3>2
    <2>3. ASSUME l >= first', Buffered(l, q)
          PROVE  Buffered(l, q)'
      <3>1. PICK j \in 0 .. count - 1 : Set(j) /\ l = first + j /\ queue[At(j)].user = q
        BY <2>3 DEF Buffered
      <3>2. j >= m /\ j \in k .. count - 1
        BY <1>2, <1>3, <1>5, <2>3, <3>1
      <3>3. /\ m = k /\ j - k \in 0 .. e - m - 1 /\ Set(j - k)'
            /\ queue'[At(j - k)'].user = q
        BY <1>1, <3>1, <3>2 DEF BeyondMoves
      <3>4. j - k \in 0 .. e - m /\ l = first + m + (j - k)
        BY <1>2, <1>3, <3>1, <3>2, <3>3
      <3> QED
        BY <2>1, <3>3, <3>4
    <2>4. ASSUME l = n, q = p
          PROVE  Buffered(l, q)'
      <3>1. e - m \in 0 .. e - m /\ l = first + m + (e - m)
        BY <1>2, <1>3, <1>4, <2>4
      <3> QED
        BY <1>6, <2>1, <2>4, <3>1
    <2> QED
      BY <2>1, <2>2, <2>3, <2>4
  <1>8. /\ first' \in Nat /\ first' >= first + k /\ n >= first + count
        /\ n >= first' /\ n < first' + Size
    <2>1. /\ first' = first + m /\ n = first + e /\ m \in Int /\ m >= 0 /\ m <= e
          /\ e \in Int /\ e >= count /\ e < m + Size /\ k \in Int /\ k <= m
      BY <1>2, <1>3, <1>4, <1>5
    <2>2. first + m \in Nat /\ first + m >= first + k /\ n >= first + count
      BY <1>2, <2>1
    <2>3. n >= first + m /\ n < first + m + Size
      BY <1>2, <2>1, Widths
    <2> QED
      BY <2>1, <2>2, <2>3
  <1>9. Overflows(Wrap(n)) \/ first' = first
    BY <1>2, <1>3, <1>5
  <1> QED
    BY <1>5, <1>7, <1>8, <1>9

\* The head goes.
LEMMA HeadBuffered ==
    ASSUME TypeOK, InPlace, count > 0, Advance,
           \A i \in 1 .. count - 1 : queue'[At(i)] = queue[At(i)],
           NEW m \in Nat, NEW q \in Packets
    PROVE  Buffered(m, q)' <=> m # first /\ Buffered(m, q)
  <1>1. /\ begin' = Add(begin, 1) /\ count' = count - 1 /\ first' = first + 1
        /\ first \in Int /\ count \in Int
    BY Widths DEF Advance, TypeOK
  <1>2. \A i \in 0 .. count' - 1 :
           /\ i + 1 \in 0 .. count - 1
           /\ Set(i)' <=> Set(i + 1)
           /\ queue'[At(i)'].user = queue[At(i + 1)].user
    BY <1>1, HeadEntries
  <1>3. ASSUME NEW i \in 0 .. count' - 1, Set(i)', m = first' + i, queue'[At(i)'].user = q
        PROVE  m # first /\ Buffered(m, q)
    <2>1. i + 1 \in 0 .. count - 1 /\ m = first + (i + 1) /\ m # first
      BY <1>1, <1>2, <1>3
    <2> QED
      BY <1>2, <1>3, <2>1 DEF Buffered
  <1>4. ASSUME NEW j \in 0 .. count - 1, Set(j), m = first + j, queue[At(j)].user = q, m # first
        PROVE  Buffered(m, q)'
    <2>1. j - 1 \in 0 .. count' - 1 /\ (j - 1) + 1 = j /\ m = first' + (j - 1)
      BY <1>1, <1>4
    <2> QED
      BY <1>2, <1>4, <2>1 DEF Buffered
  <1> QED
    BY <1>3, <1>4 DEF Buffered

\* An entry is dropped.
LEMMA DropBuffered ==
    ASSUME TypeOK, InPlace, NEW d \in Nat, Drop(d), NEW m \in Nat, NEW q \in Packets
    PROVE  Buffered(m, q)' <=> m # first + d /\ Buffered(m, q)
  <1>1. PICK c \in Nat : count' = c /\ c <= count
    BY DropEntries, Widths DEF TypeOK
  <1>2. first' = first /\ first \in Int /\ count \in Int
    BY Widths DEF Drop, TypeOK
  <1>3. /\ \A i \in 0 .. count - 1 : Set(i) /\ i # d => i < c
        /\ \A i \in 0 .. c - 1 : Set(i)' <=> i # d /\ Set(i)
        /\ \A i \in 0 .. c - 1 : i # d => queue'[At(i)'].user = queue[At(i)].user
    BY <1>1, DropEntries
  <1>4. \A i \in 0 .. c - 1 : i \in 0 .. count - 1
    BY <1>1, <1>2
  <1>5. ASSUME NEW i \in 0 .. c - 1, Set(i)', m = first + i, queue'[At(i)'].user = q
        PROVE  m # first + d /\ Buffered(m, q)
    <2>1. m # first + d
      BY <1>2, <1>3, <1>5
    <2> QED
      BY <1>3, <1>4, <1>5, <2>1 DEF Buffered
  <1>6. ASSUME NEW j \in 0 .. count - 1, Set(j), m = first + j, queue[At(j)].user = q,
               m # first + d
        PROVE  Buffered(m, q)'
    <2>1. j # d /\ j \in 0 .. c - 1
      BY <1>1, <1>2, <1>3, <1>6
    <2> QED
      BY <1>1, <1>2, <1>3, <1>6, <2>1 DEF Buffered
  <1> QED
    BY <1>1, <1>2, <1>5, <1>6 DEF Buffered


\* The positions of the packets after each operation.
LEMMA PlacesStay ==
    ASSUME IInv, InPlace, Reach < Half, [Next]_vars
    PROVE  InPlace'
  <1> USE DEF IInv
  <1>a. /\ begin = Wrap(first) /\ first \in Nat /\ first \in Int /\ count \in Int
        /\ phase = "open" => NoTwoEntries /\ HeldIffOwned
        /\ phase = "open" => \A n \in Nat, p \in Packets : Buffered(n, p) => pos[p] = n
    BY Widths DEF TypeOK, InPlace, OneOwner
  <1>b. ASSUME phase = "open", NEW i \in 0 .. count - 1, Set(i), NEW n \in Nat, NEW q \in Packets,
               Buffered(n, q), n # first + i
        PROVE  q # queue[At(i)].user
    <2>1. PICK j \in 0 .. count - 1 : Set(j) /\ n = first + j /\ queue[At(j)].user = q
      BY <1>b DEF Buffered
    <2> QED
      BY <1>a, <1>b, <2>1 DEF NoTwoEntries
  <1>1. ASSUME NEW p \in Packets, NEW n \in first - Reach .. first + Reach, Push(p, n)
        PROVE  InPlace'
    <2>1. /\ phase = "open" /\ owner[p] = "caller" /\ n \in Nat
          /\ n >= first - Reach /\ n <= first + Reach
      BY <1>1, <1>a, PositionsAssumption DEF Push
    <2>2. CASE UNCHANGED <<implVars, first, pos, owner, phase>>
      BY <2>2, <1>a DEF InPlace, Buffered, Set, At, implVars
    <2>3. ~PushAborts(Wrap(n))
      BY <2>1, NoAbort
    <2>4. CASE PushInside(p, n)
      <3>1. /\ pos' = [pos EXCEPT ![p] = n] /\ begin' = begin /\ first' = first
            /\ phase' = phase
        BY <2>4 DEF PushInside
      <3>2. ASSUME NEW m \in Nat, NEW q \in Packets, Buffered(m, q)'
            PROVE  pos'[q] = m
        <4>1. Buffered(m, q) \/ (m = n /\ q = p)
          BY <2>1, <2>4, <3>2, InsideBuffered
        <4>2. Buffered(m, q) => q # p
          BY <1>a, <2>1 DEF Buffered, HeldIffOwned
        <4> QED
          BY <1>a, <2>1, <3>1, <4>1, <4>2 DEF TypeOK
      <3> QED
        BY <1>a, <3>1, <3>2 DEF InPlace
    <2>5. ASSUME NEW k \in 0 .. count, PushBeyond(p, n, k)
          PROVE  InPlace'
      <3> DEFINE evicted == {queue[At(i)].user : i \in {j \in 0 .. k - 1 : Set(j)}}
      <3>1. pos' = [q \in Packets |-> IF q = p THEN n
                                      ELSE IF q \in evicted THEN 0
                                      ELSE pos[q]]
        BY <2>5 DEF PushBeyond
      <3>2. begin' = Wrap(first') /\ first' >= first + k /\ first' \in Nat
        BY <2>1, <2>5, BeyondBuffered
      <3>3. ASSUME NEW m \in Nat, NEW q \in Packets, Buffered(m, q)'
            PROVE  pos'[q] = m
        <4>1. (m >= first' /\ Buffered(m, q)) \/ (m = n /\ q = p)
          BY <2>1, <2>5, <3>3, BeyondBuffered
        <4>2. ASSUME m >= first', Buffered(m, q)
              PROVE  q # p /\ q \notin evicted /\ pos[q] = m
          <5>1. q # p
            BY <1>a, <2>1, <4>2 DEF Buffered, HeldIffOwned
          <5>2. ASSUME NEW i \in 0 .. k - 1, Set(i), q = queue[At(i)].user
                PROVE  FALSE
            <6>1. PICK f \in Nat : f = first'
              BY <3>2
            <6>2. i \in 0 .. count - 1 /\ m # first + i
              BY <1>a, <3>2, <4>2, <6>1
            <6> QED
              BY <1>b, <2>1, <4>2, <5>2, <6>2
          <5> QED
            BY <1>a, <2>1, <4>2, <5>1, <5>2
        <4> HIDE DEF evicted
        <4> QED
          BY <3>1, <4>1, <4>2
      <3> QED
        BY <3>2, <3>3 DEF InPlace
    <2> QED
      BY <1>1, <2>2, <2>3, <2>4, <2>5 DEF Push
  <1>2. ASSUME phase = "open", count > 0, Advance, phase' = phase,
               \A i \in 1 .. count - 1 : queue'[At(i)] = queue[At(i)],
               Release(IF Set(0) THEN {queue[At(0)].user} ELSE {})
        PROVE  InPlace'
    <2>1. begin' = Wrap(first')
      BY <1>2, <1>a, AddSeq DEF Advance
    <2>2. ASSUME NEW m \in Nat, NEW q \in Packets, Buffered(m, q)'
          PROVE  pos'[q] = m
      <3>1. m # first /\ Buffered(m, q)
        BY <1>2, <2>2, HeadBuffered
      <3>2. Set(0) => q # queue[At(0)].user
        <4>1. 0 \in 0 .. count - 1 /\ m # first + 0
          BY <1>2, <1>a, <3>1
        <4> QED
          BY <1>2, <1>b, <3>1, <4>1
      <3>3. pos'[q] = pos[q]
        BY <1>2, <3>2 DEF Release
      <3> QED
        BY <1>2, <1>a, <3>1, <3>3
    <2> QED
      BY <2>1, <2>2 DEF InPlace
  <1>3. CASE Pull
    BY <1>2, <1>3 DEF Pull
  <1>4. CASE SkipGap
    <2>1. ASSUME NEW i \in 1 .. count - 1
          PROVE  queue'[At(i)] = queue[At(i)]
      <3>1. /\ i \in 0 .. count - 1 /\ 0 \in 0 .. count - 1 /\ i # 0
            /\ At(i) \in 0 .. Size - 1
        BY <1>a, EntryUser
      <3>2. At(i) # At(0)
        BY <3>1, EntriesApart
      <3> QED
        BY <1>4, <3>1, <3>2 DEF SkipGap, TypeOK
    <2> QED
      BY <1>2, <1>4, <2>1 DEF SkipGap
  <1>5. ASSUME NEW d \in 0 .. Size - 1, Drop(d)
        PROVE  InPlace'
    <2>1. d \in Nat /\ d \in 0 .. count - 1 /\ Set(d) /\ phase = "open"
      BY <1>5, Widths DEF Drop, TypeOK
    <2>2. begin' = begin /\ first' = first /\ phase' = phase /\ Release({queue[At(d)].user})
      BY <1>5 DEF Drop
    <2>3. ASSUME NEW m \in Nat, NEW q \in Packets, Buffered(m, q)'
          PROVE  pos'[q] = m
      <3>1. m # first + d /\ Buffered(m, q)
        BY <1>5, <2>1, <2>3, DropBuffered
      <3>2. q # queue[At(d)].user
        BY <1>b, <2>1, <3>1
      <3>3. pos'[q] = pos[q]
        BY <2>2, <3>2 DEF Release
      <3> QED
        BY <1>a, <2>1, <3>1, <3>3
    <2> QED
      BY <1>a, <2>2, <2>3 DEF InPlace
  <1>6. CASE FindFirstSet
    BY <1>6, <1>a DEF FindFirstSet, InPlace, Buffered, Set, At
  <1>7. CASE Fini
    BY <1>7, <1>a DEF Fini, InPlace, implVars
  <1>8. CASE UNCHANGED vars
    BY <1>8, <1>a DEF vars, InPlace, Buffered, Set, At
  <1> QED
    BY <1>1, <1>3, <1>4, <1>5, <1>6, <1>7, <1>8 DEF Next

\* The entry before the end is set after each operation.
LEMMA TailStays ==
    ASSUME TypeOK, TailIsSet, [Next]_vars
    PROVE  TailIsSet'
  <1>a. count \in Int /\ 0 <= count /\ count <= Size /\ Size \in Int
    BY Widths DEF TypeOK
  <1>1. ASSUME NEW p \in Packets, NEW n \in first - Reach .. first + Reach, Push(p, n)
        PROVE  TailIsSet'
    <2>1. phase = "open" /\ n \in Nat
      BY <1>1, PositionsAssumption DEF Push
    <2>2. CASE UNCHANGED <<implVars, first, pos, owner, phase>>
      BY <2>2 DEF TailIsSet, Set, At, implVars
    <2>3. CASE PushAborts(Wrap(n))
      BY <2>3 DEF PushAborts, TailIsSet
    <2>4. CASE PushInside(p, n)
      <3>1. PICK d \in Nat : InsideMoves(p, d)
        BY <2>1, <2>4, InsideEntries
      <3>2. PICK l \in Nat : l = count - 1
        BY <1>a, <3>1 DEF InsideMoves
      <3>3. count' = l + 1 /\ l + 1 - 1 = l /\ l \in 0 .. count - 1 /\ Set(l)
        BY <1>a, <2>1, <3>1, <3>2 DEF InsideMoves, TailIsSet
      <3>4. Set(l)'
        BY <3>1, <3>3 DEF InsideMoves
      <3> QED
        BY <3>3, <3>4 DEF TailIsSet, Set, At
    <2>5. ASSUME NEW k \in 0 .. count, PushBeyond(p, n, k)
          PROVE  TailIsSet'
      <3>1. PICK e \in Nat, m \in Nat : BeyondMoves(p, k, e, m)
        BY <2>1, <2>5, BeyondEntries
      <3>2. count' = e - m + 1 /\ e - m + 1 - 1 = e - m /\ Set(e - m)'
        BY <3>1 DEF BeyondMoves
      <3> QED
        BY <3>2 DEF TailIsSet, Set, At
    <2> QED
      BY <1>1, <2>2, <2>3, <2>4, <2>5 DEF Push
  <1>2. ASSUME phase = "open", count > 0, Advance,
               \A i \in 1 .. count - 1 : queue'[At(i)] = queue[At(i)]
        PROVE  TailIsSet'
    <2>1. PICK c \in Nat : count' = c /\ c = count - 1
      BY <1>2, <1>a DEF Advance
    <2>2. ASSUME c > 0
          PROVE  Set(c - 1)'
      <3>1. PICK i \in Nat : i = c - 1
        BY <2>2
      <3>2. i \in 0 .. c - 1 /\ i + 1 = count - 1
        BY <2>1, <3>1
      <3>3. begin' = Add(begin, 1) /\ count' = count - 1 /\ i \in 0 .. count' - 1
        BY <1>2, <2>1, <3>2 DEF Advance
      <3>4. Set(i)' <=> Set(i + 1)
        BY <1>2, <3>3, HeadEntries
      <3>5. Set(i + 1)
        BY <1>2, <3>2 DEF TailIsSet
      <3> QED
        BY <3>1, <3>4, <3>5
    <2> QED
      BY <2>1, <2>2 DEF TailIsSet, Set, At
  <1>3. CASE Pull
    BY <1>2, <1>3 DEF Pull
  <1>4. CASE SkipGap
    <2>1. ASSUME NEW i \in 1 .. count - 1
          PROVE  queue'[At(i)] = queue[At(i)]
      <3>1. /\ i \in 0 .. count - 1 /\ 0 \in 0 .. count - 1 /\ i # 0
            /\ At(i) \in 0 .. Size - 1
        BY <1>a, EntryUser
      <3>2. At(i) # At(0)
        BY <3>1, EntriesApart
      <3> QED
        BY <1>4, <3>1, <3>2 DEF SkipGap, TypeOK
    <2> QED
      BY <1>2, <1>4, <2>1 DEF SkipGap
  <1>5. ASSUME NEW d \in 0 .. Size - 1, Drop(d)
        PROVE  TailIsSet'
    <2>1. d \in Nat /\ phase = "open" /\ d \in 0 .. count - 1
      BY <1>5, <1>a DEF Drop
    <2>2. PICK c \in Nat : count' = c
      BY <1>5, <2>1, <1>a, DropEntries
    <2>3. ASSUME c > 0
          PROVE  Set(c - 1)'
      <3>1. Set(count - 1) /\ c - 1 \in 0 .. c - 1
        BY <1>a, <2>1, <2>3 DEF TailIsSet
      <3>2. Set(c - 1) /\ c - 1 # d
        BY <1>5, <2>1, <2>2, <2>3, <3>1, DropEntries
      <3> QED
        BY <1>5, <2>1, <2>2, <3>1, <3>2, DropEntries
    <2> QED
      BY <2>2, <2>3 DEF TailIsSet, Set, At
  <1>6. CASE FindFirstSet
    BY <1>6 DEF FindFirstSet, TailIsSet, Set, At
  <1>7. CASE Fini
    BY <1>7 DEF Fini, TailIsSet, implVars
  <1>8. CASE UNCHANGED vars
    BY <1>8 DEF vars, TailIsSet, Set, At
  <1> QED
    BY <1>1, <1>3, <1>4, <1>5, <1>6, <1>7, <1>8 DEF Next

\* A search that finds nothing has looked at the last entry.
LEMMA FindStays ==
    ASSUME TypeOK, TailIsSet, FindFailsOnlyIfEmpty, [Next]_vars
    PROVE  FindFailsOnlyIfEmpty'
  <1>a. count \in Int /\ 0 <= count /\ hint \in Int /\ hint >= -1
    BY Widths DEF TypeOK, Invalid
  <1>1. CASE FindFirstSet
    <2>1. ASSUME count > 0, {i \in FindStart .. count - 1 : Set(i)} = {}
          PROVE  FALSE
      <3>1. FindStart \in Int /\ FindStart <= count - 1
        BY <1>a, <2>1 DEF FindStart, Invalid
      <3>2. count - 1 \in FindStart .. count - 1 /\ Set(count - 1)
        BY <1>1, <1>a, <2>1, <3>1 DEF TailIsSet, FindFirstSet
      <3> QED
        BY <2>1, <3>2
    <2>2. found' = Invalid => {i \in FindStart .. count - 1 : Set(i)} = {}
      <3>1. FindStart \in Nat
        BY <1>a DEF FindStart, Invalid
      <3> QED
        BY <1>1, <3>1 DEF FindFirstSet, Invalid
    <2>3. count' = count
      BY <1>1 DEF FindFirstSet
    <2> QED
      BY <1>a, <2>1, <2>2, <2>3 DEF FindFailsOnlyIfEmpty
  <1>2. CASE ~FindFirstSet
    BY <1>2 DEF Next, Push, Pull, SkipGap, Drop, Fini, vars, implVars, FindFailsOnlyIfEmpty,
       Invalid, NoCall
  <1> QED
    BY <1>1, <1>2

\* There is a packet before the end and find_first_set finds one, whatever is pushed:
\* what Takion relies on to skip gaps (reorderqueue.c, 142-192; takion.c, 1492-1530).
THEOREM GapsAreAlwaysFound == Spec => []GapsAreFound
  <1>1. Init => TypeOK /\ GapsAreFound
    BY InitIInv DEF Init, IInv, GapsAreFound, TailIsSet, FindFailsOnlyIfEmpty
  <1>2. (TypeOK /\ GapsAreFound) /\ [Next]_vars => (TypeOK /\ GapsAreFound)'
    BY TypeStep, TailStays, FindStays DEF GapsAreFound
  <1>3. (TypeOK /\ GapsAreFound) => GapsAreFound
    OBVIOUS
  <1> QED
    BY <1>1, <1>2, <1>3, PTL DEF Spec

\* What the refinement needs: ownership, positions, and no failed assertion.
PlaceInv == IInv /\ InPlace /\ AssertHolds

LEMMA PlaceInit == Init => PlaceInv
  <1>1. Init => InPlace /\ AssertHolds
    BY DEF Init, InPlace, Buffered, AssertHolds
  <1> QED
    BY <1>1, InitIInv DEF PlaceInv

LEMMA PlaceStep ==
    ASSUME Reach < Half, PlaceInv, [Next]_vars
    PROVE  PlaceInv'
  <1>1. IInv' /\ InPlace'
    BY TypeStep, OwnershipStep, PlacesStay DEF PlaceInv, IInv
  <1>2. AssertHolds'
    <2>1. ASSUME NEW p \in Packets, NEW n \in first - Reach .. first + Reach, Push(p, n)
          PROVE  phase' = "open"
      <3>1. n \in Nat /\ n >= first - Reach /\ n <= first + Reach /\ phase = "open"
        BY <2>1, PositionsAssumption DEF Push, PlaceInv, IInv, TypeOK
      <3>2. ~PushAborts(Wrap(n))
        BY <3>1, NoAbort DEF PlaceInv, IInv
      <3> QED
        BY <2>1, <3>1, <3>2 DEF Push, PushInside, PushBeyond
    <2> QED
      BY <2>1 DEF PlaceInv, AssertHolds, Next, Pull, SkipGap, Drop, FindFirstSet, Fini, vars
  <1> QED
    BY <1>1, <1>2 DEF PlaceInv

LEMMA Places ==
    ASSUME Reach < Half
    PROVE  Spec => []PlaceInv
  <1>1. PlaceInv /\ [Next]_vars => PlaceInv'
    BY PlaceStep
  <1> QED
    BY <1>1, PlaceInit, PTL DEF Spec

\* The assertion of push holds as long as what is pushed lies less than half the number
\* space from the head; half the space from the head of an empty queue it fails
\* (reorderqueue.c, 47-102).
THEOREM AssertionHolds ==
    ASSUME Reach < Half
    PROVE  Spec => []AssertHolds
  <1>1. PlaceInv => AssertHolds
    BY DEF PlaceInv
  <1> QED
    BY <1>1, Places, PTL

-----------------------------------------------------------------------------
(* The ring implements the buffer of InOrderBuffer *)

\* What the buffer holds: the item of each position of the window that is set.
Items ==
    [n \in IF phase = "open" THEN Positions ELSE {} |->
        <<pos[queue[At(n - first)].user], queue[At(n - first)].user>>]

\* The items are the packets at their positions.
ItemsFit ==
    /\ \A n : n \in DOMAIN Items <=>
          n \in Nat /\ phase = "open" /\ \E p \in Packets : Buffered(n, p)
    /\ \A n \in Nat, p \in Packets :
          phase = "open" /\ Buffered(n, p) => Items[n] = <<n, p>>
    /\ Items = [n \in DOMAIN Items |-> Items[n]]

LEMMA ItemsAre == TypeOK /\ InPlace => ItemsFit
  <1> SUFFICES ASSUME TypeOK, InPlace PROVE ItemsFit
    OBVIOUS
  <1>1. first \in Nat /\ first \in Int /\ count \in Int
    BY Widths DEF TypeOK
  <1>2. DOMAIN Items = (IF phase = "open" THEN Positions ELSE {})
    BY DEF Items
  <1>3. ASSUME NEW i \in 0 .. count - 1, Set(i)
        PROVE  /\ first + i \in Nat /\ (first + i) - first = i
               /\ queue[At(i)].user \in Packets /\ Buffered(first + i, queue[At(i)].user)
    BY <1>1, <1>3, EntryUser DEF Buffered
  <1>4. ASSUME NEW n
        PROVE  n \in Positions <=> n \in Nat /\ \E p \in Packets : Buffered(n, p)
    <2>1. n \in Positions <=> \E j \in 0 .. count - 1 : Set(j) /\ n = first + j
      <3>1. ASSUME n \in Positions
            PROVE  \E j \in 0 .. count - 1 : Set(j) /\ n = first + j
        <4>1. n \in first .. first + count - 1 /\ Set(n - first)
          BY <3>1 DEF Positions
        <4>2. n - first \in 0 .. count - 1 /\ n = first + (n - first)
          BY <1>1, <4>1
        <4> QED
          BY <4>1, <4>2
      <3>2. ASSUME NEW j \in 0 .. count - 1, Set(j), n = first + j
            PROVE  n \in Positions
        <4>1. n \in first .. first + count - 1 /\ n - first = j
          BY <1>1, <3>2
        <4> QED
          BY <3>2, <4>1 DEF Positions
      <3> QED
        BY <3>1, <3>2
    <2>2. ASSUME NEW i \in 0 .. count - 1, Set(i), n = first + i
          PROVE  n \in Nat /\ \E p \in Packets : Buffered(n, p)
      BY <1>3, <2>2
    <2>3. ASSUME n \in Nat, NEW p \in Packets, Buffered(n, p)
          PROVE  \E j \in 0 .. count - 1 : Set(j) /\ n = first + j
      BY <2>3 DEF Buffered
    <2> QED
      BY <2>1, <2>2, <2>3
  <1>5. ASSUME NEW n \in Nat, NEW p \in Packets, phase = "open", Buffered(n, p)
        PROVE  Items[n] = <<n, p>>
    <2>1. n \in Positions
      BY <1>4, <1>5
    <2>2. PICK i \in 0 .. count - 1 : Set(i) /\ n = first + i /\ queue[At(i)].user = p
      BY <1>5 DEF Buffered
    <2>3. n - first = i
      BY <1>1, <2>2
    <2>4. pos[p] = n
      BY <1>5 DEF InPlace
    <2>5. Items[n] = <<pos[queue[At(n - first)].user], queue[At(n - first)].user>>
      BY <1>5, <2>1 DEF Items
    <2> QED
      BY <2>2, <2>3, <2>4, <2>5
  <1>6. Items = [n \in DOMAIN Items |-> Items[n]]
    BY DEF Items
  <1> QED
    BY <1>2, <1>4, <1>5, <1>6 DEF ItemsFit

LEMMA ItemsAreNext == TypeOK' /\ InPlace' => ItemsFit'
  BY ItemsAre, PTL

\* The items after a step are those of S, unchanged.
LEMMA ItemsLeft ==
    ASSUME TypeOK, InPlace, TypeOK', InPlace', phase = "open", phase' = "open",
           NEW S \in SUBSET DOMAIN Items,
           \A m \in Nat, q \in Packets : Buffered(m, q)' <=> m \in S /\ Buffered(m, q)
    PROVE  Items' = [n \in S |-> Items[n]]
  <1>1. \A n : n \in DOMAIN Items' <=> n \in Nat /\ \E p \in Packets : Buffered(n, p)'
    BY ItemsAre, ItemsAreNext DEF ItemsFit
  <1>2. \A n : n \in DOMAIN Items <=> n \in Nat /\ \E p \in Packets : Buffered(n, p)
    BY ItemsAre, ItemsAreNext DEF ItemsFit
  <1>3. DOMAIN Items' = S
    BY <1>1, <1>2
  <1>4. ASSUME NEW n \in S
        PROVE  Items'[n] = Items[n]
    <2>1. n \in Nat /\ \E p \in Packets : Buffered(n, p)
      BY <1>2
    <2>2. PICK p \in Packets : Buffered(n, p)
      BY <2>1
    <2>3. Buffered(n, p)'
      BY <2>1, <2>2
    <2>4. Items[n] = <<n, p>>
      BY <2>1, <2>2, ItemsAre, ItemsAreNext DEF ItemsFit
    <2>5. Items'[n] = <<n, p>>
      BY <2>1, <2>3, ItemsAre, ItemsAreNext DEF ItemsFit
    <2> QED
      BY <2>4, <2>5
  <1>5. Items' = [n \in DOMAIN Items' |-> Items'[n]]
    BY ItemsAre, ItemsAreNext DEF ItemsFit
  <1> QED
    BY <1>3, <1>4, <1>5

\* A push is an acceptance or a refusal.
LEMMA PushIsAbstract ==
    ASSUME Reach < Half, PlaceInv, PlaceInv', NEW p \in Packets, NEW n \in Nat,
           n >= first - Reach, n <= first + Reach, Push(p, n)
    PROVE  Abstract!AbsNext
  <1> USE DEF PlaceInv, IInv
  <1>a. /\ first \in Nat /\ first \in Int /\ count \in Int /\ count >= 0 /\ Size \in Int
        /\ phase = "open"
    BY Widths DEF TypeOK, Push
  <1>b. \A m : m \in DOMAIN Items <=> m \in Nat /\ \E q \in Packets : Buffered(m, q)
    BY <1>a, ItemsAre, ItemsAreNext DEF ItemsFit
  <1>1. ASSUME Refuse(Wrap(n)), refused' = n,
               UNCHANGED <<implVars, first, pos, owner, phase>>
        PROVE  Abstract!AbsNext
    <2>1. n < first \/ n \in DOMAIN Items \/ (DropStrategy = "END" /\ n >= first + Size)
      <3>1. CASE Duplicate(Wrap(n))
        <4>1. Wrap(n) \in SeqNums /\ InWindow(Wrap(n))
          BY <1>a, <3>1, NumbersAreIntegers DEF Duplicate
        <4>2. PICK d \in 0 .. count - 1 : Wrap(n) = Add(begin, d)
          BY <4>1, InsideIsNear
        <4>3. Set(d)
          BY <3>1, <4>2 DEF Duplicate, Set, At
        <4>4. n \in first .. first + count - 1
          BY <4>1, PositionsAreNear
        <4>5. Wrap(n) = Wrap(first + d)
          BY <1>a, <4>2, AddSeq DEF InPlace
        <4>6. n = first + d
          <5>1. count < Modulus
            BY Widths DEF TypeOK
          <5>2. n - (first + d) < Modulus /\ (first + d) - n < Modulus
            BY <1>a, <4>4, <5>1, Widths
          <5> QED
            BY <1>a, <4>5, <5>2, SamePosition
        <4>7. queue[At(d)].user \in Packets
          BY <4>3, EntryUser
        <4> QED
          BY <1>b, <4>3, <4>6, <4>7 DEF Buffered
      <3>2. CASE Late(Wrap(n))
        BY <3>2, PositionsAreNear
      <3>3. CASE NoRoomFor(Wrap(n)) /\ ~Late(Wrap(n))
        <4>1. Wrap(n) \in SeqNums /\ n >= first /\ DropStrategy = "END"
          BY <1>a, <3>3, NumbersAreIntegers, PositionsAreNear DEF NoRoomFor
        <4>2. PICK e \in count .. Half : Wrap(n) = Add(begin, e)
          BY <3>3, <4>1, BeyondIsNear DEF NoRoomFor
        <4>3. Size < e + 1
          <5>1. Lt(Add(begin, Size + 0), Add(Add(begin, e), 1)) /\ 0 \in 0 .. count
            BY <1>a, <3>3, <4>2, Widths DEF NoRoomFor, Overflows
          <5>2. Size + 0 < e + 1
            BY <5>1, RoomIsDistance
          <5> QED
            BY <1>a, <5>2
        <4>4. Wrap(n) = Wrap(first + e)
          BY <1>a, <4>2, AddSeq DEF InPlace
        <4>5. e \in Int /\ e >= 0 /\ e <= Half /\ Half \in Int /\ Modulus = 2 * Half
              /\ Reach \in Int
          BY <1>a, Widths, PositionsAssumption
        <4>6. n = first + e
          <5>1. n - (first + e) < Modulus /\ (first + e) - n < Modulus
            BY <1>a, <4>1, <4>5
          <5> QED
            BY <1>a, <4>4, <4>5, <5>1, SamePosition
        <4> QED
          BY <1>a, <4>1, <4>3, <4>5, <4>6
      <3> QED
        BY <1>1, <3>1, <3>2, <3>3 DEF Refuse
    <2>2. Items' = Items /\ first' = first /\ pulled' = Nothing
      BY <1>1 DEF Items, Positions, Set, At, implVars, Push
    <2>3. Abstract!Refuse(refused')
      BY <1>1, <2>1, <2>2 DEF Abstract!Refuse, Items, Nothing, Abstract!Nothing
    <2> QED
      BY <2>3 DEF Abstract!AbsNext
  <1>2. ASSUME refused' = Nowhere, first' \in Nat, first' >= first,
               n >= first', n < first' + Size, n \notin DOMAIN Items, phase' = "open",
               DropStrategy = "END" => first' = first,
               \A m \in Nat, q \in Packets :
                  Buffered(m, q)' <=> (m >= first' /\ Buffered(m, q)) \/ (m = n /\ q = p)
        PROVE  Abstract!AbsNext
    <2> DEFINE i == <<n, p>>
               S == {k \in DOMAIN Items : k >= first'} \union {n}
    <2>1. \A m : m \in DOMAIN Items' <=> m \in Nat /\ \E q \in Packets : Buffered(m, q)'
      BY <1>2, ItemsAre, ItemsAreNext DEF ItemsFit
    <2>2. DOMAIN Items' = S
      BY <1>2, <1>b, <2>1
    <2>3. Items'[n] = i
      BY <1>2, ItemsAre, ItemsAreNext DEF ItemsFit
    <2>4. ASSUME NEW m \in S
          PROVE  Items'[m] = IF m = n THEN i ELSE Items[m]
      <3>1. CASE m # n
        <4>1. m \in DOMAIN Items /\ m >= first'
          BY <3>1
        <4>2. m \in Nat /\ \E q \in Packets : Buffered(m, q)
          BY <1>b, <4>1
        <4>3. PICK q \in Packets : Buffered(m, q)
          BY <4>2
        <4>4. Items[m] = <<m, q>>
          BY <1>a, <4>2, <4>3, ItemsAre, ItemsAreNext DEF ItemsFit
        <4>5. Buffered(m, q)'
          BY <1>2, <4>1, <4>2, <4>3
        <4>6. Items'[m] = <<m, q>>
          BY <1>2, <4>2, <4>5, ItemsAre, ItemsAreNext DEF ItemsFit
        <4> QED
          BY <3>1, <4>4, <4>6
      <3> QED
        BY <2>3, <3>1
    <2>5. Items' = [m \in DOMAIN Items' |-> Items'[m]]
      BY <1>2, ItemsAre, ItemsAreNext DEF ItemsFit
    <2>6. Items' = [m \in S |-> IF m = n THEN i ELSE Items[m]]
      BY <2>2, <2>4, <2>5
    <2>7. n \in DOMAIN Items' /\ i[1] = n
      BY <2>2
    <2>8. n \in first' .. first' + Size - 1
      <3>1. PICK f \in Nat : f = first'
        BY <1>2
      <3>2. n >= f /\ n < f + Size /\ Size \in Int
        BY <1>2, <1>a, <3>1
      <3>3. n \in f .. f + Size - 1
        BY <3>2
      <3> QED
        BY <3>1, <3>3
    <2>9. pulled' = Nothing
      BY DEF Push
    <2>10. Abstract!Accept(n, i)
      BY <1>2, <2>6, <2>7, <2>8, <2>9
         DEF Abstract!Accept, Items, Nothing, Abstract!Nothing, Nowhere, Abstract!Nowhere
    <2>11. Abstract!Accept(n, Items'[n])
      BY <2>3, <2>10
    <2> HIDE DEF i, S
    <2> QED
      BY <2>7, <2>11 DEF Abstract!AbsNext, Items
  <1>3. CASE PushInside(p, n) /\ refused' = Nowhere
    <2>1. /\ n \in first .. first + count - 1
          /\ \A q \in Packets : ~Buffered(n, q)
          /\ \A m \in Nat, q \in Packets :
                Buffered(m, q)' <=> Buffered(m, q) \/ (m = n /\ q = p)
      BY <1>3, InsideBuffered
    <2>2. first' = first /\ phase' = "open" /\ n < first + Size
      BY <1>3, <1>a, <2>1 DEF PushInside, TypeOK
    <2>3. \A m \in Nat, q \in Packets : Buffered(m, q) => m >= first
      BY <1>a DEF Buffered
    <2> QED
      BY <1>2, <1>3, <1>a, <1>b, <2>1, <2>2, <2>3
  <1>4. ASSUME NEW k \in 0 .. count, PushBeyond(p, n, k), refused' = Nowhere
        PROVE  Abstract!AbsNext
    <2>1. /\ first' \in Nat /\ first' >= first + k /\ n >= first + count
          /\ n >= first' /\ n < first' + Size
          /\ Overflows(Wrap(n)) \/ first' = first
          /\ \A m \in Nat, q \in Packets :
                Buffered(m, q)' <=> (m >= first' /\ Buffered(m, q)) \/ (m = n /\ q = p)
      BY <1>4, BeyondBuffered
    <2>2. DropStrategy = "END" => first' = first
      BY <1>4, <2>1 DEF PushBeyond, Refuse, NoRoomFor
    <2>3. n \notin DOMAIN Items
      BY <1>a, <1>b, <2>1 DEF Buffered
    <2>4. first' >= first /\ phase' = "open"
      BY <1>4, <1>a, <2>1 DEF PushBeyond
    <2> QED
      BY <1>2, <1>4, <2>1, <2>2, <2>3, <2>4
  <1>5. ~PushAborts(Wrap(n))
    BY NoAbort
  <1> QED
    BY <1>1, <1>3, <1>4, <1>5 DEF Push


\* A pull hands out the head.
LEMMA PullIsAbstract ==
    ASSUME PlaceInv, PlaceInv', Pull
    PROVE  Abstract!AbsNext
  <1> USE DEF PlaceInv, IInv
  <1>a. /\ first \in Nat /\ phase = "open" /\ phase' = "open" /\ refused' = Nowhere
        /\ count > 0 /\ Set(0) /\ count \in Int
    BY Widths DEF TypeOK, Pull
  <1>b. \A m : m \in DOMAIN Items <=> m \in Nat /\ \E q \in Packets : Buffered(m, q)
    BY <1>a, ItemsAre DEF ItemsFit
  <1>1. Advance /\ \A i \in 1 .. count - 1 : queue'[At(i)] = queue[At(i)]
    BY DEF Pull
  <1>2. \A m \in Nat, q \in Packets :
           Buffered(m, q)' <=> m \in DOMAIN Items \ {first} /\ Buffered(m, q)
    BY <1>a, <1>b, <1>1, HeadBuffered
  <1>3. Items' = [m \in DOMAIN Items \ {first} |-> Items[m]]
    BY <1>a, <1>2, ItemsLeft
  <1>4. Buffered(first, queue[At(0)].user) /\ queue[At(0)].user \in Packets
    <2>1. 0 \in 0 .. count - 1 /\ first = first + 0
      BY <1>a
    <2> QED
      BY <1>a, <2>1, EntryUser DEF Buffered
  <1>5. first \in DOMAIN Items /\ Items[first] = <<first, queue[At(0)].user>>
    BY <1>a, <1>b, <1>4, ItemsAre DEF ItemsFit
  <1>6. pos[queue[At(0)].user] = first
    BY <1>a, <1>4 DEF InPlace
  <1>7. pulled' = Items[first] /\ first' = first + 1
    BY <1>1, <1>5, <1>6 DEF Pull, Advance
  <1>8. Abstract!Deliver
    BY <1>a, <1>3, <1>5, <1>7
       DEF Abstract!Deliver, Items, Nowhere, Abstract!Nowhere, Abstract!Restrict
  <1> QED
    BY <1>8 DEF Abstract!AbsNext

\* A skip gives up the head position.
LEMMA SkipIsAbstract ==
    ASSUME PlaceInv, PlaceInv', SkipGap
    PROVE  Abstract!AbsNext
  <1> USE DEF PlaceInv, IInv
  <1>a. /\ first \in Nat /\ phase = "open" /\ phase' = "open" /\ refused' = Nowhere
        /\ count > 0 /\ count \in Int /\ pulled' = Nothing
    BY Widths DEF TypeOK, SkipGap
  <1>b. \A m : m \in DOMAIN Items <=> m \in Nat /\ \E q \in Packets : Buffered(m, q)
    BY <1>a, ItemsAre DEF ItemsFit
  <1>1. Advance /\ \A i \in 1 .. count - 1 : queue'[At(i)] = queue[At(i)]
    <2>1. \A i \in 1 .. count - 1 : At(i) # At(0)
      BY <1>a, EntriesApart
    <2> QED
      BY <1>a, <2>1 DEF SkipGap, TypeOK
  <1>2. \A m \in Nat, q \in Packets :
           Buffered(m, q)' <=> m \in DOMAIN Items \ {first} /\ Buffered(m, q)
    BY <1>a, <1>b, <1>1, HeadBuffered
  <1>3. Items' = [m \in DOMAIN Items \ {first} |-> Items[m]]
    BY <1>a, <1>2, ItemsLeft
  <1>4. first' = first + 1
    BY <1>1 DEF Advance
  <1>5. Abstract!SkipHead
    BY <1>a, <1>3, <1>4
       DEF Abstract!SkipHead, Items, Nothing, Abstract!Nothing, Nowhere, Abstract!Nowhere,
           Abstract!Restrict
  <1> QED
    BY <1>5 DEF Abstract!AbsNext

\* A drop throws one item away.
LEMMA DropIsAbstract ==
    ASSUME PlaceInv, PlaceInv', NEW d \in 0 .. Size - 1, Drop(d)
    PROVE  Abstract!AbsNext
  <1> USE DEF PlaceInv, IInv
  <1>a. /\ first \in Nat /\ phase = "open" /\ phase' = "open" /\ refused' = Nowhere
        /\ count \in Int /\ pulled' = Nothing /\ d \in Nat /\ d < count /\ Set(d)
        /\ first' = first
    BY Widths DEF TypeOK, Drop
  <1>b. \A m : m \in DOMAIN Items <=> m \in Nat /\ \E q \in Packets : Buffered(m, q)
    BY <1>a, ItemsAre DEF ItemsFit
  <1> DEFINE n == first + d
  <1>1. n \in Nat /\ d \in 0 .. count - 1
    BY <1>a
  <1>2. Buffered(n, queue[At(d)].user) /\ queue[At(d)].user \in Packets
    BY <1>a, <1>1, EntryUser DEF Buffered
  <1>3. \A m \in Nat, q \in Packets : Buffered(m, q)' <=> m # n /\ Buffered(m, q)
    BY <1>a, DropBuffered
  <1> HIDE DEF n
  <1>4. \A m \in Nat, q \in Packets :
           Buffered(m, q)' <=> m \in DOMAIN Items \ {n} /\ Buffered(m, q)
    BY <1>b, <1>3
  <1>5. Items' = [m \in DOMAIN Items \ {n} |-> Items[m]]
    BY <1>a, <1>4, ItemsLeft
  <1>6. n \in DOMAIN Items
    BY <1>b, <1>1, <1>2
  <1>7. Abstract!Discard(n)
    BY <1>a, <1>5, <1>6
       DEF Abstract!Discard, Items, Nothing, Abstract!Nothing, Nowhere, Abstract!Nowhere,
           Abstract!Restrict
  <1> QED
    BY <1>6, <1>7 DEF Abstract!AbsNext, Items

\* The head of the buffer and what it holds, item by item, are those of InOrderBuffer.
LEMMA StepsMap ==
    ASSUME Reach < Half, PlaceInv, PlaceInv', [Next]_vars
    PROVE  [Abstract!AbsNext]_(Abstract!absVars)
  <1>1. ASSUME NEW p \in Packets, NEW n \in first - Reach .. first + Reach, Push(p, n)
        PROVE  Abstract!AbsNext
    <2>1. n \in Nat /\ n >= first - Reach /\ n <= first + Reach
      BY <1>1, PositionsAssumption DEF Push, PlaceInv, IInv, TypeOK
    <2> QED
      BY <1>1, <2>1, PushIsAbstract
  <1>2. CASE Pull
    BY <1>2, PullIsAbstract
  <1>3. CASE SkipGap
    BY <1>3, SkipIsAbstract
  <1>4. ASSUME NEW d \in 0 .. Size - 1, Drop(d)
        PROVE  Abstract!AbsNext
    BY <1>4, DropIsAbstract
  <1>5. CASE FindFirstSet
    <2>1. Items' = Items /\ first' = first /\ pulled' = Nothing /\ refused' = Nowhere
      BY <1>5 DEF FindFirstSet, Items, Positions, Set, At
    <2>2. Abstract!Quiet
      BY <2>1
         DEF Abstract!Quiet, Items, Nothing, Abstract!Nothing, Nowhere, Abstract!Nowhere
    <2> QED
      BY <2>2 DEF Abstract!AbsNext
  <1>6. CASE Fini
    <2>1. Items' = [n \in {} |-> 0]
      BY <1>6 DEF Fini, Items
    <2>2. first' = first /\ pulled' = Nothing /\ refused' = Nowhere
      BY <1>6 DEF Fini
    <2>3. Abstract!Close
      BY <2>1, <2>2
         DEF Abstract!Close, Items, Nothing, Abstract!Nothing, Nowhere, Abstract!Nowhere
    <2> QED
      BY <2>3 DEF Abstract!AbsNext
  <1>7. CASE UNCHANGED vars
    <2>1. Items' = Items /\ first' = first /\ pulled' = pulled /\ refused' = refused
      BY <1>7 DEF vars, implVars, Items, Positions, Set, At
    <2> QED
      BY <2>1 DEF Abstract!absVars, Items
  <1> QED
    BY <1>1, <1>2, <1>3, <1>4, <1>5, <1>6, <1>7 DEF Next

LEMMA InitMaps == Init => Abstract!AbsInit
  <1> SUFFICES ASSUME Init PROVE Abstract!AbsInit
    OBVIOUS
  <1>1. Positions = {}
    <2>1. count = 0 /\ first \in Int
      BY PositionsAssumption DEF Init
    <2>2. \A n : n \notin first .. first + count - 1
      BY <2>1
    <2> QED
      BY <2>2 DEF Positions
  <1>2. Items = [n \in {} |-> 0]
    BY <1>1 DEF Items
  <1> QED
    BY <1>2 DEF Init, Abstract!AbsInit, Items, Nothing, Abstract!Nothing, Nowhere,
                Abstract!Nowhere

\* The ring with its wrapping numbers, its hint and its evictions implements the buffer
\* over endless positions: what is pulled leaves in stream order, every position at most
\* once, and only what is late, a duplicate or ahead of a full window is refused
\* (reorderqueue.c, 47-240), whatever the width of the numbers and the size of the ring.
THEOREM ImplementsInOrderBuffer ==
    ASSUME Reach < Half
    PROVE  Spec => DeliversInOrder
  <1>1. PlaceInv /\ PlaceInv' /\ [Next]_vars => [Abstract!AbsNext]_(Abstract!absVars)
    BY StepsMap
  <1> QED
    BY <1>1, InitMaps, Places, PTL DEF Spec, DeliversInOrder, Abstract!AbsSpec
=============================================================================
