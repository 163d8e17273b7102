-------------------------- MODULE PacketMacProofs --------------------------
(***************************************************************************)
(* The receiver finds the position of every good packet, for each width of *)
(* the numbers, each interval of the keys and each reordering below a      *)
(* quarter of the number space.                                            *)
(***************************************************************************)
EXTENDS PacketMac, SeqNumProofs, TLAPS

\* What a cast of a position leaves, and what it takes away.
LEMMA PositionParts ==
    ASSUME NEW pos \in Nat
    PROVE  /\ Low(pos) \in 0 .. Modulus - 1
           /\ pos \div Modulus \in Nat
           /\ pos = Modulus * (pos \div Modulus) + Low(pos)
  <1>1. /\ pos % Modulus \in 0 .. Modulus - 1
        /\ pos \div Modulus \in Int
        /\ pos = Modulus * (pos \div Modulus) + (pos % Modulus)
    BY ModulusFacts, Division
  <1>2. pos \div Modulus >= 0
    BY ModulusFacts
  <1> QED
    BY <1>1, <1>2 DEF Low

\* Two positions less than half the space apart are in the same or in neighbouring rounds
\* of the numbers.
LEMMA RoundsAreNear ==
    ASSUME NEW q \in Nat, NEW h \in Nat, NEW l \in 0 .. Modulus - 1, NEW b \in 0 .. Modulus - 1,
           Modulus * q + l - (Modulus * h + b) < Half, Modulus * h + b - (Modulus * q + l) < Half
    PROVE  q \in {h - 1, h, h + 1}
  <1>1. Modulus * (q - h) = Modulus * q - Modulus * h
    BY ModulusFacts
  <1>2. Modulus * (q - h) < 2 * Modulus /\ Modulus * (q - h) > -(2 * Modulus)
    BY <1>1, ModulusFacts
  <1>3. ASSUME q - h >= 2 PROVE FALSE
    <2>1. Modulus * (q - h) >= Modulus * 2
      BY <1>3, ModulusFacts
    <2> QED
      BY <2>1, <1>2, ModulusFacts
  <1>4. ASSUME h - q >= 2 PROVE FALSE
    <2>1. Modulus * (h - q) >= Modulus * 2
      BY <1>4, ModulusFacts
    <2>2. Modulus * (q - h) = -(Modulus * (h - q))
      BY ModulusFacts
    <2> QED
      BY <2>1, <2>2, <1>2, ModulusFacts
  <1> QED
    BY <1>3, <1>4

\* chiaki_key_state_request_pos gives back the position of which it got the low bits, if
\* that is less than half the number space from the last good one.
THEOREM PositionIsFound ==
    ASSUME committed \in Nat, NEW pos \in Nat,
           pos - committed < Half, committed - pos < Half
    PROVE  RequestPos(Low(pos)) = pos
  <1> DEFINE l == Low(pos)
             b == Low(committed)
             q == pos \div Modulus
             h == committed \div Modulus
  <1>1. /\ l \in 0 .. Modulus - 1 /\ q \in Nat /\ pos = Modulus * q + l
        /\ b \in 0 .. Modulus - 1 /\ h \in Nat /\ committed = Modulus * h + b
    BY PositionParts
  <1>3. (Lt(l, b) <=> pos < committed) /\ (Gt(l, b) <=> pos > committed)
    BY ComparisonOfPositions DEF Low, Wrap
  <1>4. RequestPos(l) = (IF Gt(l, b) /\ l < b THEN h + 1
                         ELSE IF Lt(l, b) /\ l > b /\ h > 0 THEN h - 1
                         ELSE h) * Modulus + l
    BY DEF RequestPos
  <1> HIDE DEF l, b, q, h
  <1>2. q \in {h - 1, h, h + 1}
    <2>1. /\ Modulus * q + l - (Modulus * h + b) < Half
          /\ Modulus * h + b - (Modulus * q + l) < Half
      BY <1>1, ModulusFacts
    <2> QED
      BY <1>1, <2>1, RoundsAreNear
  <1>5. (Gt(l, b) /\ l < b) <=> q = h + 1
    <2>1. CASE q = h
      BY <2>1, <1>1, <1>3, ModulusFacts
    <2>2. CASE q = h + 1
      <3>1. Modulus * q = Modulus * h + Modulus
        BY <2>2, <1>1, ModulusFacts
      <3> QED
        BY <3>1, <2>2, <1>1, <1>3, ModulusFacts
    <2>3. CASE q = h - 1
      <3>1. Modulus * q = Modulus * h - Modulus
        BY <2>3, <1>1, ModulusFacts
      <3> QED
        BY <3>1, <2>3, <1>1, <1>3, ModulusFacts
    <2> QED
      BY <1>2, <2>1, <2>2, <2>3
  <1>6. (Lt(l, b) /\ l > b) <=> q = h - 1
    <2>1. CASE q = h
      BY <2>1, <1>1, <1>3, ModulusFacts
    <2>2. CASE q = h + 1
      <3>1. Modulus * q = Modulus * h + Modulus
        BY <2>2, <1>1, ModulusFacts
      <3> QED
        BY <3>1, <2>2, <1>1, <1>3, ModulusFacts
    <2>3. CASE q = h - 1
      <3>1. Modulus * q = Modulus * h - Modulus
        BY <2>3, <1>1, ModulusFacts
      <3> QED
        BY <3>1, <2>3, <1>1, <1>3, ModulusFacts
    <2> QED
      BY <1>2, <2>1, <2>2, <2>3
  <1>7. q = h - 1 => h > 0
    BY <1>1
  <1>8. RequestPos(l) = q * Modulus + l
    BY <1>1, <1>2, <1>4, <1>5, <1>6, <1>7
  <1>9. q * Modulus = Modulus * q
    BY <1>1, ModulusFacts
  <1> QED
    BY <1>1, <1>8, <1>9 DEF l

-----------------------------------------------------------------------------
\* What keeps the receiver in step: the last good position is at most the reordering
\* behind the newest, and there is always a key.
InStep ==
    /\ committed \in Nat /\ newest \in Nat
    /\ committed <= newest /\ newest <= committed + Reordering
    /\ keyIndex \in Int /\ keyCurrent = keyIndex
    /\ GenuineAccepted

LEMMA Assumptions ==
    PacketMacAssumption => /\ Refresh \in Nat /\ Refresh > 0
                           /\ Reordering \in Nat /\ 2 * Reordering < Half
  BY DEF PacketMacAssumption

LEMMA KeyIndexType ==
    ASSUME PacketMacAssumption, NEW pos \in Nat
    PROVE  KeyIndex(pos) \in Int
  BY Division, Assumptions DEF KeyIndex

\* A good packet within the reordering is accepted, with its position and the key of
\* its stretch.
LEMMA GenuineKeepsStep ==
    ASSUME PacketMacAssumption, InStep, Genuine
    PROVE  InStep'
  <1>1. PICK pos \in newest - Reordering .. newest + Reordering :
           /\ pos \in 0 .. MaxPos
           /\ HandlePacket(Low(pos), [pos |-> pos, key |-> KeyIndex(pos)])
           /\ newest' = IF pos > newest THEN pos ELSE newest
    BY DEF Genuine
  <1>2. pos \in Nat /\ newest \in Nat /\ committed \in Nat /\ keyIndex \in Int
    BY <1>1 DEF InStep, PacketMacAssumption
  <1>3. pos - committed < Half /\ committed - pos < Half
    BY <1>1, <1>2, Assumptions, ModulusFacts DEF InStep
  <1>4. RequestPos(Low(pos)) = pos
    BY <1>2, <1>3, PositionIsFound
  <1>5. KeyFor(pos) = KeyIndex(pos)
    BY DEF KeyFor, InStep
  <1>6. /\ keyIndex' = Renewed(pos)
        /\ keyCurrent' = IF KeyIndex(pos) > keyIndex THEN KeyIndex(pos) ELSE keyCurrent
        /\ committed' = pos
        /\ verdict' = [genuine |-> KeyIndex(pos) # -1, accepted |-> TRUE]
    BY <1>1, <1>4, <1>5 DEF HandlePacket
  <1>7. KeyIndex(pos) # -1
    BY <1>2, Assumptions DEF KeyIndex
  <1>8. GenuineAccepted'
    BY <1>6, <1>7 DEF GenuineAccepted
  <1>9. keyIndex' \in Int /\ keyCurrent' = keyIndex'
    BY <1>2, <1>6, KeyIndexType DEF InStep, Renewed
  <1> QED
    BY <1>1, <1>2, <1>6, <1>8, <1>9, Assumptions DEF InStep

\* A damaged packet is refused; it may move the key on, never the position.
LEMMA DamagedKeepsStep ==
    ASSUME PacketMacAssumption, InStep, Damaged
    PROVE  InStep'
  <1>1. PICK low \in SeqNums : HandlePacket(low, [pos |-> -1, key |-> -1])
    BY DEF Damaged
  <1>2. newest' = newest
    BY DEF Damaged
  <1> DEFINE pos == RequestPos(low)
  <1>3. pos \in Nat
    <2> DEFINE h == committed \div Modulus
    <2>1. h \in Nat /\ low \in Nat /\ Modulus \in Nat
      BY PositionParts, ModulusFacts DEF InStep, SeqNums
    <2>2. PICK moved \in Nat : pos = moved * Modulus + low
      <3> HIDE DEF h
      <3>1. pos = (IF Gt(low, Low(committed)) /\ low < Low(committed) THEN h + 1
                   ELSE IF Lt(low, Low(committed)) /\ low > Low(committed) /\ h > 0 THEN h - 1
                   ELSE h) * Modulus + low
        BY DEF RequestPos, h
      <3> DEFINE moved == IF Gt(low, Low(committed)) /\ low < Low(committed) THEN h + 1
                          ELSE IF Lt(low, Low(committed)) /\ low > Low(committed) /\ h > 0
                          THEN h - 1 ELSE h
      <3>2. moved \in Nat
        BY <2>1
      <3>3. pos = moved * Modulus + low
        BY <3>1
      <3> HIDE DEF moved, pos
      <3> QED
        BY <3>2, <3>3
    <2> HIDE DEF pos, h
    <2> QED
      BY <2>1, <2>2
  <1> HIDE DEF pos
  <1>4. /\ keyIndex' = Renewed(pos)
        /\ keyCurrent' = IF KeyIndex(pos) > keyIndex THEN KeyIndex(pos) ELSE keyCurrent
        /\ committed' = IF [pos |-> -1, key |-> -1] = [pos |-> pos, key |-> KeyFor(pos)]
                        THEN pos ELSE committed
        /\ verdict' = [genuine |-> FALSE,
                       accepted |-> [pos |-> -1, key |-> -1] = [pos |-> pos, key |-> KeyFor(pos)]]
    BY <1>1 DEF HandlePacket, pos
  <1>5. [pos |-> -1, key |-> -1] # [pos |-> pos, key |-> KeyFor(pos)]
    BY <1>3
  <1>6. committed' = committed /\ GenuineAccepted'
    BY <1>4, <1>5 DEF GenuineAccepted
  <1>7. keyIndex' \in Int /\ keyCurrent' = keyIndex'
    BY <1>3, <1>4, KeyIndexType DEF InStep, Renewed
  <1> QED
    BY <1>2, <1>6, <1>7 DEF InStep

\* The receiver accepts a packet exactly when it is genuine (GenuineAccepted): for every
\* width of the numbers, among them the 32 bits of the code, for every interval between
\* two keys, through wraps, reordering and damaged packets (takion.c, 1322-1355; gkcrypt.c,
\* 355-374, 553-570).
THEOREM Acceptance == PacketMacAssumption => (Spec => []GenuineAccepted)
  <1> SUFFICES ASSUME PacketMacAssumption PROVE Spec => []GenuineAccepted
    OBVIOUS
  <1>1. Init => InStep
    BY Assumptions DEF Init, InStep, GenuineAccepted
  <1>2. InStep /\ [Next]_vars => InStep'
    <2> SUFFICES ASSUME InStep, [Next]_vars PROVE InStep'
      OBVIOUS
    <2>1. CASE Genuine
      BY <2>1, GenuineKeepsStep
    <2>2. CASE Damaged
      BY <2>2, DamagedKeepsStep
    <2>3. CASE UNCHANGED vars
      BY <2>3 DEF vars, InStep, GenuineAccepted
    <2> QED
      BY <2>1, <2>2, <2>3 DEF Next
  <1>3. InStep => GenuineAccepted
    BY DEF InStep
  <1> QED
    BY <1>1, <1>2, <1>3, PTL DEF Spec
=============================================================================
