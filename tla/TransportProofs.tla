-------------------------- MODULE TransportProofs --------------------------
(***************************************************************************)
(* Theorems about the bench of MCTransport: the key stream and the MACs,   *)
(* the packet statistics, the reliable UDP, the send buffer, Takion, and   *)
(* what is found out about the way to the console.                         *)
(* Each component has an inductive invariant, of which the property        *)
(* follows. A component that does not run stays as it is, so what its      *)
(* module promises holds on the bench.                                     *)
(***************************************************************************)
EXTENDS MCTransport, Integers, Sequences, FiniteSetTheorems, TLAPS

Num      == INSTANCE SeqNumProofs
StatsNum == INSTANCE SeqNumProofs WITH Modulus <- StatsModulus

\* The moduli are such as the lemmas about serial numbers need them.
LEMMA Numbers == Num!ModulusAssumption /\ StatsNum!ModulusAssumption
  BY MCTransportAssumption DEF Num!ModulusAssumption, StatsNum!ModulusAssumption,
     Num!Half, StatsNum!Half, C!Half, P!Half

-----------------------------------------------------------------------------
\* The key positions of two senders that are on their way do not overlap
\* (chiaki_gkcrypt_advance_key_pos).
RangesReserved ==
    /\ keyPos \in Nat
    /\ step \in [Senders -> {"idle", "reserved", "sending"}]
    /\ range \in [Senders -> [from : Nat, to : Nat]]
    /\ \A t \in Senders : step[t] # "idle" => range[t].to <= keyPos
    /\ \A t, u \in Senders : t # u /\ step[t] # "idle" /\ step[u] # "idle" =>
           range[t].to <= range[u].from \/ range[u].to <= range[t].from

\* The ring holds whole chunks, and each place the byte of the key stream that belongs to
\* it.
RingFilled ==
    /\ content \in [0 .. K!RingSize - 1 -> Int]
    /\ posMin \in Nat /\ lastPos \in Nat /\ startOffset \in Nat
    /\ \E n \in 0 .. Chunks : populated = Chunk * n
    /\ filler = "filling" => populated # K!RingSize
    /\ \A pos \in posMin .. posMin + populated - 1 : content[K!Slot(pos)] = pos

\* The inductive invariant of the key stream.
KeysInv == RangesReserved /\ RingFilled /\ DOMAIN served = Senders /\ K!ServedCorrectly

\* What is used of the assumptions on the key stream.
LEMMA KeyConstants ==
    /\ Sizes \subseteq Nat \ {0} /\ Chunk \in Nat \ {0} /\ Chunks \in Nat \ {0}
    /\ K!RingSize \in Nat \ {0}
  <1>1. Sizes \subseteq Nat \ {0} /\ Chunk \in Nat \ {0} /\ Chunks \in Nat \ {0}
    BY MCTransportAssumption DEF K!KeyStreamAssumption
  <1> QED
    BY <1>1 DEF K!RingSize

\* No step makes two reservations overlap: the position only grows, and a range is taken
\* in one step.
LEMMA RangesStep ==
    ASSUME RangesReserved, K!Next
    PROVE  RangesReserved'
  <1>1. ASSUME NEW t \in Senders, NEW size \in Sizes, K!Reserve(t, size)
        PROVE  RangesReserved'
    BY <1>1, KeyConstants DEF RangesReserved, K!Reserve
  <1>2. ASSUME NEW t \in Senders, K!SendPlain(t)
        PROVE  RangesReserved'
    BY <1>2 DEF RangesReserved, K!SendPlain, K!NoRange
  <1>3. ASSUME NEW t \in Senders, K!GetKeyStream(t)
        PROVE  RangesReserved'
    BY <1>3 DEF RangesReserved, K!GetKeyStream
  <1>4. ASSUME NEW t \in Senders, K!SendEncrypted(t)
        PROVE  RangesReserved'
    BY <1>4 DEF RangesReserved, K!SendEncrypted, K!NoRange
  <1>5. CASE K!Filler \/ K!ChunkFails \/ K!Fini
    BY <1>5 DEF RangesReserved, K!Filler, K!BeginChunk, K!EndChunk, K!FillerEnds,
       K!ChunkFails, K!Fini, K!sendVars
  <1> QED
    BY <1>1, <1>2, <1>3, <1>4, <1>5 DEF K!Next, K!Send

\* Places of the ring.
LEMMA SlotType ==
    ASSUME NEW n \in Int
    PROVE  n % K!RingSize \in 0 .. K!RingSize - 1
  BY KeyConstants, Numbers, Num!Division

\* Moving on by an offset in the ring.
LEMMA SlotMoves ==
    ASSUME NEW d \in Int, NEW a \in Int
    PROVE  (d + (a % K!RingSize)) % K!RingSize = (d + a) % K!RingSize
  <1> DEFINE n == K!RingSize
             r == a % n
  <1>1. n \in Nat /\ n > 0
    BY KeyConstants
  <1>2. r \in Int
    BY SlotType
  <1> HIDE DEF n
  <1>3. (r + d) % n = (a + d) % n
    BY <1>1, Numbers, Num!SumOfResidue
  <1> HIDE DEF r
  <1>4. r + d = d + r /\ a + d = d + a
    BY <1>2
  <1> QED
    BY <1>3, <1>4 DEF r, n

\* Positions less than a ring apart lie in different places.
LEMMA SlotsDiffer ==
    ASSUME NEW a \in Int, NEW b \in Int, a < b, b < a + K!RingSize
    PROVE  a % K!RingSize # b % K!RingSize
  BY KeyConstants, Numbers, Num!ResiduesDiffer

\* A ring of whole chunks that is not full has room for one more.
LEMMA RoomForChunk ==
    ASSUME NEW n \in 0 .. Chunks, Chunk * n # K!RingSize
    PROVE  /\ n + 1 \in 0 .. Chunks
           /\ Chunk * (n + 1) = Chunk * n + Chunk
           /\ Chunk * n + Chunk <= K!RingSize
  <1>1. n # Chunks
    BY DEF K!RingSize
  <1>2. Chunk * (n + 1) = Chunk * n + Chunk
    BY KeyConstants
  <1>3. K!RingSize - Chunk * (n + 1) = Chunk * (Chunks - (n + 1))
    BY KeyConstants DEF K!RingSize
  <1>4. Chunks - (n + 1) \in Nat
    BY <1>1, KeyConstants
  <1>5. Chunk * (Chunks - (n + 1)) >= 0
    BY <1>4, KeyConstants
  <1>6. Chunk * n \in Int /\ Chunk \in Int /\ K!RingSize \in Int
    BY KeyConstants
  <1> QED
    BY <1>1, <1>2, <1>3, <1>5, <1>6, KeyConstants

\* What the filler gives up when a position has passed the ring leaves the rest in its
\* places.
LEMMA MovedRing ==
    ASSUME RingFilled, K!FillerWakes
    PROVE  /\ K!Moved.min \in Nat /\ K!Moved.offset \in Nat
           /\ \E n \in 0 .. Chunks : K!Moved.populated = Chunk * n
           /\ K!Moved.populated # K!RingSize
           /\ \A pos \in K!Moved.min .. K!Moved.min + K!Moved.populated - 1 :
                  content[(pos - K!Moved.min + K!Moved.offset) % K!RingSize] = pos
  <1> USE KeyConstants
  <1>0. PICK n \in 0 .. Chunks : populated = Chunk * n
    BY DEF RingFilled
  <1>00. populated \in Nat
    BY <1>0
  <1>1. CASE lastPos > posMin + populated
    <2>1. K!Moved = [min |-> (lastPos \div Chunk) * Chunk, offset |-> 0, populated |-> 0]
      BY <1>1 DEF K!Moved
    <2>2. lastPos \div Chunk \in Nat
      BY DEF RingFilled
    <2>3. (lastPos \div Chunk) * Chunk \in Nat
      BY <2>2
    <2>4. 0 = Chunk * 0 /\ 0 \in 0 .. Chunks
      OBVIOUS
    <2> QED
      BY <2>1, <2>3, <2>4
  <1>2. CASE ~ (lastPos > posMin + populated) /\ populated = K!RingSize
    <2>1. K!Moved = [min |-> posMin + Chunk, offset |-> (startOffset + Chunk) % K!RingSize,
                     populated |-> populated - Chunk]
      BY <1>2 DEF K!Moved
    <2>2. (startOffset + Chunk) % K!RingSize \in Nat
      BY SlotType DEF RingFilled
    <2>3. populated - Chunk = Chunk * (Chunks - 1)
      BY <1>2 DEF K!RingSize
    <2>4. Chunks - 1 \in 0 .. Chunks
      OBVIOUS
    <2>5. ASSUME NEW pos \in posMin + Chunk .. posMin + populated - 1
          PROVE  content[(pos - (posMin + Chunk) + ((startOffset + Chunk) % K!RingSize))
                         % K!RingSize] = pos
      <3>0. pos \in Int /\ posMin \in Int /\ startOffset \in Int /\ Chunk \in Int
        BY <1>00 DEF RingFilled
      <3>1. content[K!Slot(pos)] = pos
        BY <1>00 DEF RingFilled
      <3>2. pos - (posMin + Chunk) \in Int /\ startOffset + Chunk \in Int
        BY <3>0
      <3>3. (pos - (posMin + Chunk) + ((startOffset + Chunk) % K!RingSize)) % K!RingSize
            = (pos - (posMin + Chunk) + (startOffset + Chunk)) % K!RingSize
        BY <3>2, SlotMoves
      <3>4. pos - (posMin + Chunk) + (startOffset + Chunk) = pos - posMin + startOffset
        BY <3>0
      <3> QED
        BY <3>1, <3>3, <3>4 DEF K!Slot
    <2>6. (posMin + Chunk) + (populated - Chunk) - 1 = posMin + populated - 1
      BY <1>00 DEF RingFilled
    <2>7. populated - Chunk # K!RingSize /\ posMin + Chunk \in Nat
      BY <1>2 DEF RingFilled
    <2>7a. posMin + Chunk \in Nat
      BY DEF RingFilled
    <2>8. /\ K!Moved.min = posMin + Chunk /\ K!Moved.populated = populated - Chunk
          /\ K!Moved.offset = (startOffset + Chunk) % K!RingSize
      BY <2>1
    <2>9. /\ K!Moved.min \in Nat /\ K!Moved.offset \in Nat
          /\ \E m \in 0 .. Chunks : K!Moved.populated = Chunk * m
          /\ K!Moved.populated # K!RingSize
      BY <2>2, <2>3, <2>4, <2>7, <2>8
    <2>10. ASSUME NEW pos \in K!Moved.min .. K!Moved.min + K!Moved.populated - 1
           PROVE  content[(pos - K!Moved.min + K!Moved.offset) % K!RingSize] = pos
      <3>1. pos \in posMin + Chunk .. posMin + populated - 1
        BY <2>6, <2>8
      <3> QED
        BY <3>1, <2>5, <2>8
    <2> QED
      BY <2>9, <2>10
  <1>3. CASE ~ (lastPos > posMin + populated) /\ populated # K!RingSize
    <2>1. K!Moved = [min |-> posMin, offset |-> startOffset, populated |-> populated]
      BY <1>3 DEF K!Moved
    <2> QED
      BY <2>1, <1>0, <1>3 DEF RingFilled, K!Slot
  <1> QED
    BY <1>1, <1>2, <1>3

\* The filler begins a chunk, perhaps after it has given up what was passed.
LEMMA BeginChunkStep ==
    ASSUME RingFilled, K!BeginChunk
    PROVE  RingFilled'
  <1> DEFINE min == K!Moved.min
             offset == K!Moved.offset
             filled == K!Moved.populated
             fresh == {(offset + filled + i) % K!RingSize : i \in 0 .. Chunk - 1}
  <1>1. PICK n \in 0 .. Chunks : filled = Chunk * n
    BY MovedRing DEF K!BeginChunk
  <1>2. /\ min \in Nat /\ offset \in Nat /\ filled # K!RingSize
        /\ \A pos \in min .. min + filled - 1 :
               content[(pos - min + offset) % K!RingSize] = pos
    BY MovedRing DEF K!BeginChunk
  <1>3. /\ posMin' = min /\ startOffset' = offset /\ populated' = filled
        /\ content' = [k \in 0 .. K!RingSize - 1 |-> IF k \in fresh THEN K!Junk ELSE content[k]]
        /\ lastPos' = lastPos
    BY DEF K!BeginChunk
  <1>4. filled + Chunk <= K!RingSize /\ filled \in Nat
    <2>1. Chunk * n \in Nat
      BY KeyConstants
    <2> QED
      BY <1>1, <1>2, <2>1, RoomForChunk
  <1>5. ASSUME NEW pos \in min .. min + filled - 1
        PROVE  content'[(pos - min + offset) % K!RingSize] = pos
    <2>1. ASSUME NEW i \in 0 .. Chunk - 1
          PROVE  (pos - min + offset) % K!RingSize # (offset + filled + i) % K!RingSize
      <3>1. /\ pos - min + offset < offset + filled + i
            /\ offset + filled + i < (pos - min + offset) + K!RingSize
            /\ pos - min + offset \in Int /\ offset + filled + i \in Int
        BY <1>2, <1>4, KeyConstants
      <3> QED
        BY <3>1, SlotsDiffer
    <2>2. (pos - min + offset) % K!RingSize \in 0 .. K!RingSize - 1
      BY <1>2, <1>4, SlotType
    <2> QED
      BY <2>1, <2>2, <1>2, <1>3
  <1>6. content' \in [0 .. K!RingSize - 1 -> Int]
    BY <1>3 DEF RingFilled, K!Junk
  <1> HIDE DEF min, offset, filled, fresh
  <1> QED
    BY <1>1, <1>2, <1>3, <1>5, <1>6 DEF RingFilled, K!Slot

\* A chunk that is generated belongs to the place where it is put.
LEMMA EndChunkStep ==
    ASSUME RingFilled, K!EndChunk
    PROVE  RingFilled'
  <1> DEFINE at(i) == (startOffset + populated + i) % K!RingSize
             fresh == [i \in 0 .. Chunk - 1 |-> at(i)]
  <1>1. PICK n \in 0 .. Chunks : populated = Chunk * n
    BY DEF RingFilled
  <1>2. /\ populated + Chunk <= K!RingSize /\ populated \in Nat
        /\ n + 1 \in 0 .. Chunks /\ populated + Chunk = Chunk * (n + 1)
    <2>1. Chunk * n \in Nat /\ Chunk * n # K!RingSize
      BY <1>1, KeyConstants DEF RingFilled, K!EndChunk
    <2>2. /\ n + 1 \in 0 .. Chunks /\ Chunk * (n + 1) = Chunk * n + Chunk
          /\ Chunk * n + Chunk <= K!RingSize
      BY <2>1, RoomForChunk
    <2> QED
      BY <1>1, <2>1, <2>2
  <1>3. content' = [k \in 0 .. K!RingSize - 1 |->
          IF \E i \in 0 .. Chunk - 1 : fresh[i] = k
          THEN K!Cipher(posMin + populated + (CHOOSE i \in 0 .. Chunk - 1 : fresh[i] = k))
          ELSE content[k]]
    BY DEF K!EndChunk
  <1>4. /\ populated' = populated + Chunk /\ filler' = "waiting"
        /\ posMin' = posMin /\ startOffset' = startOffset /\ lastPos' = lastPos
    BY DEF K!EndChunk
  <1>5. ASSUME NEW pos \in posMin .. posMin + populated - 1
        PROVE  content'[K!Slot(pos)] = pos
    <2>1. ASSUME NEW i \in 0 .. Chunk - 1
          PROVE  K!Slot(pos) # at(i)
      <3>1. /\ pos - posMin + startOffset < startOffset + populated + i
            /\ startOffset + populated + i < (pos - posMin + startOffset) + K!RingSize
            /\ pos - posMin + startOffset \in Int /\ startOffset + populated + i \in Int
        BY <1>2, KeyConstants DEF RingFilled
      <3> QED
        BY <3>1, SlotsDiffer DEF K!Slot
    <2>2. K!Slot(pos) \in 0 .. K!RingSize - 1
      <3>1. pos - posMin + startOffset \in Int
        BY <1>2 DEF RingFilled
      <3> QED
        BY <3>1, SlotType DEF K!Slot
    <2>3. content[K!Slot(pos)] = pos
      BY DEF RingFilled
    <2> QED
      BY <2>1, <2>2, <2>3, <1>3
  <1>6. ASSUME NEW j \in 0 .. Chunk - 1
        PROVE  content'[at(j)] = posMin + populated + j
    <2>1. ASSUME NEW i \in 0 .. Chunk - 1, at(i) = at(j)
          PROVE  i = j
      <3>1. ASSUME NEW a \in 0 .. Chunk - 1, NEW b \in 0 .. Chunk - 1, a < b
            PROVE  at(a) # at(b)
        <4>1. /\ startOffset + populated + a < startOffset + populated + b
              /\ startOffset + populated + b < (startOffset + populated + a) + K!RingSize
              /\ startOffset + populated + a \in Int /\ startOffset + populated + b \in Int
          BY <1>2, <3>1, KeyConstants DEF RingFilled
        <4> QED
          BY <4>1, SlotsDiffer
      <3> HIDE DEF at
      <3> QED
        BY <2>1, <3>1
    <2>2. at(j) \in 0 .. K!RingSize - 1
      <3>1. startOffset + populated + j \in Int
        BY <1>2, KeyConstants DEF RingFilled
      <3> QED
        BY <3>1, SlotType
    <2> HIDE DEF at
    <2>3. (CHOOSE i \in 0 .. Chunk - 1 : fresh[i] = at(j)) = j
      BY <2>1
    <2>4. \E i \in 0 .. Chunk - 1 : fresh[i] = at(j)
      OBVIOUS
    <2> HIDE DEF fresh
    <2> QED
      BY <2>2, <2>3, <2>4, <1>3 DEF K!Cipher
  <1>7. ASSUME NEW pos \in posMin .. posMin + populated + Chunk - 1
        PROVE  content'[K!Slot(pos)] = pos
    <2>1. CASE pos < posMin + populated
      BY <2>1, <1>5, <1>2 DEF RingFilled
    <2>2. CASE pos >= posMin + populated
      <3>1. pos - posMin - populated \in 0 .. Chunk - 1
        BY <2>2, <1>2, KeyConstants DEF RingFilled
      <3>2. startOffset + populated + (pos - posMin - populated) = pos - posMin + startOffset
        BY <1>2, KeyConstants DEF RingFilled
      <3>3. posMin + populated + (pos - posMin - populated) = pos
        BY <1>2, KeyConstants DEF RingFilled
      <3> QED
        BY <3>1, <3>2, <3>3, <1>6 DEF K!Slot
    <2> QED
      BY <2>1, <2>2, <1>2, KeyConstants DEF RingFilled
  <1>8. content' \in [0 .. K!RingSize - 1 -> Int]
    <2> DEFINE new(k) == IF \E i \in 0 .. Chunk - 1 : fresh[i] = k
          THEN K!Cipher(posMin + populated + (CHOOSE i \in 0 .. Chunk - 1 : fresh[i] = k))
          ELSE content[k]
    <2>1. ASSUME NEW k \in 0 .. K!RingSize - 1
          PROVE  new(k) \in Int
      <3>1. CASE \E i \in 0 .. Chunk - 1 : fresh[i] = k
        <4> DEFINE c == CHOOSE i \in 0 .. Chunk - 1 : fresh[i] = k
        <4>1. c \in 0 .. Chunk - 1
          BY <3>1
        <4> HIDE DEF c, fresh
        <4>2. posMin + populated + c \in Int
          BY <4>1, <1>2, KeyConstants DEF RingFilled
        <4> QED
          BY <3>1, <4>2 DEF K!Cipher, c
      <3>2. CASE ~ \E i \in 0 .. Chunk - 1 : fresh[i] = k
        <4> HIDE DEF fresh
        <4> QED
          BY <3>2 DEF RingFilled
      <3> QED
        BY <3>1, <3>2
    <2> HIDE DEF new
    <2>2. content' = [k \in 0 .. K!RingSize - 1 |-> new(k)]
      BY <1>3 DEF new
    <2> QED
      BY <2>1, <2>2
  <1> HIDE DEF at, fresh
  <1>9. posMin' .. posMin' + populated' - 1 = posMin .. posMin + populated + Chunk - 1
    BY <1>2, <1>4, KeyConstants DEF RingFilled
  <1> QED
    BY <1>2, <1>4, <1>7, <1>8, <1>9 DEF RingFilled, K!Slot

\* No step makes the ring hold what does not belong there.
LEMMA RingStep ==
    ASSUME KeysInv, K!Next
    PROVE  RingFilled'
  <1>1. ASSUME NEW t \in Senders, K!Send(t)
        PROVE  RingFilled'
    <2>1. UNCHANGED <<content, populated, posMin, startOffset, filler>>
      BY <1>1 DEF K!Send, K!Reserve, K!SendPlain, K!GetKeyStream, K!SendEncrypted, K!ringVars
    <2>2. lastPos' \in Nat
      BY <1>1 DEF K!Send, K!Reserve, K!SendPlain, K!GetKeyStream, K!SendEncrypted, K!ringVars,
         KeysInv, RingFilled, RangesReserved
    <2> QED
      BY <2>1, <2>2 DEF KeysInv, RingFilled, K!Slot
  <1>2. CASE K!FillerEnds \/ K!ChunkFails \/ K!Fini
    <2>1. /\ UNCHANGED <<content, populated, posMin, startOffset, lastPos>>
          /\ filler' = filler \/ filler' = "ended"
      BY <1>2 DEF K!FillerEnds, K!ChunkFails, K!Fini
    <2> QED
      BY <2>1 DEF KeysInv, RingFilled, K!Slot
  <1> QED
    BY <1>1, <1>2, BeginChunkStep, EndChunkStep DEF K!Next, K!Filler, KeysInv

\* A sender is given the key stream of its position, from the ring or generated anew.
LEMMA ServedStep ==
    ASSUME KeysInv, K!Next
    PROVE  (DOMAIN served = Senders /\ K!ServedCorrectly)'
  <1> USE DEF KeysInv, RangesReserved, K!ServedCorrectly
  <1>1. ASSUME NEW t \in Senders, NEW size \in Sizes, K!Reserve(t, size)
        PROVE  (DOMAIN served = Senders /\ K!ServedCorrectly)'
    BY <1>1 DEF K!Reserve, K!Positions
  <1>2. ASSUME NEW t \in Senders, K!SendPlain(t)
        PROVE  (DOMAIN served = Senders /\ K!ServedCorrectly)'
    BY <1>2 DEF K!SendPlain, K!Positions
  <1>3. ASSUME NEW t \in Senders, K!GetKeyStream(t)
        PROVE  (DOMAIN served = Senders /\ K!ServedCorrectly)'
    <2>1. served' = [served EXCEPT ![t] =
            IF K!InRing(range[t])
            THEN [pos \in K!Positions(range[t]) |-> content[K!Slot(pos)]]
            ELSE [pos \in K!Positions(range[t]) |-> K!Cipher(pos)]]
      BY <1>3 DEF K!GetKeyStream
    <2>2. range' = range /\ step' = [step EXCEPT ![t] = "sending"]
      BY <1>3 DEF K!GetKeyStream
    <2>3. ASSUME NEW pos \in K!Positions(range[t])
          PROVE  served'[t][pos] = K!Cipher(pos)
      <3>1. CASE K!InRing(range[t])
        <4>1. populated \in Nat
          BY KeyConstants DEF RingFilled
        <4>2. pos \in posMin .. posMin + populated - 1
          BY <3>1, <4>1 DEF K!InRing, K!Positions, RingFilled
        <4>3. content[K!Slot(pos)] = pos
          BY <4>2 DEF RingFilled
        <4> QED
          BY <2>1, <3>1, <4>3 DEF K!Cipher
      <3>2. CASE ~ K!InRing(range[t])
        BY <2>1, <3>2
      <3> QED
        BY <3>1, <3>2
    <2>4. ASSUME NEW u \in Senders, u # t, step'[u] = "sending", NEW pos \in K!Positions(range[u])
          PROVE  served'[u][pos] = K!Cipher(pos)
      BY <2>1, <2>2, <2>4
    <2>5. DOMAIN served' = Senders
      BY <2>1
    <2> QED
      BY <2>2, <2>3, <2>4, <2>5 DEF K!Positions
  <1>4. ASSUME NEW t \in Senders, K!SendEncrypted(t)
        PROVE  (DOMAIN served = Senders /\ K!ServedCorrectly)'
    BY <1>4 DEF K!SendEncrypted, K!Positions
  <1>5. CASE K!Filler \/ K!ChunkFails \/ K!Fini
    BY <1>5 DEF K!Filler, K!BeginChunk, K!EndChunk, K!FillerEnds,
       K!ChunkFails, K!Fini, K!sendVars, K!Positions
  <1> QED
    BY <1>1, <1>2, <1>3, <1>4, <1>5 DEF K!Next, K!Send

\* The key stream at first ...
LEMMA KeysInit == K!Init => KeysInv
  <1> SUFFICES ASSUME K!Init PROVE KeysInv
    OBVIOUS
  <1>1. RangesReserved
    BY DEF K!Init, RangesReserved, K!NoRange
  <1>2. RingFilled
    <2>1. 0 = Chunk * 0 /\ 0 \in 0 .. Chunks
      BY KeyConstants
    <2> QED
      BY <2>1, KeyConstants DEF K!Init, RingFilled, K!Junk
  <1> QED
    BY <1>1, <1>2 DEF KeysInv, K!Init, K!ServedCorrectly

\* ... after each step ...
LEMMA KeysStep == KeysInv /\ K!Next => KeysInv'
  BY RangesStep, RingStep, ServedStep DEF KeysInv

\* ... and while another component runs.
LEMMA KeysStutter == KeysInv /\ UNCHANGED keysVars => KeysInv'
  BY DEF KeysInv, keysVars, RangesReserved, RingFilled, K!Slot, K!ServedCorrectly, K!Positions

\* What the invariant says of the ranges.
LEMMA KeysPromise == KeysInv => K!RangesDisjoint
  BY DEF KeysInv, RangesReserved, K!RangesDisjoint, K!Positions

-----------------------------------------------------------------------------
MacProofs == INSTANCE PacketMacProofs WITH MaxPos <- MaxMacPos

\* The packets' MACs: proved in PacketMacProofs for the module alone; here, for the
\* bench.
LEMMA MacConstants == MacProofs!ModulusAssumption /\ MacProofs!PacketMacAssumption
  BY MCTransportAssumption DEF MacProofs!ModulusAssumption, MacProofs!PacketMacAssumption,
     C!PacketMacAssumption, C!Half, MacProofs!Half

\* The MACs at first ...
LEMMA MacInit == C!Init => MacProofs!InStep
  BY MacConstants, MacProofs!Assumptions DEF C!Init, MacProofs!InStep, MacProofs!GenuineAccepted

\* ... after each step ...
LEMMA MacStep == MacProofs!InStep /\ C!Next => MacProofs!InStep'
  <1> SUFFICES ASSUME MacProofs!InStep, C!Next PROVE MacProofs!InStep'
    OBVIOUS
  <1> USE DEF C!HandlePacket, MacProofs!HandlePacket, C!RequestPos, MacProofs!RequestPos,
      C!Low, MacProofs!Low, C!Gt, MacProofs!Gt, C!Lt, MacProofs!Lt, C!KeyFor, MacProofs!KeyFor,
      C!KeyIndex, MacProofs!KeyIndex, C!Renewed, MacProofs!Renewed, C!Half, MacProofs!Half,
      C!SeqNums, MacProofs!SeqNums
  <1>1. CASE C!Genuine
    <2>1. MacProofs!Genuine
      BY <1>1 DEF C!Genuine, MacProofs!Genuine
    <2> QED
      BY <2>1, MacConstants, MacProofs!GenuineKeepsStep
  <1>2. CASE C!Damaged
    <2>1. MacProofs!Damaged
      BY <1>2 DEF C!Damaged, MacProofs!Damaged
    <2> QED
      BY <2>1, MacConstants, MacProofs!DamagedKeepsStep
  <1> QED
    BY <1>1, <1>2 DEF C!Next

\* ... and while another component runs.
LEMMA MacStutter == MacProofs!InStep /\ UNCHANGED macVars => MacProofs!InStep'
  BY DEF macVars, MacProofs!InStep, MacProofs!GenuineAccepted

\* Peers in step accept each other's packets.
LEMMA MacPromise == MacProofs!InStep => C!GenuineAccepted
  BY DEF C!GenuineAccepted, MacProofs!InStep, MacProofs!GenuineAccepted

-----------------------------------------------------------------------------
\* The component that runs takes a step, the others stay as they are.
LEMMA BenchStep ==
    ASSUME [Next]_vars
    PROVE  /\ K!Next \/ UNCHANGED keysVars
           /\ C!Next \/ UNCHANGED macVars
           /\ P!Next \/ UNCHANGED statsVars
           /\ R!Next \/ UNCHANGED rudpVars
           /\ B!Next \/ UNCHANGED bufferVars
           /\ M!Next \/ UNCHANGED measureVars
           /\ H!Next \/ UNCHANGED holeVars
           /\ N!Next \/ UNCHANGED portVars
           /\ T!Next \/ UNCHANGED takionVars
           /\ bench' = bench
  BY DEF Next, vars, Takion, KeyStream, Mac, Feedback, Stats, Rudp, SendBuffer, Senkusha,
     Probe, Stun

\* For every size of packets, chunk, ring and number of senders: no two packets are
\* encrypted with the same key stream, a position is served with its own key stream while
\* the ring is filled behind and passed on both sides, and no genuine packet is refused
\* (gkcrypt.c, 283-374 and 477-570; takion.c, 532-556 and 1322-1355).
THEOREM KeysAlwaysMatch == Spec => []KeysMatch
  <1>1. Init => KeysInv /\ MacProofs!InStep
    BY KeysInit, MacInit DEF Init
  <1>2. (KeysInv /\ MacProofs!InStep) /\ [Next]_vars => (KeysInv /\ MacProofs!InStep)'
    BY BenchStep, KeysStep, KeysStutter, MacStep, MacStutter
  <1>3. KeysInv /\ MacProofs!InStep => KeysMatch
    BY KeysPromise, MacPromise DEF KeysInv, KeysMatch
  <1> QED
    BY <1>1, <1>2, <1>3, PTL DEF Spec

-----------------------------------------------------------------------------
\* The counters of sequence numbers against the frames that were sent, arrived and are
\* missing. The second disjunct is the time between the two statements of the push.
FramesCounted ==
    /\ sentFrames \in Nat /\ missing \in Nat /\ genLost \in Nat
    /\ arrived \in Nat /\ arrived <= MaxArrivals
    /\ seqReceived \in Nat /\ pushing \in Nat \cup {P!Idle}
    /\ pushing = P!Idle => seqMax = sentFrames % StatsModulus
    /\ pushing # P!Idle => \E m, n \in Nat :
           /\ m - n < P!Half /\ n - m < P!Half
           /\ seqMax = m % StatsModulus /\ pushed = n % StatsModulus
           /\ sentFrames = IF n > m THEN n ELSE m
    /\ orderly =>
           /\ seqMin = (sentFrames - (arrived + missing)) % StatsModulus
           /\ arrived + missing <= Spread * arrived
           /\ IF pushing = P!Idle THEN seqReceived = arrived
              ELSE pushing = seqReceived /\ seqReceived = arrived - 1

\* The counters of the units of a frame.
UnitsCounted ==
    /\ genReceived \in Nat /\ genLost \in Nat
    /\ total \in Nat \X Nat /\ reported \in Nat \X Nat
    /\ P!UnitsReportedOnce

\* The inductive invariant of the packet statistics.
StatsInv == FramesCounted /\ UnitsCounted /\ P!ReportedLossExact

\* What is used of the assumptions: the frames of one interval, whatever is missing
\* between them, number less than half of the sequence numbers.
LEMMA StatsConstants ==
    /\ StatsModulus \in Nat /\ StatsModulus > 0
    /\ P!Half \in Nat /\ StatsModulus = 2 * P!Half
    /\ MaxArrivals \in Nat /\ Spread \in Nat /\ Spread * MaxArrivals < P!Half
  <1>1. /\ StatsModulus \in Nat /\ StatsModulus > 0 /\ StatsModulus = 2 * P!Half
        /\ MaxArrivals \in Nat /\ Spread \in Nat /\ Spread * MaxArrivals < P!Half
    BY MCTransportAssumption DEF P!PacketStatsAssumption
  <1>2. P!Half \in Nat
    BY <1>1 DEF P!Half
  <1> QED
    BY <1>1, <1>2

\* No step loses or counts twice the units of a frame.
LEMMA UnitsStep ==
    ASSUME UnitsCounted, P!Next
    PROVE  UnitsCounted'
  <1> USE DEF UnitsCounted, P!UnitsReportedOnce
  <1>1. CASE P!PushGeneration
    <2>1. PICK received \in 0 .. MaxUnits, lost0 \in 0 .. MaxUnits :
             /\ genReceived' = genReceived + received
             /\ genLost' = genLost + lost0
             /\ total' = <<total[1] + received, total[2] + lost0>>
      BY <1>1 DEF P!PushGeneration
    <2>2. reported' = reported
      BY <1>1 DEF P!PushGeneration
    <2> QED
      BY <2>1, <2>2
  <1>2. CASE P!Report
    BY <1>2 DEF P!Report
  <1>3. CASE ~ (P!PushGeneration \/ P!Report)
    <2>1. UNCHANGED <<genReceived, genLost, total, reported>>
      BY <1>3 DEF P!Next, P!PushSeq, P!Stop, P!ReporterEnds, P!FrameArrives, P!counters,
         P!history
    <2> QED
      BY <2>1
  <1> QED
    BY <1>1, <1>2, <1>3

\* A frame has arrived, with its number.
LEMMA FrameStep ==
    ASSUME FramesCounted, NEW n \in 1 .. MaxFrames, P!FrameArrives(n)
    PROVE  FramesCounted'
  <1> USE StatsConstants
  <1>1. n \in Nat
    BY MCTransportAssumption DEF P!PacketStatsAssumption
  <1>2. /\ pushing = P!Idle /\ arrived < MaxArrivals
        /\ n >= sentFrames - Spread /\ n <= sentFrames + Spread
        /\ pushing' = seqReceived /\ pushed' = n % StatsModulus
        /\ sentFrames' = IF n > sentFrames THEN n ELSE sentFrames
        /\ arrived' = arrived + 1
        /\ missing' = IF n > sentFrames THEN missing + (n - sentFrames - 1) ELSE missing
        /\ orderly' = (orderly /\ n > sentFrames)
        /\ UNCHANGED <<genLost, seqMin, seqMax, seqReceived>>
    BY DEF P!FrameArrives, P!counters
  <1>3. Spread < P!Half
    <2>1. Spread * MaxArrivals = Spread + Spread * (MaxArrivals - 1)
      OBVIOUS
    <2>2. MaxArrivals - 1 \in Nat
      BY <1>2 DEF FramesCounted
    <2>3. Spread * (MaxArrivals - 1) \in Nat
      BY <2>2
    <2> QED
      BY <2>1, <2>3
  <1>4. missing' \in Nat
    BY <1>1, <1>2 DEF FramesCounted
  <1>5. ASSUME orderly'
        PROVE  /\ seqMin' = (sentFrames' - (arrived' + missing')) % StatsModulus
               /\ arrived' + missing' <= Spread * arrived'
               /\ pushing' = seqReceived' /\ seqReceived' = arrived' - 1
    <2>0. orderly /\ n > sentFrames
      BY <1>2, <1>5
    <2>1. /\ sentFrames' - (arrived' + missing') = sentFrames - (arrived + missing)
          /\ arrived' + missing' <= arrived + missing + Spread
      BY <1>1, <1>2, <2>0 DEF FramesCounted
    <2>2. Spread * (arrived + 1) = Spread * arrived + Spread
      BY DEF FramesCounted
    <2>3. Spread * arrived \in Nat
      BY DEF FramesCounted
    <2> QED
      BY <1>2, <1>4, <2>0, <2>1, <2>2, <2>3 DEF FramesCounted
  <1>6. /\ sentFrames - n < P!Half /\ n - sentFrames < P!Half
        /\ seqMax' = sentFrames % StatsModulus
    BY <1>1, <1>2, <1>3 DEF FramesCounted
  <1>7. pushing' \in Nat /\ pushing' # P!Idle
    BY <1>2 DEF FramesCounted, P!Idle
  <1>8. sentFrames' \in Nat /\ arrived' \in Nat /\ arrived' <= MaxArrivals /\ genLost' \in Nat
        /\ seqReceived' \in Nat
    BY <1>1, <1>2 DEF FramesCounted
  <1>9. \E m, k \in Nat :
           /\ m - k < P!Half /\ k - m < P!Half
           /\ seqMax' = m % StatsModulus /\ pushed' = k % StatsModulus
           /\ sentFrames' = IF k > m THEN k ELSE m
    BY <1>1, <1>2, <1>6 DEF FramesCounted
  <1> QED
    BY <1>4, <1>5, <1>7, <1>8, <1>9 DEF FramesCounted

\* The two halves of chiaki_packet_stats_push_seq.
LEMMA PushStep ==
    ASSUME FramesCounted, P!PushSeq
    PROVE  FramesCounted'
  <1> USE StatsConstants
  <1>1. PICK m \in Nat, n \in Nat :
           /\ m - n < P!Half /\ n - m < P!Half
           /\ seqMax = m % StatsModulus /\ pushed = n % StatsModulus
           /\ sentFrames = IF n > m THEN n ELSE m
    BY DEF FramesCounted, P!PushSeq
  <1>2. P!Gt(pushed, seqMax) <=> n > m
    <2>1. n - m < StatsNum!Half /\ m - n < StatsNum!Half
      BY <1>1 DEF StatsNum!Half, P!Half
    <2>2. StatsNum!Gt(StatsNum!Wrap(n), StatsNum!Wrap(m)) <=> n > m
      BY <2>1, Numbers, StatsNum!ComparisonOfPositions
    <2> QED
      BY <1>1, <2>2 DEF P!Gt, StatsNum!Gt, StatsNum!Wrap, P!Half, StatsNum!Half
  <1>3. /\ seqReceived' = pushing + 1 /\ pushing' = P!Idle
        /\ seqMax' = IF n > m THEN pushed ELSE seqMax
        /\ UNCHANGED <<genLost, seqMin, sentFrames, arrived, missing, orderly>>
    BY <1>2 DEF P!PushSeq, P!history
  <1>4. seqMax' = sentFrames % StatsModulus
    BY <1>1, <1>3
  <1>5. pushing \in Nat /\ pushing # P!Idle
    BY DEF FramesCounted, P!PushSeq
  <1>6. seqReceived' \in Nat
    BY <1>3, <1>5
  <1>7. ASSUME orderly
        PROVE  seqReceived' = arrived
    BY <1>3, <1>5, <1>7 DEF FramesCounted
  <1> QED
    BY <1>3, <1>4, <1>6, <1>7 DEF FramesCounted

\* What the wrapped counters make of the loss is the loss.
LEMMA LossExact ==
    ASSUME FramesCounted, orderly, pushing = P!Idle
    PROVE  P!Bits16(genLost + P!SeqLost) = P!Bits16(genLost + missing)
  <1> USE StatsConstants
  <1> DEFINE d == arrived + missing
             from == sentFrames - d
  <1>1. d \in Nat /\ d < P!Half /\ from \in Int /\ from + d = sentFrames
    <2>1. Spread * arrived <= Spread * MaxArrivals
      <3>1. Spread * MaxArrivals = Spread * arrived + Spread * (MaxArrivals - arrived)
        BY DEF FramesCounted
      <3>2. MaxArrivals - arrived \in Nat
        BY DEF FramesCounted
      <3>3. Spread * (MaxArrivals - arrived) \in Nat /\ Spread * arrived \in Nat
        BY <3>2 DEF FramesCounted
      <3> QED
        BY <3>1, <3>3
    <2>2. Spread * arrived \in Nat /\ Spread * MaxArrivals \in Nat
      BY DEF FramesCounted
    <2> QED
      BY <2>1, <2>2 DEF FramesCounted
  <1>2. seqMin = StatsNum!Wrap(from) /\ seqMax = StatsNum!Wrap(from + d)
    BY <1>1 DEF FramesCounted, StatsNum!Wrap
  <1>3. StatsNum!Distance(seqMin, seqMax) = d
    BY <1>1, <1>2, Numbers, StatsNum!DistanceOfPositions
  <1>4. seqMin \in StatsNum!SeqNums /\ seqMax \in StatsNum!SeqNums
    <2>1. from \in Int /\ from + d \in Int
      BY <1>1
    <2> HIDE DEF from, d
    <2> QED
      BY <2>1, <1>2, Numbers, StatsNum!SeqType
  <1>5. d = IF seqMax >= seqMin THEN seqMax - seqMin ELSE seqMax - seqMin + StatsModulus
    BY <1>3, <1>4, Numbers, StatsNum!AddDistance
  <1>6. seqReceived = arrived /\ arrived \in Nat /\ missing \in Nat /\ genLost \in Nat
    BY DEF FramesCounted
  <1>7. P!SeqLost = missing \/ P!SeqLost = missing - StatsModulus
    BY <1>4, <1>5, <1>6 DEF P!SeqLost, P!SeqDiff, P!Wrapped, StatsNum!SeqNums
  <1>8. (genLost + (missing - StatsModulus)) % StatsModulus = (genLost + missing) % StatsModulus
    <2> DEFINE a == genLost + missing
               q == a \div StatsModulus
               r == a % StatsModulus
    <2>1. r \in 0 .. StatsModulus - 1 /\ q \in Int /\ a = StatsModulus * q + r /\ a \in Int
      BY <1>6, Numbers, StatsNum!Division
    <2> HIDE DEF q, r
    <2>2. StatsModulus * (q - 1) = StatsModulus * q - StatsModulus
      BY <2>1
    <2>3. genLost + (missing - StatsModulus) = StatsModulus * (q - 1) + r
      BY <2>1, <2>2, <1>6
    <2>4. (StatsModulus * (q - 1) + r) % StatsModulus = r
      <3>1. q - 1 \in Int
        BY <2>1
      <3> QED
        BY <2>1, <3>1, Numbers, StatsNum!RemainderUnique
    <2> QED
      BY <2>3, <2>4 DEF r
  <1> QED
    BY <1>7, <1>8 DEF P!Bits16

\* Each report resets what it has told.
LEMMA ReportStep ==
    ASSUME FramesCounted, P!Report
    PROVE  FramesCounted' /\ P!ReportedLossExact'
  <1> USE StatsConstants
  <1>1. /\ report' = [received |-> P!Bits16(genReceived + seqReceived),
                      lost |-> P!Bits16(genLost + P!SeqLost), due |-> P!Bits16(genLost + missing),
                      orderly |-> orderly /\ pushing = P!Idle]
        /\ genLost' = 0 /\ seqMin' = seqMax /\ seqReceived' = 0
        /\ arrived' = 0 /\ missing' = 0 /\ orderly' = (pushing = P!Idle)
        /\ UNCHANGED <<seqMax, pushing, pushed, sentFrames>>
    BY DEF P!Report
  <1>2. P!ReportedLossExact'
    BY <1>1, LossExact DEF P!ReportedLossExact
  <1>3. Spread * 0 = 0
    OBVIOUS
  <1>4. ASSUME pushing = P!Idle
        PROVE  seqMin' = (sentFrames' - (arrived' + missing')) % StatsModulus
    BY <1>1, <1>4 DEF FramesCounted
  <1>5. FramesCounted'
    <2>1. CASE pushing = P!Idle
      BY <1>1, <1>3, <1>4, <2>1 DEF FramesCounted
    <2>2. CASE pushing # P!Idle
      <3>1. ~orderly'
        BY <1>1, <2>2
      <3>2. \E m, n \in Nat :
               /\ m - n < P!Half /\ n - m < P!Half
               /\ seqMax' = m % StatsModulus /\ pushed' = n % StatsModulus
               /\ sentFrames' = IF n > m THEN n ELSE m
        BY <1>1, <2>2 DEF FramesCounted
      <3> QED
        BY <1>1, <2>2, <3>1, <3>2 DEF FramesCounted
    <2> QED
      BY <2>1, <2>2
  <1> QED
    BY <1>2, <1>5

\* No step of the statistics breaks the invariant ...
LEMMA StatsStep == StatsInv /\ P!Next => StatsInv'
  <1> SUFFICES ASSUME StatsInv, P!Next PROVE StatsInv'
    OBVIOUS
  <1> USE DEF StatsInv
  <1>0. UnitsCounted'
    BY UnitsStep
  <1>1. ASSUME NEW n \in 1 .. MaxFrames, P!FrameArrives(n)
        PROVE  StatsInv'
    <2>1. report' = report
      BY <1>1 DEF P!FrameArrives
    <2> QED
      BY <1>0, <1>1, <2>1, FrameStep DEF P!ReportedLossExact
  <1>2. CASE P!PushSeq
    <2>1. report' = report
      BY <1>2 DEF P!PushSeq
    <2> QED
      BY <1>0, <1>2, <2>1, PushStep DEF P!ReportedLossExact
  <1>3. CASE P!Report
    BY <1>0, <1>3, ReportStep
  <1>4. CASE P!PushGeneration
    <2>1. genLost' \in Nat /\ UNCHANGED <<seqMin, seqMax, seqReceived, pushing, pushed,
              sentFrames, arrived, missing, orderly, report>>
      BY <1>4 DEF P!PushGeneration, FramesCounted
    <2> QED
      BY <1>0, <2>1 DEF FramesCounted, P!ReportedLossExact
  <1>5. CASE P!Stop \/ P!ReporterEnds
    <2>1. UNCHANGED <<genLost, seqMin, seqMax, seqReceived, pushing, pushed,
              sentFrames, arrived, missing, orderly, report>>
      BY <1>5 DEF P!Stop, P!ReporterEnds, P!counters, P!history
    <2> QED
      BY <1>0, <2>1 DEF FramesCounted, P!ReportedLossExact
  <1> QED
    BY <1>1, <1>2, <1>3, <1>4, <1>5 DEF P!Next

\* ... which holds at first ...
LEMMA StatsInit == P!Init => StatsInv
  <1> SUFFICES ASSUME P!Init PROVE StatsInv
    OBVIOUS
  <1>1. 0 % StatsModulus = 0 /\ Spread * 0 = 0
    BY StatsConstants
  <1> QED
    BY <1>1, StatsConstants DEF P!Init, StatsInv, FramesCounted, UnitsCounted,
       P!UnitsReportedOnce, P!ReportedLossExact

\* ... and while another component runs.
LEMMA StatsStutter == StatsInv /\ UNCHANGED statsVars => StatsInv'
  BY DEF StatsInv, statsVars, FramesCounted, UnitsCounted, P!UnitsReportedOnce,
     P!ReportedLossExact

\* Whatever is lost, for every modulus and every interval that stays below half of it,
\* the console is told exactly the losses of the interval, if its packets came in order
\* and no frame came while the report was made, and every unit is reported once
\* (packetstats.c, 36-85; congestioncontrol.c, 7-39).
THEOREM LossReportsStayExact == Spec => []LossReportsExact
  <1>1. Init => StatsInv
    BY StatsInit DEF Init
  <1>2. StatsInv /\ [Next]_vars => StatsInv'
    BY BenchStep, StatsStep, StatsStutter
  <1>3. StatsInv => LossReportsExact
    BY DEF StatsInv, UnitsCounted, LossReportsExact
  <1> QED
    BY <1>1, <1>2, <1>3, PTL DEF Spec

-----------------------------------------------------------------------------
Sub == INSTANCE SubsequenceProofs

\* The stage of the connection, the counters taken so far and the answers.
ExchangeInStep ==
    /\ stage \in Nat /\ try \in Nat /\ taken \in Nat
    /\ exchange \in {"send", "receive", "done", "failed"}
    /\ exchange \in {"send", "receive"} => stage \in 1 .. Stages /\ try < Tries
    /\ answers \in [1 .. Stages -> Nat]
    /\ \A s \in 1 .. Stages : answers[s] > 0 => s \in answered
    /\ R!StagesAnswered
    /\ exchange = "send" => taken <= (stage - 1) * Tries + try
    /\ exchange = "receive" => taken <= (stage - 1) * Tries + try + 1
    /\ taken <= R!FirstMessage + MaxMessages

\* A packet of the send buffer: the counter it was sent with, and the counter it is filed
\* under, which may be a later one.
Packet == [own : Nat, filed : Nat, tries : Nat]

\* It is filed under a later counter than its own, which was taken already.
Filed(p) == p.own < p.filed /\ p.filed <= taken

\* How far a sending thread has come.
SenderState == [at : {"idle", "taken", "numbered", "sent"}, own : Nat, filed : Nat]

\* The senders on their way hold counters that were taken.
SendersFiled ==
    /\ sending \in [SendingThreads -> SenderState]
    /\ \A t \in SendingThreads :
           /\ sending[t].at # "idle" => sending[t].own < taken
           /\ sending[t].at \in {"numbered", "sent"} => Filed(sending[t])

\* So do the packets of the send buffer.
PacketsFiled ==
    /\ packets \in Seq(Packet)
    /\ \A k \in 1 .. Len(packets) : Filed(packets[k])

\* All messages are numbered with what was taken.
MessagesFiled ==
    /\ SendersFiled /\ PacketsFiled
    /\ reached \subseteq 0 .. taken - 1 /\ promised \subseteq 0 .. taken - 1
    /\ resend # 0 => excused

\* What the console has is below what is still to be sent.
ReachedInOrder ==
    /\ \A m \in promised, n \in reached : m <= n => m \in reached
    /\ \A t \in SendingThreads, n \in reached :
           /\ sending[t].at \in {"taken", "numbered"} => n < sending[t].own
           /\ sending[t].at = "sent" => n < sending[t].own \/ sending[t].own \in reached

\* The inductive invariant of the reliable UDP; excused are the runs in which the buffer
\* overflowed or a packet was given up.
RudpInv ==
    /\ ExchangeInStep /\ MessagesFiled
    /\ ~excused => ReachedInOrder /\ R!PromiseKept

\* What is used of the assumptions: the counters of a connection do not go round half of
\* the numbers.
LEMMA RudpConstants ==
    /\ Stages \in Nat \ {0} /\ Tries \in Nat \ {0} /\ Start \in Nat
    /\ BufferSize \in Nat /\ ResendTriesMax \in Nat /\ MaxMessages \in Nat
    /\ R!FirstMessage \in Nat /\ R!FirstMessage = Stages * Tries
    /\ R!FirstMessage + MaxMessages < R!Half
  <1>1. /\ Stages \in Nat \ {0} /\ Tries \in Nat \ {0} /\ Start \in Nat
        /\ BufferSize \in Nat /\ ResendTriesMax \in Nat /\ MaxMessages \in Nat
        /\ Stages * Tries + MaxMessages < R!Half
    BY MCTransportAssumption DEF R!RudpAssumption, R!SeqNums
  <1> QED
    BY <1>1 DEF R!FirstMessage

\* The connection is made stage by stage.
LEMMA ExchangeStep ==
    ASSUME ExchangeInStep, R!Next
    PROVE  ExchangeInStep'
  <1> USE RudpConstants
  <1> DEFINE base == (stage - 1) * Tries
  <1>0. stage \in 1 .. Stages => /\ base \in Nat /\ base + Tries = stage * Tries
                                 /\ base + Tries <= R!FirstMessage
    <2> SUFFICES ASSUME stage \in 1 .. Stages
                 PROVE  /\ base \in Nat /\ base + Tries = stage * Tries
                        /\ base + Tries <= R!FirstMessage
      OBVIOUS
    <2>1. stage - 1 \in Nat /\ Stages - stage \in Nat
      OBVIOUS
    <2>2. base \in Nat /\ (Stages - stage) * Tries \in Nat
      BY <2>1
    <2>3. base + Tries = stage * Tries
      BY <2>1
    <2>4. Stages * Tries = stage * Tries + (Stages - stage) * Tries
      BY <2>1
    <2> HIDE DEF base
    <2> QED
      BY <2>2, <2>3, <2>4
  <1>1. CASE R!SendRequest
    <2>1. /\ exchange = "send" /\ exchange' = "receive"
          /\ taken' = taken \/ taken' = taken + 1
          /\ stage' = stage /\ try' = try
          /\ \/ /\ answers' = [answers EXCEPT ![stage] = @ + 1]
                /\ answered' = answered \cup {stage}
             \/ UNCHANGED <<answers, answered>>
      BY <1>1 DEF R!SendRequest
    <2>2. stage \in 1 .. Stages /\ try < Tries
      BY <2>1 DEF ExchangeInStep
    <2>3. taken' \in Nat /\ taken' <= base + try + 1
      BY <2>1 DEF ExchangeInStep
    <2>4. taken' <= R!FirstMessage + MaxMessages
      <3> HIDE DEF base
      <3> QED
        BY <1>0, <2>2, <2>3 DEF ExchangeInStep
    <2>5. R!StagesAnswered'
      BY <2>1 DEF ExchangeInStep, R!StagesAnswered
    <2>6. /\ answers' \in [1 .. Stages -> Nat]
          /\ \A s \in 1 .. Stages : answers'[s] > 0 => s \in answered'
      BY <2>1, <2>2 DEF ExchangeInStep
    <2> QED
      BY <2>1, <2>2, <2>3, <2>4, <2>5, <2>6 DEF ExchangeInStep
  <1>2. ASSUME exchange = "receive", R!NextTry, UNCHANGED <<taken, answered>>,
               answers' \in [1 .. Stages -> Nat],
               \A s \in 1 .. Stages : answers'[s] > 0 => s \in answered
        PROVE  ExchangeInStep'
    <2>1. /\ try' = try + 1 /\ stage' = stage
          /\ exchange' = IF try + 1 = Tries THEN "failed" ELSE "send"
      BY <1>2 DEF R!NextTry
    <2>2. stage \in 1 .. Stages /\ try < Tries
      BY <1>2 DEF ExchangeInStep
    <2>3. taken' <= (stage' - 1) * Tries + try'
      <3>1. taken <= base + try + 1
        BY <1>2 DEF ExchangeInStep
      <3>2. base \in Nat
        BY <1>0, <2>2
      <3> QED
        BY <3>1, <3>2, <2>1, <1>2 DEF ExchangeInStep
    <2> QED
      BY <1>2, <2>1, <2>2, <2>3 DEF ExchangeInStep, R!StagesAnswered
  <1>3. CASE R!ReceiveTimeout
    BY <1>2, <1>3 DEF R!ReceiveTimeout, ExchangeInStep
  <1>4. CASE R!ReceiveFails
    BY <1>4 DEF R!ReceiveFails, ExchangeInStep, R!StagesAnswered
  <1>5. CASE R!ReceiveAnswer
    <2>1. PICK s \in DOMAIN answers, t \in DOMAIN answers, small \in BOOLEAN :
             /\ answers[s] > 0 /\ answers[t] > 0
             /\ answers' = [u \in DOMAIN answers |-> IF u \in {s, t} THEN answers[u] - 1
                                                     ELSE answers[u]]
             /\ IF R!Accepts({s, t}) /\ ~small THEN R!Advance ELSE R!NextTry
      BY <1>5 DEF R!ReceiveAnswer
    <2>2. exchange = "receive" /\ UNCHANGED <<taken, answered>>
      BY <1>5 DEF R!ReceiveAnswer
    <2>3. /\ answers' \in [1 .. Stages -> Nat]
          /\ \A u \in 1 .. Stages : answers'[u] > 0 => u \in answered
      BY <2>1 DEF ExchangeInStep
    <2>4. CASE R!NextTry
      BY <1>2, <2>2, <2>3, <2>4
    <2>5. CASE R!Advance /\ R!Accepts({s, t})
      <3>1. /\ stage' = stage + 1 /\ try' = 0
            /\ exchange' = IF stage = Stages THEN "done" ELSE "send"
        BY <2>5 DEF R!Advance
      <3>2. stage \in 1 .. Stages /\ try < Tries
        BY <2>2 DEF ExchangeInStep
      <3>3. stage \in answered
        BY <2>1, <2>5, <3>2 DEF R!Accepts, ExchangeInStep
      <3>4. R!StagesAnswered'
        BY <2>2, <3>1, <3>2, <3>3 DEF ExchangeInStep, R!StagesAnswered
      <3>5. taken' <= (stage' - 1) * Tries + try'
        <4>1. taken <= base + try + 1 /\ taken \in Nat /\ try \in Nat
          BY <2>2 DEF ExchangeInStep
        <4>2. base \in Nat /\ base + Tries = stage * Tries /\ stage' - 1 = stage
          BY <1>0, <3>1, <3>2
        <4> HIDE DEF base
        <4> QED
          BY <2>2, <4>1, <4>2, <3>1, <3>2
      <3> QED
        BY <2>2, <2>3, <3>1, <3>2, <3>4, <3>5 DEF ExchangeInStep
    <2> QED
      BY <2>1, <2>4, <2>5
  <1>6. CASE R!LoseAnswer
    BY <1>6 DEF R!LoseAnswer, ExchangeInStep, R!StagesAnswered
  <1>7. ASSUME NEW t \in SendingThreads, R!TakeCounter(t)
        PROVE  ExchangeInStep'
    <2>1. /\ exchange = "done" /\ taken < R!FirstMessage + MaxMessages /\ taken' = taken + 1
          /\ UNCHANGED <<stage, try, exchange, answers, answered>>
      BY <1>7 DEF R!TakeCounter, R!exchangeVars
    <2> QED
      BY <2>1 DEF ExchangeInStep, R!StagesAnswered
  <1>8. ASSUME UNCHANGED <<stage, try, exchange, answers, answered, taken>>
        PROVE  ExchangeInStep'
    BY <1>8 DEF ExchangeInStep, R!StagesAnswered
  <1>9. ASSUME NEW t \in SendingThreads,
               R!ReadCounterAck(t) \/ R!SendRaw(t) \/ R!SendRawFails(t) \/ R!Push(t)
        PROVE  ExchangeInStep'
    BY <1>8, <1>9 DEF R!ReadCounterAck, R!SendRaw, R!SendRawFails, R!Push, R!exchangeVars
  <1>10. CASE R!ConsoleReceives \/ R!AckPacket \/ R!AckUnknown \/ R!Resend \/ R!GiveUp
    BY <1>8, <1>10 DEF R!ConsoleReceives, R!AckPacket, R!AckUnknown, R!Resend, R!GiveUp,
       R!exchangeVars
  <1> QED
    BY <1>1, <1>3, <1>4, <1>5, <1>6, <1>7, <1>9, <1>10 DEF R!Next, R!Exchange

\* A packet of the buffer.
LEMMA PacketType ==
    ASSUME PacketsFiled
    PROVE  /\ DOMAIN packets = 1 .. Len(packets) /\ Len(packets) \in Nat
           /\ \A k \in 1 .. Len(packets) : packets[k] \in Packet /\ Filed(packets[k])
  BY DEF PacketsFiled

\* An acknowledgement leaves the packets that are filed under a later counter
\* (Subsequence).
LEMMA AckedPackets ==
    ASSUME PacketsFiled, NEW a
    PROVE  /\ R!Acked(a) \in Seq(Packet)
           /\ \A j \in 1 .. Len(R!Acked(a)) :
                  \E k \in 1 .. Len(packets) : R!Acked(a)[j] = packets[k]
           /\ \A k \in 1 .. Len(packets) : ~R!Le(R!Add(Start, packets[k].filed), a) =>
                  \E j \in 1 .. Len(R!Acked(a)) : R!Acked(a)[j] = packets[k]
  <1> DEFINE kept == {k \in DOMAIN packets : ~R!Le(R!Add(Start, packets[k].filed), a)}
             r == Sub!Subsequence(packets, kept)
  <1>1. packets \in Seq(Packet) /\ DOMAIN packets = 1 .. Len(packets)
    BY PacketType DEF PacketsFiled
  <1>2. kept \in SUBSET (1 .. Len(packets))
    BY <1>1
  <1>3. R!Acked(a) = r
    BY DEF R!Acked, R!Subsequence, Sub!Subsequence, R!LeftOf, Sub!LeftOf
  <1>4. \A k \in 1 .. Len(packets) : ~R!Le(R!Add(Start, packets[k].filed), a) => k \in kept
    BY <1>1
  <1> HIDE DEF kept
  <1>5. r \in Seq(Packet) /\ \E m : Sub!Places(m, packets, kept, r)
    BY <1>1, <1>2, Sub!SubsequenceIsWhatIsLeft
  <1> HIDE DEF r
  <1>6. PICK m : Sub!Places(m, packets, kept, r)
    BY <1>5
  <1>7. /\ m \in [1 .. Len(r) -> kept]
        /\ \A k \in kept : \E j \in 1 .. Len(r) : m[j] = k
        /\ \A j \in 1 .. Len(r) : r[j] = packets[m[j]]
    BY <1>6 DEF Sub!Places
  <1>8. \A j \in 1 .. Len(r) : \E k \in 1 .. Len(packets) : r[j] = packets[k]
    BY <1>2, <1>7
  <1>9. \A k \in kept : \E j \in 1 .. Len(r) : r[j] = packets[k]
    BY <1>7
  <1> QED
    BY <1>3, <1>4, <1>5, <1>8, <1>9

\* Below half of the numbers, serial comparison is that of the counters.
LEMMA FiledAfter ==
    ASSUME NEW m \in Nat, NEW n \in Nat,
           m <= R!FirstMessage + MaxMessages, n <= R!FirstMessage + MaxMessages
    PROVE  R!Le(R!Add(Start, m), R!Add(Start, n)) <=> m <= n
  <1>0. R!Half \in Nat /\ Num!Half = R!Half
    BY MCTransportAssumption DEF R!Half, Num!Half
  <1>1. /\ Start + m \in Int /\ Start + n \in Int
        /\ (Start + m) - (Start + n) < Num!Half /\ (Start + n) - (Start + m) < Num!Half
    <2>1. /\ Start \in Nat /\ R!FirstMessage \in Nat /\ MaxMessages \in Nat
          /\ R!FirstMessage + MaxMessages < R!Half
      BY RudpConstants
    <2>2. m < R!Half /\ n < R!Half
      <3> HIDE DEF R!Half, R!FirstMessage
      <3> QED
        BY <1>0, <2>1
    <2> HIDE DEF R!Half, Num!Half
    <2> QED
      BY <1>0, <2>1, <2>2
  <1>2. /\ Num!Lt(Num!Wrap(Start + m), Num!Wrap(Start + n)) <=> Start + m < Start + n
        /\ Num!Wrap(Start + m) = Num!Wrap(Start + n) <=> Start + m = Start + n
    BY <1>1, Numbers, Num!ComparisonOfPositions
  <1>3. /\ R!Lt(R!Add(Start, m), R!Add(Start, n)) <=> Start + m < Start + n
        /\ R!Add(Start, m) = R!Add(Start, n) <=> Start + m = Start + n
    BY <1>2 DEF R!Lt, Num!Lt, R!Half, Num!Half, R!Add, R!Wrap, Num!Wrap
  <1> QED
    BY <1>3, RudpConstants DEF R!Le

\* Counters taken remain taken.
LEMMA LongerInterval ==
    ASSUME NEW a \in Nat, NEW b \in Nat, a <= b
    PROVE  0 .. a - 1 \subseteq 0 .. b - 1
  OBVIOUS

\* What is filed stays so while counters are taken and nothing else happens.
LEMMA FiledStays ==
    ASSUME MessagesFiled, taken \in Nat, taken' \in Nat, taken <= taken'
    PROVE  /\ UNCHANGED packets => PacketsFiled'
           /\ UNCHANGED sending => SendersFiled'
           /\ UNCHANGED reached => reached' \subseteq 0 .. taken' - 1
           /\ UNCHANGED promised => promised' \subseteq 0 .. taken' - 1
  <1>1. ASSUME UNCHANGED packets PROVE PacketsFiled'
    <2>1. /\ packets \in Seq(Packet)
          /\ \A k \in 1 .. Len(packets) : packets[k] \in Packet /\ Filed(packets[k])
      BY PacketType DEF MessagesFiled, PacketsFiled
    <2>2. \A k \in 1 .. Len(packets) : packets[k].filed \in Nat
      BY <2>1 DEF Packet
    <2> QED
      BY <1>1, <2>1, <2>2 DEF PacketsFiled, Filed
  <1>2. ASSUME UNCHANGED sending PROVE SendersFiled'
    BY <1>2 DEF MessagesFiled, SendersFiled, SenderState, Filed
  <1>3. 0 .. taken - 1 \subseteq 0 .. taken' - 1
    BY LongerInterval
  <1>4. reached \subseteq 0 .. taken - 1 /\ promised \subseteq 0 .. taken - 1
    BY DEF MessagesFiled
  <1>5. UNCHANGED reached => reached' \subseteq 0 .. taken' - 1
    BY <1>3, <1>4
  <1>6. UNCHANGED promised => promised' \subseteq 0 .. taken' - 1
    BY <1>3, <1>4
  <1> QED
    BY <1>1, <1>2, <1>5, <1>6

\* One thread moves on.
LEMMA SenderMoves ==
    ASSUME SendersFiled, taken \in Nat, taken' \in Nat, taken <= taken',
           NEW t \in SendingThreads, NEW rec \in SenderState,
           sending' = [sending EXCEPT ![t] = rec],
           rec.at # "idle" => rec.own < taken',
           rec.at \in {"numbered", "sent"} => rec.own < rec.filed /\ rec.filed <= taken'
    PROVE  SendersFiled'
  <1>1. sending \in [SendingThreads -> SenderState]
    BY DEF SendersFiled
  <1>2. sending' \in [SendingThreads -> SenderState]
    BY <1>1
  <1>3. ASSUME NEW u \in SendingThreads
        PROVE  /\ sending'[u].at # "idle" => sending'[u].own < taken'
               /\ sending'[u].at \in {"numbered", "sent"} =>
                      sending'[u].own < sending'[u].filed /\ sending'[u].filed <= taken'
    <2>1. CASE u = t
      <3>1. sending'[u] = rec
        BY <1>1, <2>1
      <3> QED
        BY <3>1
    <2>2. CASE u # t
      <3>1. /\ sending'[u] = sending[u]
            /\ sending[u].own \in Nat /\ sending[u].filed \in Nat
        BY <1>1, <2>2 DEF SenderState
      <3>2. /\ sending[u].at # "idle" => sending[u].own < taken
            /\ sending[u].at \in {"numbered", "sent"} =>
                   sending[u].own < sending[u].filed /\ sending[u].filed <= taken
        BY DEF SendersFiled, Filed
      <3> QED
        BY <3>1, <3>2
    <2> QED
      BY <2>1, <2>2
  <1> QED
    BY <1>2, <1>3 DEF SendersFiled, Filed

\* A step of a sending thread.
LEMMA SendersStep ==
    ASSUME MessagesFiled, taken \in Nat, NEW t \in SendingThreads,
           \/ R!TakeCounter(t) \/ R!ReadCounterAck(t) \/ R!SendRaw(t) \/ R!SendRawFails(t)
           \/ R!Push(t)
    PROVE  SendersFiled'
  <1>1. SendersFiled /\ sending[t] \in SenderState
    BY DEF MessagesFiled, SendersFiled
  <1>2. /\ sending[t].at # "idle" => sending[t].own < taken
        /\ sending[t].at \in {"numbered", "sent"} =>
               sending[t].own < sending[t].filed /\ sending[t].filed <= taken
    BY <1>1 DEF SendersFiled, Filed
  <1>3. CASE R!TakeCounter(t)
    <2> DEFINE rec == [at |-> "taken", own |-> taken, filed |-> 0]
    <2>1. sending' = [sending EXCEPT ![t] = rec] /\ taken' = taken + 1
      BY <1>3 DEF R!TakeCounter, R!Step
    <2>2. rec \in SenderState /\ rec.at = "taken" /\ rec.own = taken
      BY DEF SenderState
    <2>3. taken' \in Nat /\ taken <= taken' /\ rec.own < taken'
      BY <2>1, <2>2
    <2>4. rec.at \in {"numbered", "sent"} => rec.own < rec.filed /\ rec.filed <= taken'
      BY <2>2
    <2> HIDE DEF rec
    <2> QED
      BY <1>1, <2>1, <2>2, <2>3, <2>4, SenderMoves, Zenon
  <1>4. CASE R!ReadCounterAck(t)
    <2> DEFINE rec == [sending[t] EXCEPT !.at = "numbered", !.filed = taken]
    <2>1. /\ sending[t].at = "taken" /\ taken' = taken
          /\ sending' = [sending EXCEPT ![t] = rec]
      BY <1>4 DEF R!ReadCounterAck, R!Step
    <2>2. rec \in SenderState /\ rec.own = sending[t].own /\ rec.filed = taken
      BY <1>1 DEF SenderState
    <2>3. /\ taken' \in Nat /\ taken <= taken' /\ rec.own < taken'
          /\ rec.own < rec.filed /\ rec.filed <= taken'
      BY <1>1, <1>2, <2>1, <2>2 DEF SenderState
    <2> HIDE DEF rec
    <2> QED
      BY <1>1, <2>1, <2>2, <2>3, SenderMoves, Zenon
  <1>5. CASE R!SendRaw(t)
    <2> DEFINE rec == [sending[t] EXCEPT !.at = "sent"]
    <2>1. /\ sending[t].at = "numbered" /\ taken' = taken
          /\ sending' = [sending EXCEPT ![t] = rec]
      BY <1>5 DEF R!SendRaw, R!Step
    <2>2. rec \in SenderState /\ rec.own = sending[t].own /\ rec.filed = sending[t].filed
      BY <1>1 DEF SenderState
    <2>3. /\ taken' \in Nat /\ taken <= taken' /\ rec.own < taken'
          /\ rec.own < rec.filed /\ rec.filed <= taken'
      BY <1>1, <1>2, <2>1, <2>2 DEF SenderState
    <2> HIDE DEF rec
    <2> QED
      BY <1>1, <2>1, <2>2, <2>3, SenderMoves, Zenon
  <1>6. CASE R!SendRawFails(t) \/ R!Push(t)
    <2>1. sending' = [sending EXCEPT ![t] = R!Idle] /\ taken' = taken
      BY <1>6 DEF R!SendRawFails, R!Push, R!Step
    <2>2. R!Idle \in SenderState /\ R!Idle.at = "idle"
      BY DEF R!Idle, SenderState
    <2>3. /\ taken' \in Nat /\ taken <= taken' /\ ~(R!Idle.at # "idle")
          /\ ~(R!Idle.at \in {"numbered", "sent"})
      BY <2>1, <2>2
    <2> QED
      BY <1>1, <2>1, <2>2, <2>3, SenderMoves, Zenon
  <1> QED
    BY <1>3, <1>4, <1>5, <1>6

\* No step files a message under a counter that was not taken.
LEMMA MessagesStep ==
    ASSUME ExchangeInStep, MessagesFiled, R!Next
    PROVE  MessagesFiled'
  <1>0. taken \in Nat
    BY DEF ExchangeInStep
  <1>1. ASSUME taken' \in Nat, taken <= taken', SendersFiled', PacketsFiled',
               UNCHANGED <<resend, reached, promised, excused>>
        PROVE  MessagesFiled'
    BY <1>0, <1>1, FiledStays DEF MessagesFiled
  <1>2. CASE R!Exchange \/ R!LoseAnswer
    <2>1. taken' \in Nat /\ taken <= taken'
      BY <1>0, <1>2 DEF R!Exchange, R!SendRequest, R!ReceiveTimeout, R!ReceiveFails,
         R!ReceiveAnswer, R!LoseAnswer
    <2>2. UNCHANGED <<sending, packets, resend, reached, promised, excused>>
      BY <1>2 DEF R!Exchange, R!SendRequest, R!ReceiveTimeout, R!ReceiveFails,
         R!ReceiveAnswer, R!LoseAnswer, R!bufferVars
    <2> QED
      BY <1>0, <1>1, <2>1, <2>2, FiledStays
  <1>3. ASSUME NEW t \in SendingThreads,
               R!TakeCounter(t) \/ R!ReadCounterAck(t) \/ R!SendRaw(t) \/ R!SendRawFails(t)
        PROVE  MessagesFiled'
    <2>1. taken' \in Nat /\ taken <= taken'
      BY <1>0, <1>3 DEF R!TakeCounter, R!ReadCounterAck, R!SendRaw, R!SendRawFails
    <2>2. UNCHANGED <<packets, resend, reached, promised, excused>>
      BY <1>3 DEF R!TakeCounter, R!ReadCounterAck, R!SendRaw, R!SendRawFails, R!bufferVars
    <2> QED
      BY <1>0, <1>1, <1>3, <2>1, <2>2, FiledStays, SendersStep
  <1>7. ASSUME NEW t \in SendingThreads, R!Push(t)
        PROVE  MessagesFiled'
    <2>1. /\ sending[t].at = "sent" /\ UNCHANGED <<taken, resend, reached, excused>>
      BY <1>7 DEF R!Push, R!Step
    <2> DEFINE p == [own |-> sending[t].own, filed |-> sending[t].filed, tries |-> 0]
    <2>2. p \in Packet /\ Filed(p) /\ sending[t].own \in 0 .. taken - 1
      BY <2>1, <1>0 DEF Packet, Filed, MessagesFiled, SendersFiled, SenderState
    <2>3. CASE UNCHANGED <<packets, promised>>
      BY <1>0, <1>1, <1>7, <2>1, <2>3, FiledStays, SendersStep
    <2>4. CASE packets' = Append(packets, p) /\ promised' = promised \cup {sending[t].own}
      <3>0. packets \in Seq(Packet) /\ \A k \in 1 .. Len(packets) : Filed(packets[k])
        BY DEF MessagesFiled, PacketsFiled
      <3> HIDE DEF p
      <3>1. packets' \in Seq(Packet) /\ Len(packets') = Len(packets) + 1
        BY <2>2, <2>4, <3>0
      <3>2. \A k \in 1 .. Len(packets') :
                packets'[k] = IF k = Len(packets) + 1 THEN p ELSE packets[k]
        BY <2>2, <2>4, <3>0
      <3>3. \A k \in 1 .. Len(packets') : Filed(packets'[k])
        BY <2>2, <3>0, <3>1, <3>2
      <3>4. PacketsFiled'
        BY <2>1, <3>1, <3>3 DEF PacketsFiled, Filed
      <3>5. SendersFiled'
        BY <1>0, <1>7, SendersStep
      <3> QED
        BY <1>0, <2>1, <2>2, <2>4, <3>4, <3>5 DEF MessagesFiled
    <2> QED
      BY <1>7, <2>3, <2>4 DEF R!Push
  <1>8. CASE R!ConsoleReceives
    <2>1. PICK n \in R!OnTheWay : reached' = reached \cup {n}
      BY <1>8 DEF R!ConsoleReceives
    <2>2. UNCHANGED <<taken, sending, packets, resend, promised, excused>>
      BY <1>8 DEF R!ConsoleReceives
    <2>3. n \in 0 .. taken - 1
      <3>1. CASE n \in {packets[k].own : k \in DOMAIN packets}
        <4>1. PICK k \in 1 .. Len(packets) : n = packets[k].own
          BY <3>1, PacketType DEF MessagesFiled
        <4>2. packets[k] \in Packet /\ Filed(packets[k])
          BY PacketType DEF MessagesFiled
        <4> QED
          BY <1>0, <4>1, <4>2 DEF Packet, Filed
      <3>2. CASE \E t \in SendingThreads : sending[t].at = "sent" /\ n = sending[t].own
        BY <1>0, <3>2 DEF MessagesFiled, SendersFiled, SenderState
      <3> QED
        BY <2>1, <3>1, <3>2 DEF R!OnTheWay
    <2>4. PacketsFiled' /\ SendersFiled'
      BY <1>0, <2>2, FiledStays
    <2> QED
      BY <1>0, <2>1, <2>2, <2>3, <2>4 DEF MessagesFiled
  <1>9. ASSUME NEW a, packets' = R!Acked(a), UNCHANGED <<taken, sending, reached, promised>>,
               resend' # 0 => excused'
        PROVE  MessagesFiled'
    <2>1. packets' \in Seq(Packet)
      BY <1>9, AckedPackets DEF MessagesFiled
    <2>2. ASSUME NEW k \in 1 .. Len(packets')
          PROVE  Filed(packets'[k])
      <3>1. PICK j \in 1 .. Len(packets) : packets'[k] = packets[j]
        BY <1>9, AckedPackets DEF MessagesFiled
      <3> QED
        BY <3>1, PacketType DEF MessagesFiled
    <2>3. PacketsFiled'
      BY <1>9, <2>1, <2>2 DEF PacketsFiled, Filed
    <2> QED
      BY <1>0, <1>9, <2>3, FiledStays DEF MessagesFiled
  <1>10. CASE R!AckPacket \/ R!AckUnknown \/ R!GiveUp
    <2>1. \E a : packets' = R!Acked(a)
      BY <1>10 DEF R!AckPacket, R!AckUnknown, R!GiveUp
    <2>2. UNCHANGED <<taken, sending, reached, promised>> /\ (resend' # 0 => excused')
      BY <1>10 DEF R!AckPacket, R!AckUnknown, R!GiveUp, MessagesFiled
    <2> QED
      BY <1>9, <2>1, <2>2
  <1>11. CASE R!Resend
    <2>1. UNCHANGED <<taken, sending, reached, promised>>
      BY <1>11 DEF R!Resend
    <2>2. PICK k \in DOMAIN packets :
              \/ packets' = [packets EXCEPT ![k].tries = @ + 1] /\ UNCHANGED <<resend, excused>>
              \/ excused' = TRUE /\ UNCHANGED packets
      BY <1>11 DEF R!Resend
    <2>3. CASE packets' = [packets EXCEPT ![k].tries = @ + 1] /\ UNCHANGED <<resend, excused>>
      <3>0. /\ packets \in Seq(Packet) /\ DOMAIN packets = 1 .. Len(packets)
            /\ \A j \in 1 .. Len(packets) : packets[j] \in Packet /\ Filed(packets[j])
        BY PacketType DEF MessagesFiled, PacketsFiled
      <3> DEFINE p == [packets[k] EXCEPT !.tries = @ + 1]
      <3>1. k \in 1 .. Len(packets) /\ packets[k] \in Packet /\ Filed(packets[k])
        BY <3>0
      <3>2. p \in Packet /\ Filed(p)
        BY <3>1 DEF Packet, Filed
      <3>3. packets' = [packets EXCEPT ![k] = p]
        BY <2>3
      <3> HIDE DEF p
      <3>4. packets' \in Seq(Packet) /\ Len(packets') = Len(packets)
        BY <3>0, <3>1, <3>2, <3>3
      <3>5. \A j \in 1 .. Len(packets') : Filed(packets'[j])
        BY <3>0, <3>1, <3>2, <3>3, <3>4
      <3>6. PacketsFiled'
        BY <2>1, <3>4, <3>5 DEF PacketsFiled, Filed
      <3> QED
        BY <1>0, <2>1, <2>3, <3>6, FiledStays DEF MessagesFiled
    <2>4. CASE excused' = TRUE /\ UNCHANGED packets
      BY <1>0, <2>1, <2>4, FiledStays DEF MessagesFiled
    <2> QED
      BY <2>2, <2>3, <2>4
  <1> QED
    BY <1>2, <1>3, <1>7, <1>8, <1>10, <1>11 DEF R!Next

\* The promise: what was pushed is with the console or in the buffer. An acknowledgement
\* covers only what the console has, since a packet is filed under a later counter than
\* its own.
LEMMA PromiseStep ==
    ASSUME ExchangeInStep, MessagesFiled, ~excused, ReachedInOrder, R!PromiseKept,
           R!Next, ~excused'
    PROVE  ReachedInOrder' /\ R!PromiseKept'
  <1>0. /\ taken \in Nat /\ taken <= R!FirstMessage + MaxMessages
        /\ reached \subseteq 0 .. taken - 1 /\ promised \subseteq 0 .. taken - 1
        /\ resend = 0 /\ sending \in [SendingThreads -> SenderState]
    BY DEF ExchangeInStep, MessagesFiled, SendersFiled
  <1>1. /\ \A k \in 1 .. Len(packets) : packets[k] \in Packet /\ Filed(packets[k])
        /\ DOMAIN packets = 1 .. Len(packets) /\ Len(packets) \in Nat
    BY PacketType DEF MessagesFiled
  <1>2. \A n \in promised \ reached : \E k \in 1 .. Len(packets) : packets[k].own = n
    BY <1>1 DEF R!PromiseKept
  <1>3. CASE R!Exchange \/ R!LoseAnswer
    <2>1. UNCHANGED <<sending, packets, reached, promised>>
      BY <1>3 DEF R!Exchange, R!SendRequest, R!ReceiveTimeout, R!ReceiveFails,
         R!ReceiveAnswer, R!LoseAnswer, R!bufferVars
    <2> QED
      BY <2>1 DEF ReachedInOrder, R!PromiseKept
  <1>4. ASSUME NEW t \in SendingThreads, NEW rec,
               sending' = [sending EXCEPT ![t] = rec],
               \A n \in reached : /\ rec.at \in {"taken", "numbered"} => n < rec.own
                                  /\ rec.at = "sent" => n < rec.own \/ rec.own \in reached,
               UNCHANGED <<packets, reached, promised>>
        PROVE  ReachedInOrder' /\ R!PromiseKept'
    <2>1. R!PromiseKept' /\ \A m \in promised', n \in reached' : m <= n => m \in reached'
      BY <1>4 DEF R!PromiseKept, ReachedInOrder
    <2>2. ASSUME NEW u \in SendingThreads, NEW n \in reached
          PROVE  /\ sending'[u].at \in {"taken", "numbered"} => n < sending'[u].own
                 /\ sending'[u].at = "sent" => n < sending'[u].own \/ sending'[u].own \in reached
      <3>1. CASE u = t
        <4>1. sending'[u] = rec
          BY <1>0, <1>4, <3>1
        <4>2. reached' = reached
          BY <1>4
        <4>3. /\ rec.at \in {"taken", "numbered"} => n < rec.own
              /\ rec.at = "sent" => n < rec.own \/ rec.own \in reached
          BY <1>4
        <4> QED
          BY <4>1, <4>2, <4>3
      <3>2. CASE u # t
        <4>1. sending'[u] = sending[u]
          BY <1>0, <1>4, <3>2
        <4> QED
          BY <4>1 DEF ReachedInOrder
      <3> QED
        BY <3>1, <3>2
    <2> QED
      BY <1>4, <2>1, <2>2 DEF ReachedInOrder
  <1>5. ASSUME NEW t \in SendingThreads, R!TakeCounter(t)
        PROVE  ReachedInOrder' /\ R!PromiseKept'
    <2> DEFINE rec == [at |-> "taken", own |-> taken, filed |-> 0]
    <2>1. sending' = [sending EXCEPT ![t] = rec] /\ UNCHANGED <<packets, reached, promised>>
      BY <1>5 DEF R!TakeCounter, R!Step, R!bufferVars
    <2>2. \A n \in reached : /\ rec.at \in {"taken", "numbered"} => n < rec.own
                             /\ rec.at = "sent" => n < rec.own \/ rec.own \in reached
      BY <1>0
    <2> HIDE DEF rec
    <2> QED
      BY <1>4, <2>1, <2>2, Zenon
  <1>6. ASSUME NEW t \in SendingThreads, R!ReadCounterAck(t) \/ R!SendRaw(t)
        PROVE  ReachedInOrder' /\ R!PromiseKept'
    <2>1. UNCHANGED <<packets, reached, promised>> /\ sending[t] \in SenderState
      BY <1>0, <1>6 DEF R!ReadCounterAck, R!SendRaw, R!bufferVars
    <2>2. PICK rec : sending' = [sending EXCEPT ![t] = rec] /\ rec.own = sending[t].own
      <3>1. CASE R!ReadCounterAck(t)
        <4>1. sending' = [sending EXCEPT ![t] =
                             [sending[t] EXCEPT !.at = "numbered", !.filed = taken]]
          BY <3>1 DEF R!ReadCounterAck, R!Step
        <4>2. [sending[t] EXCEPT !.at = "numbered", !.filed = taken].own = sending[t].own
          BY <2>1 DEF SenderState
        <4> QED
          BY <4>1, <4>2, Zenon
      <3>2. CASE R!SendRaw(t)
        <4>1. sending' = [sending EXCEPT ![t] = [sending[t] EXCEPT !.at = "sent"]]
          BY <3>2 DEF R!SendRaw, R!Step
        <4>2. [sending[t] EXCEPT !.at = "sent"].own = sending[t].own
          BY <2>1 DEF SenderState
        <4> QED
          BY <4>1, <4>2, Zenon
      <3> QED
        BY <1>6, <3>1, <3>2
    <2>3. sending[t].at \in {"taken", "numbered"}
      BY <1>6 DEF R!ReadCounterAck, R!SendRaw, R!Step
    <2>4. \A n \in reached : n < rec.own
      BY <2>2, <2>3 DEF ReachedInOrder
    <2>5. \A n \in reached : /\ rec.at \in {"taken", "numbered"} => n < rec.own
                             /\ rec.at = "sent" => n < rec.own \/ rec.own \in reached
      BY <2>4
    <2> QED
      BY <1>4, <2>1, <2>2, <2>5, Zenon
  <1>7. ASSUME NEW t \in SendingThreads, R!SendRawFails(t)
        PROVE  ReachedInOrder' /\ R!PromiseKept'
    <2>1. sending' = [sending EXCEPT ![t] = R!Idle] /\ UNCHANGED <<packets, reached, promised>>
      BY <1>7 DEF R!SendRawFails, R!Step, R!bufferVars
    <2>2. \A n \in reached : /\ R!Idle.at \in {"taken", "numbered"} => n < R!Idle.own
                             /\ R!Idle.at = "sent" => n < R!Idle.own \/ R!Idle.own \in reached
      BY DEF R!Idle
    <2> QED
      BY <1>4, <2>1, <2>2, Zenon
  <1>8. ASSUME NEW t \in SendingThreads, R!Push(t)
        PROVE  ReachedInOrder' /\ R!PromiseKept'
    <2> DEFINE own == sending[t].own
               p == [own |-> own, filed |-> sending[t].filed, tries |-> 0]
    <2>1. /\ sending[t].at = "sent" /\ UNCHANGED reached
          /\ sending' = [sending EXCEPT ![t] = [at |-> "idle", own |-> 0, filed |-> 0]]
      BY <1>8 DEF R!Push, R!Step, R!Idle
    <2>2. CASE UNCHANGED <<packets, promised>>
      <3>1. sending' = [sending EXCEPT ![t] = R!Idle] /\ UNCHANGED <<packets, reached, promised>>
        BY <2>1, <2>2 DEF R!Idle
      <3>2. \A n \in reached : /\ R!Idle.at \in {"taken", "numbered"} => n < R!Idle.own
                               /\ R!Idle.at = "sent" => n < R!Idle.own \/ R!Idle.own \in reached
        BY DEF R!Idle
      <3> QED
        BY <1>4, <3>1, <3>2, Zenon
    <2>3. CASE packets' = Append(packets, p) /\ promised' = promised \cup {own}
      <3>1. \A n \in reached : n < own \/ own \in reached
        BY <2>1 DEF ReachedInOrder
      <3>2. own \in Nat /\ packets \in Seq(Packet) /\ p \in Packet /\ p.own = own
        BY <1>0 DEF SenderState, Packet, MessagesFiled, PacketsFiled
      <3>3. ASSUME NEW u \in SendingThreads, NEW n \in reached'
            PROVE  /\ sending'[u].at \in {"taken", "numbered"} => n < sending'[u].own
                   /\ sending'[u].at = "sent" => n < sending'[u].own \/ sending'[u].own \in reached'
        <4>1. CASE u = t
          BY <1>0, <2>1, <4>1
        <4>2. CASE u # t
          BY <1>0, <2>1, <4>2 DEF ReachedInOrder
        <4> QED
          BY <4>1, <4>2
      <3> HIDE DEF p, own
      <3>4. \A m \in promised', n \in reached' : m <= n => m \in reached'
        <4> SUFFICES ASSUME NEW m \in promised', NEW n \in reached', m <= n
                     PROVE  m \in reached'
          OBVIOUS
        <4>1. CASE m \in promised
          BY <2>1, <4>1 DEF ReachedInOrder
        <4>2. CASE m = own
          <5>1. n \in Nat
            BY <1>0, <2>1
          <5> QED
            BY <2>1, <3>1, <3>2, <4>2, <5>1
        <4> QED
          BY <2>3, <4>1, <4>2
      <3>5. /\ Len(packets') = Len(packets) + 1 /\ DOMAIN packets' = 1 .. Len(packets')
            /\ packets'[Len(packets) + 1] = p
            /\ \A k \in 1 .. Len(packets) : packets'[k] = packets[k]
        BY <2>3, <3>2
      <3>6. ASSUME NEW n \in promised' \ reached'
            PROVE  \E k \in DOMAIN packets' : packets'[k].own = n
        <4>1. CASE n = own
          BY <1>1, <3>2, <3>5, <4>1
        <4>2. CASE n \in promised
          <5>1. PICK k \in 1 .. Len(packets) : packets[k].own = n
            BY <1>2, <2>1, <4>2
          <5> QED
            BY <1>1, <3>5, <5>1
        <4> QED
          BY <2>3, <4>1, <4>2
      <3> QED
        BY <3>3, <3>4, <3>6 DEF ReachedInOrder, R!PromiseKept
    <2> QED
      BY <1>8, <2>2, <2>3 DEF R!Push
  <1>9. CASE R!ConsoleReceives
    <2>1. PICK n \in R!OnTheWay :
              /\ \A o \in R!OnTheWay \ reached : n <= o
              /\ \A t \in SendingThreads :
                     sending[t].at \in {"taken", "numbered"} => sending[t].own > n
              /\ reached' = reached \cup {n}
      BY <1>9 DEF R!ConsoleReceives
    <2>2. UNCHANGED <<sending, packets, promised>>
      BY <1>9 DEF R!ConsoleReceives
    <2>3. \A m \in promised \ reached : m \in R!OnTheWay
      BY <1>1, <1>2 DEF R!OnTheWay
    <2>4. \A t \in SendingThreads : sending[t].at = "sent" => sending[t].own \in R!OnTheWay
      BY DEF R!OnTheWay
    <2>5. n \in Int
      <3>1. CASE n \in {packets[k].own : k \in DOMAIN packets}
        BY <1>1, <3>1 DEF Packet
      <3>2. CASE \E t \in SendingThreads : n = sending[t].own
        BY <1>0, <3>2 DEF SenderState
      <3> QED
        BY <2>1, <3>1, <3>2 DEF R!OnTheWay
    <2>6. promised \subseteq Int /\ reached \subseteq Int
      BY <1>0
    <2>7. \A m \in promised', k \in reached' : m <= k => m \in reached'
      <3> SUFFICES ASSUME NEW m \in promised, NEW k \in reached', m <= k, m \notin reached
                   PROVE  m = n
        BY <2>1, <2>2
      <3>1. n <= m
        BY <2>1, <2>3
      <3>2. k = n
        BY <2>1 DEF ReachedInOrder
      <3> QED
        BY <2>5, <2>6, <3>1, <3>2
    <2>8. ASSUME NEW u \in SendingThreads, NEW k \in reached'
          PROVE  /\ sending'[u].at \in {"taken", "numbered"} => k < sending'[u].own
                 /\ sending'[u].at = "sent" => k < sending'[u].own \/ sending'[u].own \in reached'
      <3>0. sending[u].own \in Nat
        BY <1>0 DEF SenderState
      <3>1. CASE k \in reached
        BY <2>1, <2>2, <3>1 DEF ReachedInOrder
      <3>2. CASE k = n
        <4>1. sending[u].at \in {"taken", "numbered"} => n < sending[u].own
          BY <2>1, <2>5, <3>0
        <4>2. sending[u].at = "sent" /\ sending[u].own \notin reached => n <= sending[u].own
          BY <2>1, <2>4
        <4> QED
          BY <2>1, <2>2, <2>5, <3>0, <3>2, <4>1, <4>2
      <3> QED
        BY <2>1, <3>1, <3>2
    <2>9. R!PromiseKept'
      BY <2>1, <2>2 DEF R!PromiseKept
    <2> QED
      BY <2>7, <2>8, <2>9 DEF ReachedInOrder
  <1>10. CASE R!AckPacket
    <2>1. PICK n \in reached : packets' = R!Acked(R!Add(Start, n + 1))
      BY <1>10 DEF R!AckPacket
    <2>2. UNCHANGED <<sending, reached, promised>>
      BY <1>10 DEF R!AckPacket
    <2>3. ASSUME NEW m \in promised \ reached
          PROVE  \E j \in DOMAIN packets' : packets'[j].own = m
      <3>1. PICK k \in 1 .. Len(packets) : packets[k].own = m
        BY <1>2
      <3>2. m \in Nat /\ n \in Nat /\ n < taken /\ ~(m <= n)
        BY <1>0 DEF ReachedInOrder
      <3>3. packets[k].filed \in Nat /\ m < packets[k].filed /\ packets[k].filed <= taken
        BY <1>1, <3>1 DEF Packet, Filed
      <3>4. /\ ~(packets[k].filed <= n + 1) /\ n + 1 \in Nat
            /\ packets[k].filed <= R!FirstMessage + MaxMessages
            /\ n + 1 <= R!FirstMessage + MaxMessages
        <4>1. R!FirstMessage + MaxMessages \in Nat
          BY RudpConstants
        <4> QED
          BY <1>0, <3>2, <3>3, <4>1
      <3>5. ~R!Le(R!Add(Start, packets[k].filed), R!Add(Start, n + 1))
        BY <3>3, <3>4, FiledAfter
      <3>6. PICK j \in 1 .. Len(packets') : packets'[j] = packets[k]
        BY <2>1, <3>5, AckedPackets DEF MessagesFiled
      <3>7. DOMAIN packets' = 1 .. Len(packets')
        BY <2>1, AckedPackets DEF MessagesFiled
      <3> QED
        BY <3>1, <3>6, <3>7
    <2> QED
      BY <2>2, <2>3 DEF ReachedInOrder, R!PromiseKept
  <1>11. CASE R!AckUnknown \/ R!GiveUp
    BY <1>0, <1>11 DEF R!AckUnknown, R!GiveUp
  <1>12. CASE R!Resend
    <2>1. PICK k \in DOMAIN packets : packets' = [packets EXCEPT ![k].tries = @ + 1]
      BY <1>12 DEF R!Resend
    <2>2. UNCHANGED <<sending, reached, promised>>
      BY <1>12 DEF R!Resend
    <2>3. /\ DOMAIN packets' = DOMAIN packets
          /\ \A j \in DOMAIN packets : packets'[j].own = packets[j].own
      BY <1>1, <2>1 DEF Packet
    <2> QED
      BY <2>2, <2>3 DEF ReachedInOrder, R!PromiseKept
  <1> QED
    BY <1>3, <1>5, <1>6, <1>7, <1>8, <1>9, <1>10, <1>11, <1>12 DEF R!Next

\* What is excused remains so.
LEMMA ExcusedStays ==
    R!Next => (~excused' => ~excused)
  BY DEF R!Next, R!Exchange, R!SendRequest, R!ReceiveTimeout, R!ReceiveFails, R!ReceiveAnswer,
     R!LoseAnswer, R!TakeCounter, R!ReadCounterAck, R!SendRaw, R!SendRawFails, R!Push,
     R!ConsoleReceives, R!AckPacket, R!AckUnknown, R!Resend, R!GiveUp, R!bufferVars

\* No step breaks the invariant ...
LEMMA RudpStep == RudpInv /\ R!Next => RudpInv'
  BY ExchangeStep, MessagesStep, PromiseStep, ExcusedStays DEF RudpInv

\* ... which holds at first ...
LEMMA RudpInit == R!Init => RudpInv
  <1> SUFFICES ASSUME R!Init PROVE RudpInv
    OBVIOUS
  <1>1. ExchangeInStep
    <2>1. (1 - 1) * Tries = 0 /\ 1 \in 1 .. Stages
      BY RudpConstants
    <2>2. R!StagesAnswered
      BY DEF R!Init, R!StagesAnswered
    <2> QED
      BY <2>1, <2>2, RudpConstants DEF R!Init, ExchangeInStep
  <1>2. SendersFiled
    BY DEF R!Init, SendersFiled, SenderState, R!Idle
  <1>3. PacketsFiled
    BY DEF R!Init, PacketsFiled
  <1> QED
    BY <1>1, <1>2, <1>3 DEF R!Init, RudpInv, MessagesFiled, ReachedInOrder, R!PromiseKept

\* ... and while another component runs.
LEMMA RudpStutter == RudpInv /\ UNCHANGED rudpVars => RudpInv'
  BY DEF RudpInv, rudpVars, ExchangeInStep, MessagesFiled, SendersFiled, PacketsFiled, Filed,
     ReachedInOrder, R!PromiseKept, R!StagesAnswered, R!OnTheWay

\* For every number of stages, tries, senders and messages: each stage of the connection
\* is done only when its answer came, and a message that was accepted is with the console
\* or in the send buffer until it was given up for an error that is reported (rudp.c,
\* 250-420; rudpsendbuffer.c, 60-235).
THEOREM RudpPromisesAreKept == Spec => []RudpKeepsPromises
  <1>1. Init => RudpInv
    BY RudpInit DEF Init
  <1>2. RudpInv /\ [Next]_vars => RudpInv'
    BY BenchStep, RudpStep, RudpStutter
  <1>3. RudpInv => RudpKeepsPromises
    BY DEF RudpInv, ExchangeInStep, RudpKeepsPromises, R!PromiseKept
  <1> QED
    BY <1>1, <1>2, <1>3, PTL DEF Spec

-----------------------------------------------------------------------------
(* The compaction of the send buffer *)

\* The function that AckLoop is defined by.
IsAckLoop(f, mem, n, s) ==
    f = [i \in 0 .. n |->
            IF i = 0 THEN [mem |-> mem, start |-> 0, shift |-> 0]
            ELSE IF B!Covers(s, f[i - 1].mem[i].n) THEN B!AckSlot(f[i - 1], i) ELSE f[i - 1]]

\* A function that is defined step by step exists.
LEMMA AckLoopExists ==
    ASSUME NEW mem, NEW s, NEW n \in Nat
    PROVE  \E f : IsAckLoop(f, mem, n, s)
  <1> DEFINE zero == [mem |-> mem, start |-> 0, shift |-> 0]
             Step(a, i) == IF B!Covers(s, a.mem[i].n) THEN B!AckSlot(a, i) ELSE a
             S == {m \in Nat : \E f :
                           f = [i \in 0 .. m |-> IF i = 0 THEN zero ELSE Step(f[i - 1], i)]}
  <1> HIDE DEF Step, zero
  <1>1. 0 \in S
    <2> DEFINE g == [i \in 0 .. 0 |-> zero]
               h == [i \in 0 .. 0 |-> IF i = 0 THEN zero ELSE Step(g[i - 1], i)]
    <2>1. \A i \in 0 .. 0 : i = 0
      OBVIOUS
    <2>2. g = h
      BY <2>1
    <2> HIDE DEF g
    <2> QED
      BY <2>2
  <1>2. ASSUME NEW m \in Nat, m \in S
        PROVE  m + 1 \in S
    <2>1. PICK f : f = [i \in 0 .. m |-> IF i = 0 THEN zero ELSE Step(f[i - 1], i)]
      BY <1>2
    <2> DEFINE last == Step(f[m], m + 1)
               g == [i \in 0 .. m + 1 |-> IF i = m + 1 THEN last ELSE f[i]]
               h == [i \in 0 .. m + 1 |-> IF i = 0 THEN zero ELSE Step(g[i - 1], i)]
    <2>2. \A i \in 0 .. m : f[i] = IF i = 0 THEN zero ELSE Step(f[i - 1], i)
      BY <2>1
    <2>3. ASSUME NEW i \in 0 .. m + 1
          PROVE  g[i] = h[i]
      <3>1. CASE i = 0
        BY <2>2, <3>1
      <3>2. CASE i = m + 1
        <4>1. g[i - 1] = f[m]
          BY <3>2
        <4> QED
          BY <3>2, <4>1
      <3>3. CASE i # 0 /\ i # m + 1
        <4>1. i - 1 \in 0 .. m /\ i \in 0 .. m
          BY <3>3
        <4>2. g[i - 1] = f[i - 1] /\ g[i] = f[i]
          BY <4>1, <3>3
        <4> QED
          BY <4>1, <4>2, <2>2, <3>3
      <3> QED
        BY <3>1, <3>2, <3>3
    <2>4. g = h
      <3> HIDE DEF last
      <3>1. g = [i \in 0 .. m + 1 |-> g[i]] /\ h = [i \in 0 .. m + 1 |-> h[i]]
        OBVIOUS
      <3> HIDE DEF g, h
      <3> QED
        BY <3>1, <2>3
    <2>5. m + 1 \in Nat /\ g = [i \in 0 .. m + 1 |-> IF i = 0 THEN zero ELSE Step(g[i - 1], i)]
      BY <2>4
    <2> HIDE DEF g
    <2> QED
      BY <2>5
  <1> HIDE DEF S
  <1>3. n \in S
    <2>1. S \in SUBSET Nat
      BY DEF S
    <2> QED
      BY <1>1, <1>2, <2>1, Sub!Induction
  <1> QED
    BY <1>3 DEF S, Step, zero, IsAckLoop

\* AckLoop is this function.
LEMMA AckLoopDef ==
    ASSUME NEW mem, NEW s, NEW n \in Nat
    PROVE  IsAckLoop(B!AckLoop(mem, n, s), mem, n, s)
  <1> DEFINE f == CHOOSE f : IsAckLoop(f, mem, n, s)
  <1>1. IsAckLoop(f, mem, n, s)
    BY AckLoopExists
  <1>2. B!AckLoop(mem, n, s) = f
    BY DEF B!AckLoop, IsAckLoop
  <1> QED
    BY <1>1, <1>2

\* What the loop has made of the array after i slots, when left is what they leave:
\* the gap that is open reaches from start to start + shift - 1.
Compacting(a, mem, left, i) ==
    /\ a.start \in 0 .. i /\ a.shift \in 0 .. i
    /\ DOMAIN a.mem = DOMAIN mem
    /\ Len(left) = i - a.shift
    /\ \A k \in DOMAIN mem : k > i => a.mem[k] = mem[k]
    /\ a.start = 0 => a.shift = 0 /\ \A k \in 1 .. i : a.mem[k] = left[k]
    /\ a.start # 0 =>
           /\ a.shift # 0 /\ a.start + a.shift <= i + 1
           /\ \A k \in 1 .. a.start - 1 : a.mem[k] = left[k]
           /\ \A k \in a.start + a.shift .. i : a.mem[k] = left[k - a.shift]

\* A slot that is not covered: nothing is moved, the gap stays open.
LEMMA KeepSlot ==
    ASSUME NEW A, NEW mem \in Seq(A), NEW i \in Nat, i + 1 <= Len(mem),
           NEW a, NEW left \in Seq(A), Compacting(a, mem, left, i)
    PROVE  Compacting(a, mem, Append(left, mem[i + 1]), i + 1)
  <1> DEFINE longer == Append(left, mem[i + 1])
             start == a.start
             shift == a.shift
  <1>1. mem[i + 1] \in A /\ i + 1 \in DOMAIN mem /\ DOMAIN mem = 1 .. Len(mem)
    OBVIOUS
  <1>2. /\ Len(longer) = Len(left) + 1 /\ Len(left) \in Nat
        /\ longer[Len(left) + 1] = mem[i + 1]
        /\ \A k \in 1 .. Len(left) : longer[k] = left[k]
    BY <1>1
  <1>3. start \in 0 .. i /\ shift \in 0 .. i /\ Len(left) = i - shift /\ a.mem[i + 1] = mem[i + 1]
    BY <1>1 DEF Compacting
  <1> HIDE DEF longer
  <1>4. Len(longer) = (i + 1) - shift
    BY <1>2, <1>3
  <1>5. start = 0 => shift = 0 /\ \A k \in 1 .. i + 1 : a.mem[k] = longer[k]
    BY <1>2, <1>3 DEF Compacting
  <1>6. ASSUME start # 0
        PROVE  /\ shift # 0 /\ start + shift <= (i + 1) + 1
               /\ \A k \in 1 .. start - 1 : a.mem[k] = longer[k]
               /\ \A k \in start + shift .. i + 1 : a.mem[k] = longer[k - shift]
    <2>1. /\ shift # 0 /\ start + shift <= i + 1
          /\ \A k \in 1 .. start - 1 : a.mem[k] = left[k]
          /\ \A k \in start + shift .. i : a.mem[k] = left[k - shift]
      BY <1>6 DEF Compacting
    <2>2. \A k \in 1 .. start - 1 : k \in 1 .. Len(left)
      BY <1>3, <2>1
    <2>3. ASSUME NEW k \in start + shift .. i + 1
          PROVE  a.mem[k] = longer[k - shift]
      <3>1. CASE k = i + 1
        BY <1>2, <1>3, <3>1
      <3>2. CASE k # i + 1
        <4>1. k \in start + shift .. i
          BY <1>3, <2>1, <3>2
        <4>2. k - shift \in 1 .. Len(left)
          <5> HIDE DEF start, shift
          <5> QED
            BY <1>3, <1>6, <4>1
        <4> QED
          BY <1>2, <2>1, <4>1, <4>2
      <3> QED
        BY <3>1, <3>2
    <2> QED
      BY <1>2, <1>3, <2>1, <2>2, <2>3, SMTT(40)
  <1>7. start \in 0 .. i + 1 /\ shift \in 0 .. i + 1
    BY <1>3
  <1>8. /\ DOMAIN a.mem = DOMAIN mem
        /\ \A k \in DOMAIN mem : k > i + 1 => a.mem[k] = mem[k]
    BY <1>1, <1>3 DEF Compacting
  <1> HIDE DEF start, shift
  <1> QED
    BY <1>4, <1>5, <1>6, <1>7, <1>8 DEF Compacting, start, shift, longer

\* The state of the loop.
SlotState(A, mem) == [mem : [DOMAIN mem -> A], start : Nat, shift : Nat]

\* A slot after the gap: what lies between the gap and it is moved up.
LEMMA ClosedGap ==
    ASSUME NEW A, NEW mem \in Seq(A), NEW i \in Nat, i <= Len(mem),
           NEW a \in SlotState(A, mem), NEW left \in Seq(A), Compacting(a, mem, left, i),
           a.start # 0
    PROVE  LET b == B!CloseGap(a, i + 1)
           IN  /\ b \in SlotState(A, mem) /\ b.start = i + 1 - a.shift /\ b.shift = a.shift + 1
               /\ \A k \in 1 .. i - a.shift : b.mem[k] = left[k]
               /\ \A k \in DOMAIN mem : k > i - a.shift => b.mem[k] = a.mem[k]
  <1> DEFINE start == a.start
             shift == a.shift
             moved == [k \in DOMAIN a.mem |->
                         IF k \in start .. (i + 1) - shift - 1 THEN a.mem[k + shift] ELSE a.mem[k]]
             b == [mem |-> moved, start |-> (i + 1) - shift, shift |-> shift + 1]
  <1>1. B!CloseGap(a, i + 1) = b
    BY DEF B!CloseGap
  <1>2. /\ start \in 1 .. i /\ shift \in 1 .. i /\ start + shift <= i + 1
        /\ DOMAIN a.mem = 1 .. Len(mem) /\ DOMAIN mem = 1 .. Len(mem) /\ Len(mem) \in Nat
        /\ a.mem \in [1 .. Len(mem) -> A]
        /\ \A k \in 1 .. start - 1 : a.mem[k] = left[k]
        /\ \A k \in start + shift .. i : a.mem[k] = left[k - shift]
    BY DEF Compacting, SlotState
  <1> HIDE DEF start, shift
  <1>3. moved \in [1 .. Len(mem) -> A]
    <2>1. \A k \in 1 .. Len(mem) : k \in start .. (i + 1) - shift - 1 => k + shift \in 1 .. Len(mem)
      BY <1>2
    <2> QED
      BY <1>2, <2>1
  <1>4. ASSUME NEW k \in 1 .. i - shift PROVE moved[k] = left[k]
    <2>1. k \in DOMAIN a.mem
      BY <1>2
    <2>2. CASE k < start
      <3>1. moved[k] = a.mem[k]
        BY <1>2, <2>1, <2>2
      <3> QED
        BY <1>2, <2>2, <3>1
    <2>3. CASE k >= start
      <3>1. k \in start .. (i + 1) - shift - 1 /\ k + shift \in start + shift .. i
            /\ (k + shift) - shift = k
        BY <1>2, <2>3
      <3>2. moved[k] = a.mem[k + shift]
        BY <2>1, <3>1
      <3> QED
        BY <1>2, <3>1, <3>2
    <2> QED
      BY <1>2, <2>2, <2>3
  <1>5. ASSUME NEW k \in DOMAIN mem, k > i - shift PROVE moved[k] = a.mem[k]
    BY <1>2, <1>5
  <1>6. b.mem = moved /\ b.start = (i + 1) - shift /\ b.shift = shift + 1
    OBVIOUS
  <1>7. b \in SlotState(A, mem)
    BY <1>2, <1>3 DEF SlotState
  <1> HIDE DEF b, moved
  <1> QED
    BY <1>1, <1>2, <1>4, <1>5, <1>6, <1>7 DEF start, shift

\* One turn of the loop keeps the first entries what they should be.
LEMMA TakeSlot ==
    ASSUME NEW A, NEW mem \in Seq(A), NEW i \in Nat, i + 1 <= Len(mem),
           NEW a \in SlotState(A, mem), NEW left \in Seq(A), Compacting(a, mem, left, i)
    PROVE  /\ B!AckSlot(a, i + 1) \in SlotState(A, mem)
           /\ Compacting(B!AckSlot(a, i + 1), mem, left, i + 1)
  <1> DEFINE b == B!AckSlot(a, i + 1)
  <1>0. DOMAIN mem = 1 .. Len(mem) /\ Len(mem) \in Nat
    OBVIOUS
  <1>1. CASE a.start = 0
    <2>1. b = [mem |-> a.mem, start |-> i + 1, shift |-> 1]
      BY <1>1 DEF B!AckSlot
    <2>2. b \in SlotState(A, mem) /\ b.mem = a.mem /\ b.start = i + 1 /\ b.shift = 1
      BY <2>1 DEF SlotState
    <2> QED
      BY <1>0, <1>1, <2>2 DEF Compacting
  <1>2. CASE a.start # 0 /\ a.start + a.shift = i + 1
    <2>1. b = [a EXCEPT !.shift = @ + 1]
      BY <1>2 DEF B!AckSlot
    <2>2. b \in SlotState(A, mem) /\ b.mem = a.mem /\ b.start = a.start /\ b.shift = a.shift + 1
      BY <2>1 DEF SlotState
    <2>3. /\ a.start \in 1 .. i /\ a.shift \in 0 .. i /\ Len(left) = i - a.shift
          /\ DOMAIN a.mem = DOMAIN mem /\ \A k \in DOMAIN mem : k > i => a.mem[k] = mem[k]
          /\ \A k \in 1 .. a.start - 1 : a.mem[k] = left[k]
      BY <1>2 DEF Compacting
    <2>4. /\ b.start \in 0 .. i + 1 /\ b.shift \in 0 .. i + 1 /\ Len(left) = (i + 1) - b.shift
          /\ b.start # 0 /\ b.shift # 0 /\ b.start + b.shift = (i + 1) + 1
      <3> DEFINE start == a.start
                 shift == a.shift
      <3>1. /\ start \in 1 .. i /\ shift \in 0 .. i /\ start + shift = i + 1
            /\ Len(left) = i - shift /\ b.start = start /\ b.shift = shift + 1
        BY <1>2, <2>2, <2>3
      <3> HIDE DEF b, start, shift
      <3> QED
        BY <3>1
    <2>5. \A k \in DOMAIN mem : k > i + 1 => b.mem[k] = mem[k]
      BY <1>0, <2>2, <2>3
    <2>6. \A k \in b.start + b.shift .. i + 1 : b.mem[k] = left[k - b.shift]
      BY <2>4
    <2> HIDE DEF b
    <2>7. Compacting(b, mem, left, i + 1)
      BY <2>2, <2>3, <2>4, <2>5, <2>6 DEF Compacting
    <2> QED
      BY <2>2, <2>7 DEF b
  <1>3. CASE a.start # 0 /\ a.start + a.shift # i + 1
    <2>1. b = B!CloseGap(a, i + 1)
      BY <1>3 DEF B!AckSlot
    <2>2. /\ b \in SlotState(A, mem) /\ b.start = i + 1 - a.shift /\ b.shift = a.shift + 1
          /\ \A k \in 1 .. i - a.shift : b.mem[k] = left[k]
          /\ \A k \in DOMAIN mem : k > i - a.shift => b.mem[k] = a.mem[k]
      BY <1>3, <2>1, ClosedGap
    <2>3. /\ a.start \in 1 .. i /\ a.shift \in 1 .. i /\ a.start + a.shift <= i
          /\ Len(left) = i - a.shift /\ \A k \in DOMAIN mem : k > i => a.mem[k] = mem[k]
      <3>1. a.start \in Nat /\ a.shift \in Nat
        BY DEF SlotState
      <3> QED
        BY <1>0, <1>3, <3>1 DEF Compacting
    <2>4. DOMAIN b.mem = DOMAIN mem
      BY <2>2 DEF SlotState
    <2>5. \A k \in DOMAIN mem : k > i + 1 => b.mem[k] = mem[k]
      BY <1>0, <2>2, <2>3, SMTT(40)
    <2> QED
      BY <1>0, <2>2, <2>3, <2>4, <2>5, SMTT(40) DEF Compacting
  <1> QED
    BY <1>1, <1>2, <1>3

\* The slots, of the first n, that an acknowledgement leaves.
Kept(mem, n, s) == {k \in 1 .. n : ~B!Covers(s, mem[k].n)}

\* An array as a sequence.
LEMMA FunctionIsSequence ==
    ASSUME NEW A, NEW n \in Nat, NEW f \in [1 .. n -> A]
    PROVE  f \in Seq(A) /\ Len(f) = n
  OBVIOUS

\* The array after the loop and the final shift: its first entries are those that are not
\* covered, in their order.
LEMMA CompactedIsSubsequence ==
    ASSUME NEW A, NEW mem \in Seq(A), NEW n \in 0 .. Len(mem), NEW s
    PROVE  /\ B!Compacted(mem, n, s).shift \in 0 .. n
           /\ B!Compacted(mem, n, s).mem \in [1 .. Len(mem) -> A]
           /\ Len(Sub!LeftOf(mem, Kept(mem, n, s))[n]) = n - B!Compacted(mem, n, s).shift
           /\ \A k \in 1 .. n - B!Compacted(mem, n, s).shift :
                  B!Compacted(mem, n, s).mem[k] = Sub!LeftOf(mem, Kept(mem, n, s))[n][k]
  <1> DEFINE kept == Kept(mem, n, s)
             f == Sub!LeftOf(mem, kept)
             g == B!AckLoop(mem, n, s)
             S == {i \in 0 .. n : /\ f[i] \in Seq(A) /\ g[i] \in SlotState(A, mem)
                                  /\ Compacting(g[i], mem, f[i], i)}
  <1>0. /\ n \in Nat /\ Len(mem) \in Nat /\ n <= Len(mem) /\ DOMAIN mem = 1 .. Len(mem)
        /\ mem \in [DOMAIN mem -> A]
    OBVIOUS
  <1>1. /\ \A i \in 1 .. n : f[i] = IF i \in kept THEN Append(f[i - 1], mem[i]) ELSE f[i - 1]
        /\ f[0] = << >>
    <2>1. Sub!IsLeftOf(f, mem, kept, Len(mem))
      BY <1>0, Sub!LeftOfDef
    <2> HIDE DEF f, kept
    <2>2. f = [i \in 0 .. Len(mem) |-> IF i = 0 THEN << >>
                          ELSE IF i \in kept THEN Append(f[i - 1], mem[i]) ELSE f[i - 1]]
      BY <2>1 DEF Sub!IsLeftOf
    <2>3. \A i \in 0 .. Len(mem) : f[i] = IF i = 0 THEN << >>
                          ELSE IF i \in kept THEN Append(f[i - 1], mem[i]) ELSE f[i - 1]
      BY <2>2
    <2> QED
      BY <1>0, <2>3
  <1>2. /\ g[0] = [mem |-> mem, start |-> 0, shift |-> 0]
        /\ \A i \in 1 .. n : g[i] = IF B!Covers(s, g[i - 1].mem[i].n) THEN B!AckSlot(g[i - 1], i)
                                    ELSE g[i - 1]
    <2>1. IsAckLoop(g, mem, n, s)
      BY <1>0, AckLoopDef
    <2> HIDE DEF g
    <2>3. \A i \in 0 .. n : g[i] = IF i = 0 THEN [mem |-> mem, start |-> 0, shift |-> 0]
                 ELSE IF B!Covers(s, g[i - 1].mem[i].n) THEN B!AckSlot(g[i - 1], i) ELSE g[i - 1]
      BY <2>1 DEF IsAckLoop
    <2> QED
      BY <1>0, <2>3
  <1>2a. \A i \in 1 .. n : i \in kept <=> ~B!Covers(s, mem[i].n)
    BY DEF Kept
  <1> HIDE DEF f, g, kept
  <1>3. 0 \in S
    <2>1. g[0] \in SlotState(A, mem)
      BY <1>0, <1>2 DEF SlotState
    <2>2. Compacting(g[0], mem, f[0], 0)
      BY <1>0, <1>1, <1>2 DEF Compacting
    <2>3. f[0] \in Seq(A) /\ 0 \in 0 .. n
      <3>1. << >> \in Seq(A)
        OBVIOUS
      <3> QED
        BY <1>0, <1>1, <3>1
    <2> QED
      BY <2>1, <2>2, <2>3
  <1>4. ASSUME NEW i \in 0 .. n - 1, i \in S
        PROVE  i + 1 \in S
    <2>1. /\ i \in Nat /\ i + 1 <= Len(mem) /\ i + 1 \in 1 .. n /\ (i + 1) - 1 = i
          /\ i + 1 \in 0 .. n /\ mem[i + 1] \in A /\ i + 1 \in DOMAIN mem /\ i + 1 > i
      BY <1>0
    <2>2. f[i] \in Seq(A) /\ g[i] \in SlotState(A, mem) /\ Compacting(g[i], mem, f[i], i)
      BY <1>4
    <2>3. g[i].mem[i + 1] = mem[i + 1]
      BY <2>1, <2>2 DEF Compacting
    <2>4. /\ f[i + 1] = IF i + 1 \in kept THEN Append(f[i], mem[i + 1]) ELSE f[i]
          /\ g[i + 1] = IF i + 1 \in kept THEN g[i] ELSE B!AckSlot(g[i], i + 1)
      BY <1>1, <1>2, <1>2a, <2>1, <2>3
    <2>5. CASE i + 1 \in kept
      <3>1. Append(f[i], mem[i + 1]) \in Seq(A)
        BY <2>1, <2>2
      <3>2. Compacting(g[i], mem, Append(f[i], mem[i + 1]), i + 1)
        BY <2>1, <2>2, KeepSlot
      <3> QED
        BY <2>1, <2>2, <2>4, <2>5, <3>1, <3>2
    <2>6. CASE i + 1 \notin kept
      <3>1. /\ B!AckSlot(g[i], i + 1) \in SlotState(A, mem)
            /\ Compacting(B!AckSlot(g[i], i + 1), mem, f[i], i + 1)
        BY <2>1, <2>2, TakeSlot
      <3> QED
        BY <2>1, <2>2, <2>4, <2>6, <3>1
    <2> QED
      BY <2>5, <2>6
  <1>5. n \in S
    <2>1. S \in SUBSET Nat
      OBVIOUS
    <2> HIDE DEF S
    <2> QED
      BY <1>0, <1>3, <1>4, <2>1, Sub!Induction
  <1> DEFINE last == g[n]
             done == IF last.start = 0 THEN last
                     ELSE [B!CloseGap(last, n + 1) EXCEPT !.shift = last.shift]
  <1>6. B!Compacted(mem, n, s) = done
    BY DEF B!Compacted, g
  <1>7. f[n] \in Seq(A) /\ last \in SlotState(A, mem) /\ Compacting(last, mem, f[n], n)
    BY <1>5
  <1> HIDE DEF last
  <1>8. /\ done.shift = last.shift /\ done.mem \in [1 .. Len(mem) -> A]
        /\ \A k \in 1 .. n - last.shift : done.mem[k] = f[n][k]
    <2>1. CASE last.start = 0
      <3>1. done = last /\ last.shift = 0
        BY <1>7, <2>1 DEF Compacting
      <3>2. last.mem \in [1 .. Len(mem) -> A] /\ \A k \in 1 .. n : last.mem[k] = f[n][k]
        BY <1>0, <1>7, <2>1 DEF Compacting, SlotState
      <3> HIDE DEF done
      <3> QED
        BY <1>0, <3>1, <3>2
    <2>2. CASE last.start # 0
      <3> DEFINE b == B!CloseGap(last, n + 1)
      <3>1. b \in SlotState(A, mem) /\ \A k \in 1 .. n - last.shift : b.mem[k] = f[n][k]
        BY <1>0, <1>7, <2>2, ClosedGap
      <3>2. done = [b EXCEPT !.shift = last.shift]
        BY <2>2
      <3> HIDE DEF b
      <3>3. done.mem = b.mem /\ done.shift = last.shift
        BY <3>1, <3>2 DEF SlotState
      <3>4. b.mem \in [1 .. Len(mem) -> A]
        BY <1>0, <3>1 DEF SlotState
      <3> HIDE DEF done
      <3> QED
        BY <3>1, <3>3, <3>4
    <2> QED
      BY <2>1, <2>2
  <1>9. Len(f[n]) = n - last.shift /\ last.shift \in 0 .. n
    BY <1>7 DEF Compacting
  <1> HIDE DEF done
  <1> QED
    BY <1>6, <1>8, <1>9 DEF f, kept

\* Positions behind the last that stays leave nothing.
LEMMA NothingLeftBehind ==
    ASSUME NEW A, NEW mem \in Seq(A), NEW n \in 0 .. Len(mem), NEW stay \in SUBSET (1 .. n)
    PROVE  Sub!LeftOf(mem, stay)[n] = Sub!Subsequence(mem, stay)
  <1> DEFINE f == Sub!LeftOf(mem, stay)
             S == {j \in Nat : n + j <= Len(mem) => f[n + j] = f[n]}
  <1>0. n \in Nat /\ Len(mem) \in Nat /\ Len(mem) - n \in Nat
    OBVIOUS
  <1>1. \A i \in 1 .. Len(mem) : f[i] = IF i \in stay THEN Append(f[i - 1], mem[i]) ELSE f[i - 1]
    <2>1. Sub!IsLeftOf(f, mem, stay, Len(mem))
      BY <1>0, Sub!LeftOfDef
    <2> HIDE DEF f
    <2>3. \A i \in 0 .. Len(mem) : f[i] = IF i = 0 THEN << >>
                          ELSE IF i \in stay THEN Append(f[i - 1], mem[i]) ELSE f[i - 1]
      BY <2>1 DEF Sub!IsLeftOf
    <2> QED
      BY <1>0, <2>3
  <1> HIDE DEF f
  <1>2. 0 \in S
    BY <1>0
  <1>3. ASSUME NEW j \in Nat, j \in S
        PROVE  j + 1 \in S
    <2>1. SUFFICES ASSUME n + (j + 1) <= Len(mem) PROVE f[n + (j + 1)] = f[n]
      OBVIOUS
    <2>2. n + (j + 1) \in 1 .. Len(mem) /\ n + (j + 1) \notin stay /\ (n + (j + 1)) - 1 = n + j
      BY <1>0, <2>1
    <2>3. f[n + j] = f[n]
      BY <1>0, <1>3, <2>1
    <2> QED
      BY <1>1, <2>2, <2>3
  <1>4. Len(mem) - n \in S
    <2>1. S \in SUBSET Nat
      OBVIOUS
    <2> HIDE DEF S
    <2> QED
      BY <1>0, <1>2, <1>3, <2>1, Sub!Induction
  <1>5. n + (Len(mem) - n) = Len(mem)
    BY <1>0
  <1> QED
    BY <1>0, <1>4, <1>5 DEF Sub!Subsequence, f

\* What an acknowledgement leaves of an array: the entries it does not cover, in their order.
LeavesUncovered(mem, n, s, done, A) ==
    /\ done.shift \in 0 .. n /\ done.mem \in [1 .. Len(mem) -> A]
    /\ Sub!Subsequence(mem, Kept(mem, n, s)) = SubSeq(done.mem, 1, n - done.shift)
    /\ \E m \in [1 .. n - done.shift -> Kept(mem, n, s)] :
           /\ \A i, j \in 1 .. n - done.shift : i < j => m[i] < m[j]
           /\ \A k \in Kept(mem, n, s) : \E j \in 1 .. n - done.shift : m[j] = k
           /\ \A j \in 1 .. n - done.shift : done.mem[j] = mem[m[j]]

\* ... with the positions the entries had.
LEMMA CompactedPlaces ==
    ASSUME NEW A, NEW mem \in Seq(A), NEW n \in 0 .. Len(mem), NEW s
    PROVE  LeavesUncovered(mem, n, s, B!Compacted(mem, n, s), A)
  <1> DEFINE kept == Kept(mem, n, s)
             done == B!Compacted(mem, n, s)
             r == Sub!Subsequence(mem, kept)
  <1>0. n \in Nat /\ Len(mem) \in Nat /\ n <= Len(mem) /\ kept \in SUBSET (1 .. n)
    BY DEF Kept
  <1>1. /\ done.shift \in 0 .. n /\ done.mem \in [1 .. Len(mem) -> A]
        /\ Len(Sub!LeftOf(mem, kept)[n]) = n - done.shift
        /\ \A k \in 1 .. n - done.shift : done.mem[k] = Sub!LeftOf(mem, kept)[n][k]
    BY CompactedIsSubsequence
  <1> HIDE DEF kept, done
  <1>2. Sub!LeftOf(mem, kept)[n] = r
    BY <1>0, NothingLeftBehind
  <1>3. kept \in SUBSET (1 .. Len(mem))
    BY <1>0
  <1>4. r \in Seq(A) /\ \E m : Sub!Places(m, mem, kept, r)
    BY <1>3, Sub!SubsequenceIsWhatIsLeft
  <1> HIDE DEF r
  <1>5. Len(r) = n - done.shift /\ \A k \in 1 .. Len(r) : done.mem[k] = r[k]
    BY <1>1, <1>2
  <1>6. r = SubSeq(done.mem, 1, n - done.shift)
    <2>1. done.mem \in Seq(A) /\ Len(done.mem) = Len(mem)
      BY <1>0, <1>1, FunctionIsSequence
    <2>2. n - done.shift \in 0 .. Len(mem)
      BY <1>0, <1>1
    <2> DEFINE t == SubSeq(done.mem, 1, n - done.shift)
    <2>3. /\ t \in Seq(A) /\ Len(t) = n - done.shift
          /\ \A k \in 1 .. n - done.shift : t[k] = done.mem[k]
      BY <2>1, <2>2
    <2> HIDE DEF t
    <2>4. r = t
      BY <1>4, <1>5, <2>3
    <2> QED
      BY <2>4 DEF t
  <1>7. PICK m : Sub!Places(m, mem, kept, r)
    BY <1>4
  <1>8. /\ m \in [1 .. n - done.shift -> kept]
        /\ \A i, j \in 1 .. n - done.shift : i < j => m[i] < m[j]
        /\ \A k \in kept : \E j \in 1 .. n - done.shift : m[j] = k
        /\ \A j \in 1 .. n - done.shift : done.mem[j] = mem[m[j]]
    BY <1>5, <1>7 DEF Sub!Places
  <1> QED
    BY <1>1, <1>6, <1>8 DEF kept, done, r, LeavesUncovered

\* An acknowledgement removes exactly the packets it covers, for every content of the
\* array: the property AckRemovesExactly of the send buffer, which TLC checks for the
\* arrays it meets.
LEMMA AckRemovesWhatItCovers == B!AckRemovesExactly
  <1> SUFFICES ASSUME NEW p \in B!Arrangements, NEW n \in 0 .. MaxArranged - 1
               PROVE  LET done == B!Compacted(p, Len(p), B!NumberOf(n))
                      IN  SubSeq(done.mem, 1, Len(p) - done.shift) =
                            B!Subsequence(p, {k \in DOMAIN p : ~B!Covers(B!NumberOf(n), p[k].n)})
    BY DEF B!AckRemovesExactly
  <1> DEFINE A == [n : 0 .. MaxArranged - 1]
  <1>1. PICK live \in 0 .. MaxArranged : p \in [1 .. live -> A]
    BY DEF B!Arrangements
  <1>2. p \in Seq(A) /\ Len(p) \in 0 .. Len(p) /\ DOMAIN p = 1 .. Len(p)
    <2>1. live \in Nat
      BY MCTransportAssumption DEF B!SendBufferAssumption
    <2>2. p \in Seq(A) /\ Len(p) = live
      <3> HIDE DEF A
      <3> QED
        BY <1>1, <2>1, FunctionIsSequence
    <2> QED
      BY <1>1, <2>1, <2>2
  <1> HIDE DEF A
  <1> DEFINE done == B!Compacted(p, Len(p), B!NumberOf(n))
             kept == Kept(p, Len(p), B!NumberOf(n))
  <1>3. Sub!Subsequence(p, kept) = SubSeq(done.mem, 1, Len(p) - done.shift)
    BY <1>2, CompactedPlaces DEF LeavesUncovered
  <1>4. B!Subsequence(p, kept) = Sub!Subsequence(p, kept)
    BY DEF B!Subsequence, Sub!Subsequence, B!LeftOf, Sub!LeftOf
  <1> QED
    BY <1>2, <1>3, <1>4 DEF Kept

-----------------------------------------------------------------------------
(* The buffers of the messages *)

\* A slot of the send buffer.
Slot == [n : Nat, tries : Nat, age : Nat]

\* The fields of the send buffer.
BufferTypes ==
    /\ buffered \in [1 .. SendSize -> Slot]
    /\ count \in 0 .. SendSize /\ allotted \in 0 .. MaxSends
    /\ inFlight \subseteq 0 .. allotted - 1
    /\ freed \in [B!Messages -> Nat]

\* The message n is in a slot.
InSlot(n) == \E k \in 1 .. count : buffered[k].n = n

\* The buffer of every message is with its sender, in one slot or freed.
OnePlace ==
    /\ \A j, k \in 1 .. count : buffered[j].n = buffered[k].n => j = k
    /\ \A k \in 1 .. count : buffered[k].n \in 0 .. allotted - 1
    /\ \A n \in 0 .. allotted - 1 :
           \/ n \in inFlight /\ freed[n] = 0 /\ ~InSlot(n)
           \/ n \notin inFlight /\ freed[n] = 0 /\ InSlot(n)
           \/ n \notin inFlight /\ freed[n] = 1 /\ ~InSlot(n)
    /\ \A n \in B!Messages : n >= allotted => freed[n] = 0

\* The inductive invariant of the send buffer.
BufferInv == BufferTypes /\ OnePlace

\* What is used of the assumptions on the send buffer.
LEMMA BufferConstants == SendSize \in Nat /\ MaxSends \in Nat /\ SendTries \in Nat
  BY MCTransportAssumption DEF B!SendBufferAssumption

\* The messages that were allotted are messages.
LEMMA MessageNumbers ==
    ASSUME BufferTypes
    PROVE  /\ allotted \in Nat /\ allotted <= MaxSends
           /\ 0 .. allotted - 1 \subseteq B!Messages /\ B!Messages \subseteq Nat
  BY BufferConstants DEF BufferTypes, B!Messages

\* The slots kept move to the front, m telling from where, and what was in the others is
\* freed.
SlotsMove(kept, m) ==
    /\ kept \in SUBSET (1 .. count) /\ m \in [1 .. count' -> kept]
    /\ count' \in 0 .. SendSize /\ buffered' \in [1 .. SendSize -> Slot]
    /\ \A i, j \in 1 .. count' : m[i] = m[j] => i = j
    /\ \A k \in kept : \E j \in 1 .. count' : m[j] = k
    /\ \A j \in 1 .. count' : buffered'[j].n = buffered[m[j]].n
    /\ freed' = [n \in B!Messages |->
                    IF \E k \in (1 .. count) \ kept : buffered[k].n = n THEN freed[n] + 1
                    ELSE freed[n]]
    /\ UNCHANGED <<allotted, inFlight>>

\* Whatever leaves the buffer in this way keeps every message in one place.
LEMMA SlotsMoveStep ==
    ASSUME BufferInv, NEW kept, NEW m, SlotsMove(kept, m)
    PROVE  BufferInv'
  <1> USE DEF SlotsMove
  <1>1. BufferTypes'
    BY DEF BufferInv, BufferTypes
  <1>2. \A j \in 1 .. count' : m[j] \in 1 .. count
    OBVIOUS
  <1>3. \A i, j \in 1 .. count' : buffered'[i].n = buffered'[j].n => i = j
    BY <1>2, SMTT(40) DEF BufferInv, OnePlace
  <1>4. \A k \in 1 .. count' : buffered'[k].n \in 0 .. allotted' - 1
    <2>1. allotted' = allotted /\ \A k \in 1 .. count : buffered[k].n \in 0 .. allotted - 1
      BY DEF BufferInv, OnePlace
    <2>2. \A k \in 1 .. count' : buffered'[k].n = buffered[m[k]].n
      OBVIOUS
    <2> QED
      BY <1>2, <2>1, <2>2, Zenon
  <1>5. ASSUME NEW n \in B!Messages
        PROVE  /\ freed'[n] = IF \E k \in (1 .. count) \ kept : buffered[k].n = n
                              THEN freed[n] + 1 ELSE freed[n]
               /\ InSlot(n)' <=> \E k \in kept : buffered[k].n = n
    <2>1. InSlot(n)' <=> \E j \in 1 .. count' : buffered[m[j]].n = n
      BY DEF InSlot
    <2> QED
      BY <2>1
  <1>6. ASSUME NEW n \in 0 .. allotted' - 1
        PROVE  \/ n \in inFlight' /\ freed'[n] = 0 /\ ~InSlot(n)'
               \/ n \notin inFlight' /\ freed'[n] = 0 /\ InSlot(n)'
               \/ n \notin inFlight' /\ freed'[n] = 1 /\ ~InSlot(n)'
    <2>1. n \in B!Messages /\ n \in 0 .. allotted - 1
      BY MessageNumbers DEF BufferInv
    <2>2. CASE InSlot(n)
      <3>1. PICK k \in 1 .. count : buffered[k].n = n
        BY <2>2 DEF InSlot
      <3>2. \A l \in 1 .. count : buffered[l].n = n => l = k
        BY <3>1 DEF BufferInv, OnePlace
      <3>3. n \notin inFlight /\ freed[n] = 0
        BY <2>1, <2>2 DEF BufferInv, OnePlace
      <3>4. CASE k \in kept
        BY <1>5, <2>1, <3>1, <3>2, <3>3, <3>4
      <3>5. CASE k \notin kept
        BY <1>5, <2>1, <3>1, <3>2, <3>3, <3>5
      <3> QED
        BY <3>4, <3>5
    <2>3. CASE ~InSlot(n)
      <3>1. ~(\E k \in 1 .. count : buffered[k].n = n)
        BY <2>3 DEF InSlot
      <3>2. freed'[n] = freed[n] /\ ~InSlot(n)'
        BY <1>5, <2>1, <3>1
      <3> QED
        BY <2>1, <2>3, <3>2 DEF BufferInv, OnePlace
    <2> QED
      BY <2>2, <2>3
  <1>7. ASSUME NEW n \in B!Messages, n >= allotted'
        PROVE  freed'[n] = 0
    <2>1. allotted \in Nat /\ n \in Nat /\ allotted' = allotted
      BY MessageNumbers DEF BufferInv
    <2>2. ~(\E k \in 1 .. count : buffered[k].n = n)
      BY <1>7, <2>1 DEF BufferInv, OnePlace
    <2> QED
      BY <1>5, <1>7, <2>1, <2>2 DEF BufferInv, OnePlace
  <1> QED
    BY <1>1, <1>3, <1>4, <1>6, <1>7 DEF BufferInv, OnePlace

\* An acknowledgement does.
LEMMA AckStep ==
    ASSUME BufferInv, NEW s, B!Ack(s), UNCHANGED <<allotted, inFlight>>
    PROVE  BufferInv'
  <1> DEFINE done == B!Compacted(buffered, count, s)
             kept == Kept(buffered, count, s)
             left == count - done.shift
  <1>1. /\ buffered \in Seq(Slot) /\ Len(buffered) = SendSize /\ count \in 0 .. Len(buffered)
        /\ count \in Nat /\ SendSize \in Nat
    BY BufferConstants, FunctionIsSequence DEF BufferInv, BufferTypes
  <1>2. LeavesUncovered(buffered, count, s, done, Slot)
    BY <1>1, CompactedPlaces
  <1>3. /\ count' = left
        /\ buffered' = [k \in 1 .. SendSize |-> IF k <= left THEN done.mem[k]
                                                 ELSE B!Vacated(done.mem[k])]
        /\ freed' = [n \in B!Messages |->
                        IF n \in {q \in B!Buffered : B!Covers(s, q)}
                        THEN freed[n] + 1 ELSE freed[n]]
    BY DEF B!Ack, B!Free
  <1> HIDE DEF done
  <1>4. done.shift \in 0 .. count /\ done.mem \in [1 .. SendSize -> Slot]
    BY <1>1, <1>2 DEF LeavesUncovered
  <1>5. PICK m \in [1 .. left -> kept] :
           /\ \A i, j \in 1 .. left : i < j => m[i] < m[j]
           /\ \A k \in kept : \E j \in 1 .. left : m[j] = k
           /\ \A j \in 1 .. left : done.mem[j] = buffered[m[j]]
    BY <1>2 DEF LeavesUncovered
  <1>6. count' \in 0 .. SendSize
    BY <1>1, <1>3, <1>4
  <1>7. buffered' \in [1 .. SendSize -> Slot]
    <2>1. \A p \in Slot : B!Vacated(p) \in Slot
      BY DEF B!Vacated, Slot
    <2> QED
      BY <1>3, <1>4, <2>1
  <1>8. kept \in SUBSET (1 .. count)
    BY DEF Kept
  <1>9. \A i, j \in 1 .. count' : m[i] = m[j] => i = j
    <2> SUFFICES ASSUME NEW i \in 1 .. left, NEW j \in 1 .. left, m[i] = m[j] PROVE i = j
      BY <1>3
    <2>1. m[i] \in Int /\ m[j] \in Int /\ left \in Int
      BY <1>1, <1>4, <1>8
    <2>2. ~(i < j) /\ ~(j < i)
      BY <1>5, <2>1
    <2> QED
      BY <2>1, <2>2
  <1>10. \A j \in 1 .. count' : buffered'[j].n = buffered[m[j]].n
    <2> SUFFICES ASSUME NEW j \in 1 .. left PROVE buffered'[j] = buffered[m[j]]
      BY <1>3
    <2>1. j \in 1 .. SendSize /\ j <= left
      BY <1>1, <1>4
    <2> QED
      BY <1>3, <1>5, <2>1
  <1>11. \A n : n \in {q \in B!Buffered : B!Covers(s, q)} <=>
                    \E k \in (1 .. count) \ kept : buffered[k].n = n
    BY DEF B!Buffered, B!Live, Kept
  <1>12. freed' = [n \in B!Messages |->
                        IF \E k \in (1 .. count) \ kept : buffered[k].n = n THEN freed[n] + 1
                        ELSE freed[n]]
    BY <1>3, <1>11
  <1>13. m \in [1 .. count' -> kept] /\ \A k \in kept : \E j \in 1 .. count' : m[j] = k
    BY <1>3, <1>5
  <1> HIDE DEF kept, left
  <1>14. SlotsMove(kept, m)
    BY <1>6, <1>7, <1>8, <1>9, <1>10, <1>12, <1>13, Zenon DEF SlotsMove
  <1> QED
    BY <1>14, SlotsMoveStep

\* So does what changes no more than ages and tries.
LEMMA SlotsStay ==
    ASSUME BufferInv, buffered' \in [1 .. SendSize -> Slot],
           \A k \in 1 .. count : buffered'[k].n = buffered[k].n,
           UNCHANGED <<count, freed, allotted, inFlight>>
    PROVE  BufferInv'
  <1> USE DEF BufferInv
  <1>1. BufferTypes'
    BY DEF BufferTypes
  <1>2. \A n : InSlot(n)' <=> InSlot(n)
    BY DEF InSlot
  <1>3. OnePlace'
    <2>1. \A j, k \in 1 .. count : buffered'[j].n = buffered'[k].n => j = k
      BY DEF OnePlace
    <2>2. \A k \in 1 .. count : buffered'[k].n \in 0 .. allotted - 1
      BY DEF OnePlace
    <2> QED
      BY <1>2, <2>1, <2>2 DEF OnePlace
  <1> QED
    BY <1>1, <1>3

\* A message is sent, or its sending fails.
LEMMA BufferSendStep ==
    ASSUME BufferInv, B!Send \/ B!SendFails
    PROVE  BufferInv'
  <1> USE DEF BufferInv
  <1>1. /\ allotted' = allotted + 1 /\ allotted < MaxSends
        /\ UNCHANGED <<buffered, count>>
        /\ \/ inFlight' = inFlight \cup {allotted} /\ UNCHANGED freed
           \/ inFlight' = inFlight
              /\ freed' = [n \in B!Messages |-> IF n \in {allotted} THEN freed[n] + 1 ELSE freed[n]]
    BY DEF B!Send, B!SendFails, B!Free
  <1>2. allotted \in Nat /\ allotted \in B!Messages
    BY <1>1, BufferConstants DEF BufferTypes, B!Messages
  <1>3. freed[allotted] = 0 /\ allotted \notin inFlight /\ ~InSlot(allotted)
    <2>1. freed[allotted] = 0
      BY <1>2 DEF OnePlace
    <2>2. allotted \notin inFlight
      BY <1>2 DEF BufferTypes
    <2>3. ~InSlot(allotted)
      BY <1>2 DEF OnePlace, InSlot
    <2> QED
      BY <2>1, <2>2, <2>3
  <1>4. \A n : InSlot(n)' <=> InSlot(n)
    BY <1>1 DEF InSlot
  <1>6. freed' \in [B!Messages -> Nat] /\ \A n \in B!Messages : n # allotted => freed'[n] = freed[n]
    BY <1>1 DEF BufferTypes
  <1>5. BufferTypes'
    <2>1. /\ buffered' \in [1 .. SendSize -> Slot] /\ count' \in 0 .. SendSize
          /\ allotted' \in 0 .. MaxSends
      BY <1>1, <1>2, BufferConstants DEF BufferTypes
    <2>2. inFlight' \subseteq 0 .. allotted' - 1
      <3>1. \A n \in inFlight : n \in 0 .. allotted - 1
        BY DEF BufferTypes
      <3>2. \A n \in 0 .. allotted - 1 : n \in 0 .. allotted' - 1
        BY <1>1, <1>2
      <3>3. allotted \in 0 .. allotted' - 1
        BY <1>1, <1>2
      <3> QED
        BY <1>1, <3>1, <3>2, <3>3
    <2> QED
      BY <1>6, <2>1, <2>2 DEF BufferTypes
  <1>7. ASSUME NEW n \in 0 .. allotted' - 1
        PROVE  \/ n \in inFlight' /\ freed'[n] = 0 /\ ~InSlot(n)'
               \/ n \notin inFlight' /\ freed'[n] = 0 /\ InSlot(n)'
               \/ n \notin inFlight' /\ freed'[n] = 1 /\ ~InSlot(n)'
    <2>1. CASE n = allotted
      BY <1>1, <1>2, <1>3, <1>4, <2>1 DEF BufferTypes
    <2>2. CASE n # allotted
      <3>1. n \in 0 .. allotted - 1 /\ n \in B!Messages
        BY <1>1, <1>2, <2>2, MessageNumbers
      <3>2. freed'[n] = freed[n] /\ (n \in inFlight' <=> n \in inFlight)
        BY <1>1, <1>6, <2>2, <3>1
      <3> QED
        BY <1>4, <3>1, <3>2 DEF OnePlace
    <2> QED
      BY <2>1, <2>2
  <1>8. ASSUME NEW n \in B!Messages, n >= allotted'
        PROVE  freed'[n] = 0
    <2>1. n \in Nat /\ n > allotted
      BY <1>1, <1>2, <1>8, MessageNumbers
    <2> QED
      BY <1>2, <1>6, <2>1 DEF OnePlace
  <1>9. \A k \in 1 .. count' : buffered'[k].n \in 0 .. allotted' - 1
    <2>1. \A k \in 1 .. count : buffered[k].n \in 0 .. allotted - 1
      BY DEF OnePlace
    <2> QED
      BY <1>1, <1>2, <2>1
  <1>10. \A j, k \in 1 .. count' : buffered'[j].n = buffered'[k].n => j = k
    BY <1>1 DEF OnePlace
  <1> QED
    BY <1>5, <1>7, <1>8, <1>9, <1>10 DEF OnePlace

\* A message is pushed, or refused and freed.
LEMMA BufferPushStep ==
    ASSUME BufferInv, NEW n \in B!Messages, B!Push(n)
    PROVE  BufferInv'
  <1> USE DEF BufferInv
  <1>1. n \in inFlight /\ inFlight' = inFlight \ {n} /\ UNCHANGED allotted
    BY DEF B!Push
  <1>2. n \in 0 .. allotted - 1 /\ freed[n] = 0 /\ ~InSlot(n) /\ allotted \in Nat
    BY <1>1 DEF BufferTypes, OnePlace
  <1>3. CASE B!Refused(n)
    <2>1. /\ freed' = [q \in B!Messages |-> IF q \in {n} THEN freed[q] + 1 ELSE freed[q]]
          /\ UNCHANGED <<buffered, count>>
      BY <1>3 DEF B!Push, B!FreedWhenRefused, B!Free
    <2>2. \A q : InSlot(q)' <=> InSlot(q)
      BY <2>1 DEF InSlot
    <2>3. freed' \in [B!Messages -> Nat] /\ freed'[n] = 1
          /\ \A q \in B!Messages : q # n => freed'[q] = freed[q]
      BY <1>2, <2>1 DEF BufferTypes
    <2>4. BufferTypes'
      BY <1>1, <2>1, <2>3 DEF BufferTypes
    <2>5. ASSUME NEW q \in 0 .. allotted' - 1
          PROVE  \/ q \in inFlight' /\ freed'[q] = 0 /\ ~InSlot(q)'
                 \/ q \notin inFlight' /\ freed'[q] = 0 /\ InSlot(q)'
                 \/ q \notin inFlight' /\ freed'[q] = 1 /\ ~InSlot(q)'
      <3>1. q \in 0 .. allotted - 1 /\ q \in B!Messages
        BY <1>1, MessageNumbers
      <3>2. CASE q = n
        BY <1>1, <1>2, <2>2, <2>3, <3>2
      <3>3. CASE q # n
        <4>1. freed'[q] = freed[q] /\ (q \in inFlight' <=> q \in inFlight)
          BY <1>1, <2>3, <3>1, <3>3
        <4> QED
          BY <2>2, <3>1, <4>1 DEF OnePlace
      <3> QED
        BY <3>2, <3>3
    <2>6. ASSUME NEW q \in B!Messages, q >= allotted'
          PROVE  freed'[q] = 0
      <3>1. q # n /\ q >= allotted
        BY <1>1, <1>2, <2>6
      <3> QED
        BY <2>3, <3>1 DEF OnePlace
    <2> QED
      BY <1>1, <2>1, <2>4, <2>5, <2>6 DEF OnePlace
  <1>4. CASE ~B!Refused(n)
    <2> DEFINE p == [n |-> n, tries |-> 0, age |-> 0]
    <2>1. /\ buffered' = [buffered EXCEPT ![count + 1] = p]
          /\ count' = count + 1 /\ UNCHANGED freed /\ ~(count >= SendSize)
      BY <1>4 DEF B!Push, B!Refused
    <2>2. p \in Slot /\ p.n = n
      BY <1>2 DEF Slot
    <2> HIDE DEF p
    <2>3. count + 1 \in 1 .. SendSize /\ count \in Nat /\ count' \in 0 .. SendSize
      BY <2>1, BufferConstants DEF BufferTypes
    <2>4. /\ buffered' \in [1 .. SendSize -> Slot] /\ buffered'[count + 1] = p
          /\ \A k \in 1 .. count : buffered'[k] = buffered[k]
      BY <2>1, <2>2, <2>3 DEF BufferTypes
    <2>5. BufferTypes'
      BY <1>1, <2>1, <2>3, <2>4 DEF BufferTypes
    <2>6. \A k \in 1 .. count' : k \in 1 .. count \/ k = count + 1
      BY <2>1, <2>3
    <2>7. \A k \in 1 .. count : buffered[k].n # n
      BY <1>2 DEF InSlot
    <2>8. \A q : InSlot(q)' <=> InSlot(q) \/ q = n
      <3>1. 1 .. count' = (1 .. count) \cup {count + 1}
        BY <2>1, <2>3
      <3> QED
        BY <2>2, <2>4, <3>1 DEF InSlot
    <2>9. \A j, k \in 1 .. count' : buffered'[j].n = buffered'[k].n => j = k
      BY <2>2, <2>4, <2>6, <2>7 DEF OnePlace
    <2>10. \A k \in 1 .. count' : buffered'[k].n \in 0 .. allotted' - 1
      BY <1>1, <1>2, <2>2, <2>4, <2>6 DEF OnePlace
    <2>11. ASSUME NEW q \in 0 .. allotted' - 1
           PROVE  \/ q \in inFlight' /\ freed'[q] = 0 /\ ~InSlot(q)'
                  \/ q \notin inFlight' /\ freed'[q] = 0 /\ InSlot(q)'
                  \/ q \notin inFlight' /\ freed'[q] = 1 /\ ~InSlot(q)'
      <3>1. q \in 0 .. allotted - 1 /\ freed'[q] = freed[q]
        BY <1>1, <2>1
      <3>2. CASE q = n
        BY <1>1, <1>2, <2>8, <3>1, <3>2
      <3>3. CASE q # n
        <4>1. q \in inFlight' <=> q \in inFlight
          BY <1>1, <3>3
        <4> QED
          BY <2>8, <3>1, <3>3, <4>1 DEF OnePlace
      <3> QED
        BY <3>2, <3>3
    <2>12. \A q \in B!Messages : q >= allotted' => freed'[q] = 0
      BY <1>1, <2>1 DEF OnePlace
    <2> QED
      BY <2>5, <2>9, <2>10, <2>11, <2>12 DEF OnePlace
  <1> QED
    BY <1>3, <1>4

\* The late acknowledgements are counted.
LEMMA StaleType ==
    ASSUME stale \in Nat, B!Next
    PROVE  stale' \in Nat
  <1>1. CASE B!BeginPass
    BY <1>1 DEF B!BeginPass
  <1>2. CASE B!Tick
    BY <1>2 DEF B!Tick
  <1>3. ASSUME NEW n \in B!Messages, B!Push(n) \/ B!PushAfterFini(n) \/ B!DataAck(n)
        PROVE  stale' \in Nat
    BY <1>3 DEF B!Push, B!PushAfterFini, B!DataAck
  <1>4. CASE B!Send \/ B!SendFails \/ B!ChooseWait \/ B!FallAsleep \/ B!TimeOut \/ B!Recheck
    BY <1>4 DEF B!Send, B!SendFails, B!ChooseWait, B!FallAsleep, B!TimeOut, B!Recheck
  <1>5. CASE B!Scan \/ B!GiveUp \/ B!FiniSetStop \/ B!FiniSignal \/ B!FiniFree
    BY <1>5 DEF B!Scan, B!GiveUp, B!FiniSetStop, B!FiniSignal, B!FiniFree
  <1> QED
    BY <1>1, <1>2, <1>3, <1>4, <1>5 DEF B!Next, B!ThreadStep, B!FiniStep

\* No step loses a message or frees it twice ...
LEMMA BufferStep ==
    ASSUME BufferInv, stale \in Nat, B!Next
    PROVE  BufferInv'
  <1>0. buffered \in [1 .. SendSize -> Slot]
    BY DEF BufferInv, BufferTypes
  <1>1. CASE B!Send \/ B!SendFails
    BY <1>1, BufferSendStep
  <1>2. ASSUME NEW n \in B!Messages, B!Push(n)
        PROVE  BufferInv'
    BY <1>2, BufferPushStep
  <1>3. ASSUME UNCHANGED <<buffered, count, freed, allotted, inFlight>>
        PROVE  BufferInv'
    BY <1>0, <1>3, SlotsStay
  <1>4. ASSUME NEW n \in B!Messages, B!PushAfterFini(n)
        PROVE  BufferInv'
    BY <1>3, <1>4 DEF B!PushAfterFini
  <1>5. ASSUME NEW n \in B!Messages, B!DataAck(n)
        PROVE  BufferInv'
    BY <1>5, AckStep DEF B!DataAck
  <1>6. CASE B!ChooseWait \/ B!FallAsleep \/ B!TimeOut \/ B!Recheck \/ B!BeginPass
    BY <1>3, <1>6 DEF B!ChooseWait, B!FallAsleep, B!TimeOut, B!Recheck, B!BeginPass
  <1>7. CASE B!Scan
    <2>1. UNCHANGED <<count, freed, allotted, inFlight>>
      BY <1>7 DEF B!Scan
    <2>2. buffered' = buffered \/ buffered' = [buffered EXCEPT ![index] = B!Resent(@)]
      BY <1>7 DEF B!Scan
    <2>3. ASSUME NEW p \in Slot
          PROVE  B!Resent(p) \in Slot /\ B!Resent(p).n = p.n
      <3>1. B!Resent(p) = [p EXCEPT !.age = stale, !.tries = p.tries + 1]
        BY DEF B!Resent, Slot
      <3>2. p.tries + 1 \in Nat
        BY DEF Slot
      <3> QED
        BY <3>1, <3>2 DEF Slot
    <2>4. /\ buffered' \in [1 .. SendSize -> Slot]
          /\ \A k \in 1 .. SendSize : buffered'[k].n = buffered[k].n
      BY <1>0, <2>2, <2>3
    <2>5. \A k \in 1 .. count : k \in 1 .. SendSize
      BY BufferConstants DEF BufferInv, BufferTypes
    <2> QED
      BY <2>1, <2>4, <2>5, SlotsStay
  <1>8. CASE B!GiveUp
    BY <1>8, AckStep DEF B!GiveUp
  <1>9. CASE B!FiniSetStop \/ B!FiniSignal
    BY <1>3, <1>9 DEF B!FiniSetStop, B!FiniSignal
  <1>10. CASE B!FiniFree
    <2> DEFINE none == {}
    <2>1. /\ freed' = [n \in B!Messages |-> IF n \in B!Buffered THEN freed[n] + 1 ELSE freed[n]]
          /\ count' = 0 /\ UNCHANGED <<allotted, inFlight>>
          /\ buffered' = [k \in 1 .. SendSize |-> B!Vacated(buffered[k])]
      BY <1>10 DEF B!FiniFree, B!Free
    <2>2. \A p \in Slot : B!Vacated(p) \in Slot
      BY DEF B!Vacated, Slot
    <2>3. buffered' \in [1 .. SendSize -> Slot] /\ count' \in 0 .. SendSize
      BY <1>0, <2>1, <2>2, BufferConstants
    <2>4. \A n : n \in B!Buffered <=> \E k \in (1 .. count) \ none : buffered[k].n = n
      BY DEF B!Buffered, B!Live
    <2>5. freed' = [n \in B!Messages |->
                      IF \E k \in (1 .. count) \ none : buffered[k].n = n THEN freed[n] + 1
                      ELSE freed[n]]
      BY <2>1, <2>4
    <2>6. << >> \in [1 .. count' -> none] /\ \A k : k \notin 1 .. count'
      BY <2>1
    <2>7. none \in SUBSET (1 .. count) /\ \A k : k \notin none
      OBVIOUS
    <2> HIDE DEF none
    <2>8. SlotsMove(none, << >>)
      BY <2>1, <2>3, <2>5, <2>6, <2>7 DEF SlotsMove
    <2> QED
      BY <2>8, SlotsMoveStep
  <1>11. CASE B!Tick
    <2>1. /\ buffered' = [k \in 1 .. SendSize |-> IF k \in B!Live THEN B!Older(buffered[k])
                                                   ELSE buffered[k]]
          /\ UNCHANGED <<count, allotted, inFlight, freed>>
      BY <1>11 DEF B!Tick
    <2>2. \A p \in Slot : B!Older(p) \in Slot /\ B!Older(p).n = p.n
      BY DEF B!Older, Slot
    <2>3. /\ buffered' \in [1 .. SendSize -> Slot]
          /\ \A k \in 1 .. SendSize : buffered'[k].n = buffered[k].n
      BY <1>0, <2>1, <2>2
    <2>4. \A k \in 1 .. count : k \in 1 .. SendSize
      BY BufferConstants DEF BufferInv, BufferTypes
    <2> QED
      BY <2>1, <2>3, <2>4, SlotsStay
  <1> QED
    BY <1>1, <1>2, <1>4, <1>5, <1>6, <1>7, <1>8, <1>9, <1>10, <1>11
    DEF B!Next, B!ThreadStep, B!FiniStep

\* ... which holds at first ...
LEMMA BufferInit == B!Init => BufferInv /\ stale \in Nat
  <1> SUFFICES ASSUME B!Init PROVE BufferInv /\ stale \in Nat
    OBVIOUS
  <1>1. BufferTypes
    BY BufferConstants DEF B!Init, BufferTypes, Slot
  <1>2. OnePlace
    BY DEF B!Init, OnePlace
  <1> QED
    BY <1>1, <1>2 DEF B!Init, BufferInv

\* ... and while another component runs.
LEMMA BufferStutter ==
    BufferInv /\ stale \in Nat /\ UNCHANGED bufferVars => (BufferInv /\ stale \in Nat)'
  BY DEF bufferVars, BufferInv, BufferTypes, OnePlace, InSlot

\* The cardinality of the instance is that of the module.
LEMMA SameCardinality == \A S : B!Cardinality(S) = Cardinality(S)
  BY DEF B!Cardinality, Cardinality

\* What the invariant says of the buffers that were freed.
LEMMA BufferPromise == BufferInv => B!FreedOnce
  <1> SUFFICES ASSUME BufferInv, NEW n \in 0 .. allotted - 1
               PROVE  Cardinality({k \in B!Live : buffered[k].n = n})
                        + (IF n \in inFlight THEN 1 ELSE 0) + freed[n] = 1
    BY SameCardinality, Zenon DEF B!FreedOnce
  <1> DEFINE slots == {k \in B!Live : buffered[k].n = n}
  <1>0. B!Live = 1 .. count
    BY DEF B!Live
  <1>1. CASE InSlot(n)
    <2>1. PICK k \in 1 .. count : buffered[k].n = n
      BY <1>1 DEF InSlot
    <2>2. slots = {k}
      BY <1>0, <2>1 DEF BufferInv, OnePlace
    <2>3. Cardinality(slots) = 1
      BY <2>2, FS_Singleton
    <2>4. n \notin inFlight /\ freed[n] = 0
      BY <1>1 DEF BufferInv, OnePlace
    <2> HIDE DEF slots
    <2>5. Cardinality(slots) + (IF n \in inFlight THEN 1 ELSE 0) + freed[n] = 1
      BY <2>3, <2>4
    <2> QED
      BY <2>5 DEF slots
  <1>2. CASE ~InSlot(n)
    <2>1. slots = {}
      BY <1>0, <1>2 DEF InSlot
    <2>2. Cardinality(slots) = 0
      BY <2>1, FS_EmptySet
    <2>3. (n \in inFlight /\ freed[n] = 0) \/ (n \notin inFlight /\ freed[n] = 1)
      BY <1>2 DEF BufferInv, OnePlace
    <2> HIDE DEF slots
    <2>4. Cardinality(slots) + (IF n \in inFlight THEN 1 ELSE 0) + freed[n] = 1
      BY <2>2, <2>3
    <2> QED
      BY <2>4 DEF slots
  <1> QED
    BY <1>1, <1>2

-----------------------------------------------------------------------------
(* Takion *)

\* Where the owner has not been told CONNECTED.
BeforeConnected == {"none", "refused", "initAck", "cookieAck", "secondCookieAck"}

\* CONNECTED comes before all else, DISCONNECTED last.
EventsKept ==
    /\ events \in [connected : BOOLEAN, disconnects : Nat]
    /\ thread \in T!Threads /\ afterFlush \in {"top", "draining"}
    /\ T!EventsFramed
    /\ thread \notin BeforeConnected \cup {"ended"} => events.connected

\* The data queue begins with the next number; what is before was given or skipped, and
\* only that was acknowledged.
QueueKept ==
    /\ next \in Nat /\ acked \in Int /\ acked < next
    /\ held = [n \in DOMAIN held |-> held[n]]
    /\ DOMAIN held \subseteq next .. next + QueueSize - 1
    /\ given \cup skipped = 0 .. next - 1 /\ given \cap skipped = {}

\* Every AV packet is given, refused or postponed, and none is postponed once the keys
\* are there.
AvKept ==
    /\ avGiven \in Seq(Nat) /\ postponed \in Seq(Nat) /\ avSent \in Nat
    /\ T!Range(avGiven) \cup T!Range(postponed) \cup avRefused = 1 .. avSent
    /\ postponed # << >> => enableCrypt
    /\ thread = "receiving" /\ crypt => postponed = << >>

\* The inductive invariant of Takion.
TakionInv == EventsKept /\ QueueKept /\ AvKept

\* What is used of the assumptions on Takion.
LEMMA TakionConstants == QueueSize \in Nat \ {0} /\ MaxTicks \in Nat
  BY MCTransportAssumption DEF T!TakionAssumption

\* No step gives the owner an event out of order.
LEMMA EventsStep ==
    ASSUME EventsKept, T!Next
    PROVE  EventsKept'
  <1> USE DEF EventsKept, T!EventsFramed, T!Threads, BeforeConnected, T!Goto
  <1>1. CASE T!Connect
    <2>1. /\ thread = "none" /\ thread' \in {"initAck", "refused"}
          /\ UNCHANGED <<events, given, avGiven, afterFlush>>
      BY <1>1 DEF T!Connect, T!queueVars, T!avVars
    <2> QED
      BY <2>1
  <1>2. CASE T!Close \/ T!RequestDrop \/ T!Tick
    <2>1. UNCHANGED <<thread, events, given, avGiven, afterFlush>>
      BY <1>2 DEF T!Close, T!RequestDrop, T!Tick, T!queueVars, T!avVars
    <2> QED
      BY <2>1
  <1>3. CASE T!HandshakeFails \/ T!ReceiveFails
    <2>1. /\ thread' = "ended" /\ thread # "ended" /\ UNCHANGED <<given, avGiven, afterFlush>>
          /\ events' = [events EXCEPT !.disconnects = @ + 1]
      BY <1>3 DEF T!HandshakeFails, T!ReceiveFails, T!End, T!Handshaking, T!avVars
    <2> QED
      BY <2>1
  <1>4. CASE T!InitAck \/ T!RepeatedInitAck
    <2>1. /\ thread \in {"initAck", "cookieAck"} /\ thread' \in {"cookieAck", "secondCookieAck"}
          /\ UNCHANGED <<events, given, avGiven, afterFlush>>
      BY <1>4 DEF T!InitAck, T!RepeatedInitAck, T!queueVars, T!avVars
    <2> QED
      BY <2>1
  <1>5. CASE T!CookieAck
    <2>1. /\ thread \in {"cookieAck", "secondCookieAck"} /\ thread' = "top"
          /\ events' = [events EXCEPT !.connected = TRUE]
          /\ UNCHANGED <<given, avGiven, afterFlush>>
      BY <1>5 DEF T!CookieAck, T!queueVars, T!avVars
    <2>2. events' \in [connected : BOOLEAN, disconnects : Nat] /\ events'.connected
          /\ events'.disconnects = events.disconnects
      BY <2>1
    <2> QED
      BY <2>1, <2>2
  <1>6. CASE T!LoopHead \/ T!Flush \/ T!Arrivals \/ T!DrainEnds
    <2>1. thread \notin BeforeConnected \cup {"ended"}
      BY <1>6 DEF T!LoopHead, T!Flush, T!Arrivals, T!DrainEnds, T!TakeDropRequest,
         T!CryptAppears, T!FlushPostponed, T!Pull, T!SkipGap, T!FlushEnds, T!ReceiveAv,
         T!ReceiveOther, T!ReceiveData, T!AtReceive
    <2>2. /\ thread' \in {"top", "recheck", "receiving", "draining", "flushing", "crashed"}
          /\ afterFlush' \in {"top", "draining"} /\ UNCHANGED events
      <3>1. CASE T!LoopHead \/ T!DrainEnds
        BY <3>1 DEF T!LoopHead, T!DrainEnds, T!TakeDropRequest, T!CryptAppears, T!FlushPostponed
      <3>2. CASE T!Flush
        BY <2>1, <3>2 DEF T!Flush, T!Pull, T!SkipGap, T!FlushEnds
      <3>3. CASE T!Arrivals
        BY <3>3 DEF T!Arrivals, T!ReceiveAv, T!ReceiveOther, T!ReceiveData, T!Drain
      <3> QED
        BY <1>6, <3>1, <3>2, <3>3
    <2> QED
      BY <2>1, <2>2
  <1> QED
    BY <1>1, <1>2, <1>3, <1>4, <1>5, <1>6 DEF T!Next, T!TakionThread, T!Handshake

\* The queue is full up to its head.
LEMMA HeadIsFree ==
    ASSUME QueueKept
    PROVE  /\ T!HeadOfQueue \in next .. next + QueueSize
           /\ \A k \in next .. T!HeadOfQueue - 1 : k \in DOMAIN held
  <1> USE TakionConstants DEF QueueKept
  <1> DEFINE free == {n \in next .. next + QueueSize : n \notin DOMAIN held}
  <1>1. next + QueueSize \in free
    OBVIOUS
  <1>2. free \in SUBSET Nat
    OBVIOUS
  <1>3. PICK n \in free : \A k \in free : n <= k
    <2> HIDE DEF free
    <2> QED
      BY <1>1, <1>2, Sub!LeastElement
  <1>4. n \in next .. next + QueueSize /\ n \notin DOMAIN held
        /\ \A k \in next .. n - 1 : k \in DOMAIN held
    <2>1. ASSUME NEW k \in next .. n - 1 PROVE k \in DOMAIN held
      <3>1. k \in next .. next + QueueSize /\ k < n
        BY <1>3, <2>1
      <3> QED
        BY <1>3, <3>1
    <2> QED
      BY <1>3, <2>1
  <1> QED
    BY <1>4 DEF T!HeadOfQueue

\* The first of the held numbers.
LEMMA FirstIsHeld ==
    ASSUME QueueKept, DOMAIN held # {}
    PROVE  T!FirstHeld \in DOMAIN held /\ \A n \in DOMAIN held : T!FirstHeld <= n
  <1> USE TakionConstants DEF QueueKept
  <1>1. DOMAIN held \in SUBSET Nat
    OBVIOUS
  <1>2. PICK n \in DOMAIN held : \A k \in DOMAIN held : n <= k
    BY <1>1, Sub!LeastElement
  <1> QED
    BY <1>2 DEF T!FirstHeld, T!Min

\* No step gives a message twice or acknowledges one that was not handled.
LEMMA QueueStep ==
    ASSUME QueueKept, T!Next
    PROVE  QueueKept'
  <1> USE TakionConstants DEF QueueKept, T!queueVars
  <1>1. CASE \/ T!Connect \/ T!Close \/ T!RequestDrop \/ T!InitAck \/ T!RepeatedInitAck
             \/ T!CookieAck \/ T!CryptAppears \/ T!FlushPostponed \/ T!ReceiveAv
             \/ T!ReceiveOther \/ T!DrainEnds
    <2>1. UNCHANGED <<next, held, acked, given, skipped>>
      BY <1>1 DEF T!Connect, T!Close, T!RequestDrop, T!InitAck, T!RepeatedInitAck,
         T!CookieAck, T!CryptAppears, T!FlushPostponed, T!ReceiveAv, T!ReceiveOther, T!DrainEnds
    <2> QED
      BY <2>1
  <1>2. CASE T!HandshakeFails \/ T!ReceiveFails
    <2>1. /\ UNCHANGED <<next, acked, given, skipped>> /\ DOMAIN held' = {}
          /\ held' = [n \in DOMAIN held' |-> held'[n]]
      BY <1>2 DEF T!HandshakeFails, T!ReceiveFails, T!End, T!Empty
    <2> QED
      BY <2>1
  <1>3. CASE T!Tick
    <2>1. /\ UNCHANGED <<next, acked, given, skipped>> /\ DOMAIN held' = DOMAIN held
          /\ held' = [n \in DOMAIN held' |-> held'[n]]
      BY <1>3 DEF T!Tick
    <2> QED
      BY <2>1
  <1>4. CASE T!TakeDropRequest
    <2>1. CASE UNCHANGED <<next, held, acked, given, skipped>>
      BY <2>1
    <2>2. CASE T!DropQueue
      <3> DEFINE head == T!HeadOfQueue
      <3>1. /\ next' = head /\ DOMAIN held' = {n \in DOMAIN held : n > head}
            /\ held' = [n \in DOMAIN held' |-> held'[n]]
            /\ given' = given \cup (next .. head - 1)
            /\ acked' = IF head > next THEN head - 1 ELSE acked
            /\ UNCHANGED skipped
        BY <2>2 DEF T!DropQueue, T!Restrict
      <3>2. head \in next .. next + QueueSize
        BY HeadIsFree
      <3> HIDE DEF head
      <3>3. next' \in Nat /\ acked' \in Int /\ acked' < next'
        BY <3>1, <3>2
      <3>4. DOMAIN held' \subseteq next' .. next' + QueueSize - 1
        BY <3>1, <3>2
      <3>5. given' \cup skipped' = 0 .. next' - 1
        BY <3>1, <3>2
      <3>6. given' \cap skipped' = {}
        BY <3>1, <3>2
      <3> QED
        BY <3>1, <3>3, <3>4, <3>5, <3>6
    <2> QED
      BY <1>4, <2>1, <2>2 DEF T!TakeDropRequest
  <1>5. ASSUME NEW n \in 0 .. MaxData - 1, T!ReceiveData(n)
        PROVE  QueueKept'
    <2>1. UNCHANGED <<next, acked, given, skipped>>
      BY <1>5 DEF T!ReceiveData
    <2>2. CASE n \in next .. next + QueueSize - 1 /\ n \notin DOMAIN held
      <3>1. held' = [k \in DOMAIN held \cup {n} |-> IF k = n THEN 0 ELSE held[k]]
        BY <1>5, <2>2 DEF T!ReceiveData
      <3>2. DOMAIN held' = DOMAIN held \cup {n} /\ held' = [k \in DOMAIN held' |-> held'[k]]
        BY <3>1
      <3> QED
        BY <2>1, <2>2, <3>2
    <2>3. CASE ~(n \in next .. next + QueueSize - 1 /\ n \notin DOMAIN held)
      <3>1. held' = held
        BY <1>5, <2>3 DEF T!ReceiveData
      <3> QED
        BY <2>1, <3>1
    <2> QED
      BY <2>2, <2>3
  <1>6. CASE T!Pull
    <2>1. /\ next \in DOMAIN held /\ DOMAIN held' = DOMAIN held \ {next}
          /\ held' = [n \in DOMAIN held' |-> held'[n]]
          /\ next' = next + 1 /\ given' = given \cup {next} /\ UNCHANGED <<acked, skipped>>
      BY <1>6 DEF T!Pull, T!Restrict
    <2>2. DOMAIN held' \subseteq next' .. next' + QueueSize - 1
      BY <2>1
    <2>3. given' \cup skipped' = 0 .. next' - 1 /\ given' \cap skipped' = {}
      BY <2>1
    <2> QED
      BY <2>1, <2>2, <2>3
  <1>7. CASE T!SkipGap
    <2> DEFINE first == T!FirstHeld
    <2>1. /\ next \notin DOMAIN held /\ held # T!Empty
          /\ next' = first /\ skipped' = skipped \cup (next .. first - 1)
          /\ UNCHANGED <<held, acked, given>>
      BY <1>7 DEF T!SkipGap, T!Gap
    <2>2. CASE DOMAIN held = {}
      <3>1. \E threshold \in 1 .. MaxTicks : held[first] > threshold
        BY <1>7 DEF T!SkipGap
      <3> QED
        BY <2>1, <2>2 DEF T!Empty
    <2>3. CASE DOMAIN held # {}
      <3>1. first \in DOMAIN held /\ \A n \in DOMAIN held : first <= n
        BY <2>3, FirstIsHeld
      <3> HIDE DEF first
      <3>2. first \in next .. next + QueueSize - 1
        BY <3>1
      <3>3. DOMAIN held' \subseteq next' .. next' + QueueSize - 1
        BY <2>1, <3>1, <3>2
      <3>4. given' \cup skipped' = 0 .. next' - 1
        BY <2>1, <3>2
      <3>5. given' \cap skipped' = {}
        BY <2>1, <3>2
      <3>6. next' \in Nat /\ acked' \in Int /\ acked' < next'
        BY <2>1, <3>2
      <3> QED
        BY <2>1, <3>3, <3>4, <3>5, <3>6
    <2> QED
      BY <2>2, <2>3
  <1>8. CASE T!FlushEnds
    <2>1. acked' = (IF pulled THEN next - 1 ELSE acked)
          /\ UNCHANGED <<next, held, given, skipped>>
      BY <1>8 DEF T!FlushEnds
    <2> QED
      BY <2>1
  <1> QED
    BY <1>1, <1>2, <1>3, <1>4, <1>5, <1>6, <1>7, <1>8
    DEF T!Next, T!TakionThread, T!Handshake, T!LoopHead, T!Flush, T!Arrivals

\* What sequences hold.
LEMMA RangeOfSequence ==
    ASSUME NEW a \in Seq(Nat), NEW b \in Seq(Nat), NEW x \in Nat
    PROVE  /\ T!Range(Append(a, x)) = T!Range(a) \cup {x}
           /\ T!Range(a \o b) = T!Range(a) \cup T!Range(b)
           /\ T!Range(<< >>) = {}
  <1>1. DOMAIN a = 1 .. Len(a) /\ DOMAIN b = 1 .. Len(b) /\ Len(a) \in Nat /\ Len(b) \in Nat
    OBVIOUS
  <1>2. T!Range(Append(a, x)) = T!Range(a) \cup {x}
    <2> DEFINE c == Append(a, x)
    <2>1. /\ DOMAIN c = 1 .. Len(a) + 1 /\ c[Len(a) + 1] = x
          /\ \A k \in 1 .. Len(a) : c[k] = a[k]
      OBVIOUS
    <2>2. 1 .. Len(a) + 1 = (1 .. Len(a)) \cup {Len(a) + 1}
      BY <1>1
    <2> HIDE DEF c
    <2>3. T!Range(c) = T!Range(a) \cup {x}
      <3>1. \A k \in 1 .. Len(a) : a[k] \in T!Range(c)
        BY <2>1, <2>2 DEF T!Range
      <3>2. x \in T!Range(c)
        BY <2>1, <2>2 DEF T!Range
      <3>3. \A k \in 1 .. Len(a) + 1 : c[k] \in T!Range(a) \cup {x}
        BY <1>1, <2>1, <2>2 DEF T!Range
      <3> QED
        BY <1>1, <2>1, <3>1, <3>2, <3>3 DEF T!Range
    <2> QED
      BY <2>3 DEF c
  <1>3. T!Range(a \o b) = T!Range(a) \cup T!Range(b)
    <2> DEFINE c == a \o b
    <2>1. /\ DOMAIN c = 1 .. Len(a) + Len(b)
          /\ \A k \in 1 .. Len(a) : c[k] = a[k]
          /\ \A k \in Len(a) + 1 .. Len(a) + Len(b) : c[k] = b[k - Len(a)]
      OBVIOUS
    <2> HIDE DEF c
    <2>2. \A k \in DOMAIN c : c[k] \in T!Range(a) \cup T!Range(b)
      <3> SUFFICES ASSUME NEW k \in DOMAIN c PROVE c[k] \in T!Range(a) \cup T!Range(b)
        OBVIOUS
      <3>1. CASE k <= Len(a)
        <4>1. k \in 1 .. Len(a)
          BY <1>1, <2>1, <3>1
        <4> QED
          BY <1>1, <2>1, <4>1 DEF T!Range
      <3>2. CASE ~(k <= Len(a))
        <4>1. k \in Len(a) + 1 .. Len(a) + Len(b) /\ k - Len(a) \in 1 .. Len(b)
          BY <1>1, <2>1, <3>2
        <4> QED
          BY <1>1, <2>1, <4>1 DEF T!Range
      <3> QED
        BY <3>1, <3>2
    <2>3. \A k \in 1 .. Len(a) : a[k] \in T!Range(c)
      <3>1. \A k \in 1 .. Len(a) : k \in DOMAIN c
        BY <1>1, <2>1
      <3> QED
        BY <2>1, <3>1 DEF T!Range
    <2>4. \A k \in 1 .. Len(b) : b[k] \in T!Range(c)
      <3> SUFFICES ASSUME NEW k \in 1 .. Len(b) PROVE b[k] \in T!Range(c)
        OBVIOUS
      <3>1. /\ k + Len(a) \in Len(a) + 1 .. Len(a) + Len(b) /\ k + Len(a) \in DOMAIN c
            /\ (k + Len(a)) - Len(a) = k
        BY <1>1, <2>1
      <3>2. c[k + Len(a)] = b[k]
        BY <2>1, <3>1
      <3> QED
        BY <3>1, <3>2 DEF T!Range
    <2>5. T!Range(c) = T!Range(a) \cup T!Range(b)
      BY <1>1, <2>2, <2>3, <2>4 DEF T!Range
    <2> QED
      BY <2>5 DEF c
  <1>4. T!Range(<< >>) = {}
    BY DEF T!Range
  <1> QED
    BY <1>2, <1>3, <1>4

\* No step leaves an AV packet behind.
LEMMA AvStep ==
    ASSUME EventsKept, AvKept, T!Next
    PROVE  AvKept'
  <1> USE DEF AvKept, T!avVars, T!Goto, T!ctlVars
  <1>0. enableCrypt' = enableCrypt
    BY DEF T!Next, T!TakionThread, T!Handshake, T!LoopHead, T!Flush, T!Arrivals, T!Connect,
       T!Close, T!RequestDrop, T!InitAck, T!RepeatedInitAck, T!CookieAck, T!HandshakeFails,
       T!ReceiveFails, T!End, T!TakeDropRequest, T!CryptAppears, T!FlushPostponed, T!Pull,
       T!SkipGap, T!FlushEnds, T!ReceiveAv, T!ReceiveOther, T!ReceiveData, T!DrainEnds, T!Tick
  <1>1. ASSUME UNCHANGED <<postponed, avSent, avGiven, avRefused>>,
               thread' = "receiving" => thread = "receiving" /\ crypt' = crypt
        PROVE  AvKept'
    BY <1>0, <1>1
  <1>2. CASE \/ T!Connect \/ T!Close \/ T!RequestDrop \/ T!InitAck \/ T!RepeatedInitAck
             \/ T!CookieAck \/ T!HandshakeFails \/ T!ReceiveFails \/ T!DrainEnds \/ T!Tick
             \/ T!TakeDropRequest \/ T!CryptAppears
    <2>1. UNCHANGED <<postponed, avSent, avGiven, avRefused>>
      BY <1>2 DEF T!Connect, T!Close, T!RequestDrop, T!InitAck, T!RepeatedInitAck,
         T!CookieAck, T!HandshakeFails, T!ReceiveFails, T!End, T!DrainEnds, T!Tick,
         T!TakeDropRequest, T!CryptAppears
    <2>2. thread' = "receiving" => thread = "receiving" /\ crypt' = crypt
      BY <1>2 DEF T!Connect, T!Close, T!RequestDrop, T!InitAck, T!RepeatedInitAck,
         T!CookieAck, T!HandshakeFails, T!ReceiveFails, T!End, T!DrainEnds, T!Tick,
         T!TakeDropRequest, T!CryptAppears
    <2> QED
      BY <1>1, <2>1, <2>2
  <1>3. CASE T!Pull \/ T!SkipGap \/ T!FlushEnds
    <2>1. UNCHANGED <<postponed, avSent, avGiven, avRefused>>
      BY <1>3 DEF T!Pull, T!SkipGap, T!FlushEnds
    <2>2. thread' # "receiving"
      BY <1>3 DEF T!Pull, T!SkipGap, T!FlushEnds, EventsKept
    <2> QED
      BY <1>1, <2>1, <2>2
  <1>4. CASE T!ReceiveOther \/ \E n \in 0 .. MaxData - 1 : T!ReceiveData(n)
    <2>1. UNCHANGED <<postponed, avSent, avGiven, avRefused>>
      BY <1>4 DEF T!ReceiveOther, T!ReceiveData
    <2>2. thread' # "receiving"
      BY <1>4 DEF T!ReceiveOther, T!ReceiveData, T!Drain
    <2> QED
      BY <1>1, <2>1, <2>2
  <1>5. CASE T!FlushPostponed
    <2>1. /\ thread' = "receiving" /\ UNCHANGED <<crypt, avSent, avRefused>>
          /\ \/ crypt /\ avGiven' = avGiven \o postponed /\ postponed' = << >>
             \/ ~crypt /\ UNCHANGED <<avGiven, postponed>>
      BY <1>5 DEF T!FlushPostponed
    <2>2. CASE crypt /\ avGiven' = avGiven \o postponed /\ postponed' = << >>
      <3>1. T!Range(avGiven') = T!Range(avGiven) \cup T!Range(postponed)
            /\ T!Range(postponed') = {}
        BY <2>2, RangeOfSequence
      <3>2. avGiven' \in Seq(Nat) /\ postponed' \in Seq(Nat)
        BY <2>2
      <3> QED
        BY <1>0, <2>1, <2>2, <3>1, <3>2
    <2>3. CASE ~crypt /\ UNCHANGED <<avGiven, postponed>>
      BY <1>0, <2>1, <2>3
    <2> QED
      BY <2>1, <2>2, <2>3
  <1>6. CASE T!ReceiveAv
    <2>1. avSent' = avSent + 1 /\ thread' # "receiving"
      BY <1>6 DEF T!ReceiveAv, T!Drain
    <2>2. 1 .. avSent' = (1 .. avSent) \cup {avSent'} /\ avSent' \in Nat
      BY <2>1
    <2>3. CASE avGiven' = Append(avGiven, avSent') /\ UNCHANGED <<postponed, avRefused>>
      <3>1. T!Range(avGiven') = T!Range(avGiven) \cup {avSent'}
        BY <2>2, <2>3, RangeOfSequence
      <3>2. avGiven' \in Seq(Nat)
        BY <2>2, <2>3
      <3> QED
        BY <1>0, <2>1, <2>2, <2>3, <3>1, <3>2
    <2>4. CASE /\ postponed' = Append(postponed, avSent') /\ UNCHANGED <<avGiven, avRefused>>
               /\ enableCrypt
      <3>1. T!Range(postponed') = T!Range(postponed) \cup {avSent'}
        BY <2>2, <2>4, RangeOfSequence
      <3>2. postponed' \in Seq(Nat)
        BY <2>2, <2>4
      <3> QED
        BY <1>0, <2>1, <2>2, <2>4, <3>1, <3>2
    <2>5. CASE avRefused' = avRefused \cup {avSent'} /\ UNCHANGED <<avGiven, postponed>>
      BY <1>0, <2>1, <2>2, <2>5
    <2> QED
      BY <1>6, <2>3, <2>4, <2>5 DEF T!ReceiveAv
  <1> QED
    BY <1>2, <1>3, <1>4, <1>5, <1>6
    DEF T!Next, T!TakionThread, T!Handshake, T!LoopHead, T!Flush, T!Arrivals

\* No step breaks the invariant ...
LEMMA TakionStep == TakionInv /\ T!Next => TakionInv'
  BY EventsStep, QueueStep, AvStep DEF TakionInv

\* ... which holds at first ...
LEMMA TakionInit == T!Init => TakionInv
  <1> SUFFICES ASSUME T!Init PROVE TakionInv
    OBVIOUS
  <1>1. EventsKept
    BY DEF T!Init, EventsKept, T!Threads, T!EventsFramed, BeforeConnected
  <1>2. QueueKept
    BY TakionConstants DEF T!Init, QueueKept, T!Empty
  <1>3. AvKept
    <2>1. T!Range(<< >>) = {} /\ << >> \in Seq(Nat)
      BY DEF T!Range
    <2> QED
      BY <2>1 DEF T!Init, AvKept
  <1> QED
    BY <1>1, <1>2, <1>3 DEF TakionInv

\* ... and while another component runs.
LEMMA TakionStutter == TakionInv /\ UNCHANGED takionVars => TakionInv'
  BY DEF takionVars, TakionInv, EventsKept, T!EventsFramed, QueueKept, AvKept

\* What the invariant says of the events, the acknowledgements and the AV packets.
LEMMA TakionPromise ==
    ASSUME TakionInv
    PROVE  T!EventsFramed /\ T!AckCoversOnlyHandled /\ T!NoAvLeftBehind
  <1>1. T!EventsFramed
    BY DEF TakionInv, EventsKept
  <1>2. T!AckCoversOnlyHandled
    BY DEF TakionInv, QueueKept, T!AckCoversOnlyHandled
  <1>3. T!NoAvLeftBehind
    <2>1. T!Range(<< >>) = {}
      BY DEF T!Range
    <2> QED
      BY <2>1 DEF TakionInv, AvKept, T!NoAvLeftBehind
  <1> QED
    BY <1>1, <1>2, <1>3

\* For every size of the queues and buffers: the owner is told CONNECTED before anything
\* else and DISCONNECT once and last, only what was handled is acknowledged, no AV
\* packet stays behind, an acknowledgement removes exactly what it covers, and each
\* message of the send buffer is freed once (takion.c, 490-1130; takionsendbuffer.c,
\* 90-260).
THEOREM TakionHandlesEverything == Spec => []TakionHandlesAll
  <1> DEFINE Inv == TakionInv /\ BufferInv /\ stale \in Nat
  <1>1. Init => Inv
    BY TakionInit, BufferInit DEF Init
  <1>2. Inv /\ [Next]_vars => Inv'
    BY BenchStep, TakionStep, TakionStutter, BufferStep, StaleType, BufferStutter
  <1>3. Inv => TakionHandlesAll
    BY TakionPromise, BufferPromise, AckRemovesWhatItCovers
    DEF TakionHandlesAll, B!BuffersExact
  <1> QED
    BY <1>1, <1>2, <1>3, PTL DEF Spec

-----------------------------------------------------------------------------
(* The measurement of the packet sizes *)

PhaseNames == {"connect", "version", "big", "echoOn", "ping", "echoOff", "mtuIn",
               "clientMtu", "mtuOut", "clientEnd"}

\* What the question under way is answered with, it is answered truly; without losses, one
\* that fits is answered.
AnswersTrue ==
    /\ tag \in Nat /\ lost \in Nat /\ finished \in BOOLEAN
    /\ \A a \in net : a.tag \in Nat /\ a.tag <= tag
    /\ M!Searching => state \in {"idle", IF phase = "mtuIn" THEN "mtu" ELSE "pong"}
    /\ state # "idle" =>
          /\ phase \in PhaseNames
          /\ \A a \in net : a.tag = tag => a.kind = state
          /\ M!Searching =>
                /\ search.max - search.min > 1
                /\ (finished \/ \E a \in net : a.tag = tag) => M!Fits
                /\ lost = 0 /\ M!Fits => finished \/ \E a \in net : a.tag = tag

\* The bracket of a search: its lower end passes; without losses, its upper end does not,
\* unless that is the end of the range.
Bracket(s, p) ==
    /\ DOMAIN s = {"min", "max", "cur", "attempt"}
    /\ s.min \in Nat /\ s.max \in Nat /\ s.cur \in Nat
    /\ Min <= s.min /\ s.min <= s.cur /\ s.cur <= s.max /\ s.max <= Max /\ s.min <= p
Narrow(s, p) == s.cur < s.max /\ p < s.max
Open(s) == s.cur < s.max /\ s.max = Max
AtTheEnd(s) == s.cur = Max /\ s.max = Max /\ s.min \in {Min, Max}

\* The sizes found and those to be found.
SizesTrue ==
    /\ DOMAIN path = {"in", "out"} /\ path.in \in Nat /\ path.out \in Nat
    /\ Min <= path.in /\ Min <= path.out
    /\ DOMAIN mtu = {"in", "out"} /\ mtu.in \in Nat /\ mtu.out \in Nat
    /\ phase \in PhaseNames \cup {"disconnect", "closed"}
    /\ phase \in {"clientMtu", "mtuOut"} => mtu.in \in Min .. Max
    /\ phase \in PhaseNames \ {"clientEnd"} => mtu.out = 0
    /\ phase = "mtuIn" =>
          /\ Bracket(search, path.in)
          /\ lost = 0 => Narrow(search, path.in) \/ AtTheEnd(search)
    /\ phase = "mtuOut" =>
          /\ Bracket(search, path.out)
          /\ lost = 0 =>
                \/ Narrow(search, path.out)
                \/ Open(search) /\ mtu.in < Max
                \/ AtTheEnd(search) /\ mtu.in = Max
    /\ M!MtuIsTrue

\* The inductive invariant of the measurement.
MeasureInv == AnswersTrue /\ SizesTrue

LEMMA MeasureConstants ==
    /\ Min \in Nat /\ Max \in Nat /\ Min > 0 /\ Min + 1 < Max /\ Retries \in Nat /\ Pings \in Nat
    /\ MaxLost \in Nat /\ Late \in Nat
    /\ \A n \in Paths : n \in Nat /\ n >= Min
  BY MCTransportAssumption DEF M!SenkushaAssumption

\* The phases follow each other.
LEMMA PhasesInOrder ==
    ASSUME NEW p
    PROVE  /\ p = "connect" => M!After(p) = "version"
           /\ p = "version" => M!After(p) = "big"
           /\ p = "big" => M!After(p) = "echoOn"
           /\ p = "echoOn" => M!After(p) = "ping"
           /\ p = "ping" => M!After(p) = "echoOff"
           /\ p = "echoOff" => M!After(p) = "mtuIn"
           /\ p = "mtuIn" => M!After(p) = "clientMtu"
           /\ p = "clientMtu" => M!After(p) = "mtuOut"
           /\ p = "mtuOut" => M!After(p) = "clientEnd"
  <1> DEFINE f == M!Phases
  <1>0. /\ f[1] = "connect" /\ f[2] = "version" /\ f[3] = "big" /\ f[4] = "echoOn"
        /\ f[5] = "ping" /\ f[6] = "echoOff" /\ f[7] = "mtuIn"
        /\ f[8] = "clientMtu" /\ f[9] = "mtuOut" /\ f[10] = "clientEnd"
    BY DEF M!Phases
  <1>1. M!After(p) = f[(CHOOSE i \in 1 .. 9 : f[i] = p) + 1]
    BY DEF M!After
  <1> HIDE DEF f
  <1>2. ASSUME NEW n \in 1 .. 9, f[n] = p, \A i \in 1 .. 9 : f[i] = p => i = n
        PROVE  M!After(p) = f[n + 1]
    <2>1. (CHOOSE i \in 1 .. 9 : f[i] = p) = n
      BY <1>2
    <2> QED
      BY <1>1, <2>1
  <1>3. CASE p = "connect"
    <2>1. f[1] = p /\ \A i \in 1 .. 9 : f[i] = p => i = 1
      BY <1>0, <1>3
    <2>2. M!After(p) = f[1 + 1]
      BY <1>2, <2>1
    <2> QED
      BY <1>0, <1>3, <2>2
  <1>4. CASE p = "version"
    <2>1. f[2] = p /\ \A i \in 1 .. 9 : f[i] = p => i = 2
      BY <1>0, <1>4
    <2>2. M!After(p) = f[2 + 1]
      BY <1>2, <2>1
    <2> QED
      BY <1>0, <1>4, <2>2
  <1>5. CASE p = "big"
    <2>1. f[3] = p /\ \A i \in 1 .. 9 : f[i] = p => i = 3
      BY <1>0, <1>5
    <2>2. M!After(p) = f[3 + 1]
      BY <1>2, <2>1
    <2> QED
      BY <1>0, <1>5, <2>2
  <1>6. CASE p = "echoOn"
    <2>1. f[4] = p /\ \A i \in 1 .. 9 : f[i] = p => i = 4
      BY <1>0, <1>6
    <2>2. M!After(p) = f[4 + 1]
      BY <1>2, <2>1
    <2> QED
      BY <1>0, <1>6, <2>2
  <1>7. CASE p = "ping"
    <2>1. f[5] = p /\ \A i \in 1 .. 9 : f[i] = p => i = 5
      BY <1>0, <1>7
    <2>2. M!After(p) = f[5 + 1]
      BY <1>2, <2>1
    <2> QED
      BY <1>0, <1>7, <2>2
  <1>8. CASE p = "echoOff"
    <2>1. f[6] = p /\ \A i \in 1 .. 9 : f[i] = p => i = 6
      BY <1>0, <1>8
    <2>2. M!After(p) = f[6 + 1]
      BY <1>2, <2>1
    <2> QED
      BY <1>0, <1>8, <2>2
  <1>9. CASE p = "mtuIn"
    <2>1. f[7] = p /\ \A i \in 1 .. 9 : f[i] = p => i = 7
      BY <1>0, <1>9
    <2>2. M!After(p) = f[7 + 1]
      BY <1>2, <2>1
    <2> QED
      BY <1>0, <1>9, <2>2
  <1>10. CASE p = "clientMtu"
    <2>1. f[8] = p /\ \A i \in 1 .. 9 : f[i] = p => i = 8
      BY <1>0, <1>10
    <2>2. M!After(p) = f[8 + 1]
      BY <1>2, <2>1
    <2> QED
      BY <1>0, <1>10, <2>2
  <1>11. CASE p = "mtuOut"
    <2>1. f[9] = p /\ \A i \in 1 .. 9 : f[i] = p => i = 9
      BY <1>0, <1>11
    <2>2. M!After(p) = f[9 + 1]
      BY <1>2, <2>1
    <2> QED
      BY <1>0, <1>11, <2>2
  <1> QED
    BY <1>3, <1>4, <1>5, <1>6, <1>7, <1>8, <1>9, <1>10, <1>11

\* What the searches expect.
LEMMA ExpectsOf ==
    /\ DOMAIN M!Expects = PhaseNames
    /\ phase = "mtuIn" => M!Expects[phase] = "mtu"
    /\ phase = "mtuOut" => M!Expects[phase] = "pong"
  <1> DEFINE f == M!Phases
  <1>0. /\ f[1] = "connect" /\ f[2] = "version" /\ f[3] = "big" /\ f[4] = "echoOn"
        /\ f[5] = "ping" /\ f[6] = "echoOff" /\ f[7] = "mtuIn"
        /\ f[8] = "clientMtu" /\ f[9] = "mtuOut" /\ f[10] = "clientEnd"
    BY DEF M!Phases
  <1>1. DOMAIN M!Expects = {f[i] : i \in 1 .. 10}
    BY DEF M!Expects
  <1> HIDE DEF f
  <1>2. {f[i] : i \in 1 .. 10} = PhaseNames
    BY <1>0 DEF PhaseNames
  <1>3. \A p \in PhaseNames :
            (p = "mtuIn" => M!Expects[p] = "mtu") /\ (p = "mtuOut" => M!Expects[p] = "pong")
    BY <1>1, <1>2 DEF M!Expects, f
  <1> QED
    BY <1>1, <1>2, <1>3 DEF PhaseNames

LEMMA MeasureInit == M!Init => MeasureInv
  <1> SUFFICES ASSUME M!Init PROVE MeasureInv
    OBVIOUS
  <1>1. path.in \in Nat /\ path.out \in Nat /\ Min <= path.in /\ Min <= path.out
        /\ DOMAIN path = {"in", "out"}
    BY MeasureConstants DEF M!Init
  <1>2. AnswersTrue
    BY DEF M!Init, AnswersTrue, M!Searching
  <1>3. SizesTrue
    BY <1>1, MeasureConstants DEF M!Init, SizesTrue, PhaseNames, M!MtuIsTrue
  <1> QED
    BY <1>2, <1>3 DEF MeasureInv

\* What is told about the sizes stays true while nothing but the losses changes.
LEMMA SizesStay ==
    ASSUME SizesTrue, phase' = phase, search' = search, mtu' = mtu, path' = path,
           lost \in Nat, lost' \in Nat,
           lost <= lost'
    PROVE  SizesTrue'
  <1>1. lost' = 0 => lost = 0
    OBVIOUS
  <1>2. M!MtuIsTrue'
    BY <1>1 DEF SizesTrue, M!MtuIsTrue, M!Least
  <1> QED
    BY <1>1, <1>2 DEF SizesTrue

LEMMA MeasureStutter == MeasureInv /\ UNCHANGED measureVars => MeasureInv'
  <1> SUFFICES ASSUME MeasureInv, UNCHANGED measureVars PROVE MeasureInv'
    OBVIOUS
  <1>1. UNCHANGED <<phase, state, finished, tag, search, mtu, net, path, lost>>
    BY DEF measureVars
  <1>2. AnswersTrue'
    BY <1>1 DEF MeasureInv, AnswersTrue, M!Searching, M!Fits
  <1>3. SizesTrue'
    BY <1>1, SizesStay DEF MeasureInv, AnswersTrue
  <1> QED
    BY <1>2, <1>3 DEF MeasureInv

\* A question is asked.
LEMMA AskStep == MeasureInv /\ M!Ask => MeasureInv'
  <1> SUFFICES ASSUME MeasureInv, M!Ask PROVE MeasureInv'
    OBVIOUS
  <1>1. PICK told \in BOOLEAN :
          /\ told => M!Fits
          /\ net' = {a \in net : a.tag + Late > tag} \cup
                    (IF told THEN {[kind |-> M!Expects[phase], tag |-> tag + 1]} ELSE {})
          /\ lost' = IF told \/ ~M!Fits THEN lost ELSE lost + 1
    BY DEF M!Ask
  <1>2. /\ phase \in PhaseNames /\ state = "idle" /\ state' = M!Expects[phase]
        /\ finished' = FALSE /\ tag' = tag + 1
        /\ phase' = phase /\ search' = search /\ mtu' = mtu /\ path' = path
        /\ M!Searching => search.max - search.min > 1
    BY ExpectsOf DEF M!Ask
  <1>3. (M!Fits <=> M!Fits') /\ (M!Searching <=> M!Searching')
    BY <1>2 DEF M!Fits, M!Searching
  <1>4. tag' \in Nat /\ lost' \in Nat /\ lost <= lost'
    BY <1>1, <1>2 DEF MeasureInv, AnswersTrue
  <1>5. \A a \in net' : \/ a \in net /\ a.tag \in Nat /\ a.tag <= tag
                        \/ told /\ a.tag = tag + 1 /\ a.kind = state'
    BY <1>1, <1>2 DEF MeasureInv, AnswersTrue
  <1>6. told => \E a \in net' : a.tag = tag'
    <2>1. ASSUME told PROVE [kind |-> M!Expects[phase], tag |-> tag + 1] \in net'
      BY <1>1, <2>1
    <2> QED
      BY <1>2, <2>1
  <1>7. AnswersTrue'
    <2>1. \A a \in net' : a.tag \in Nat /\ a.tag <= tag'
      BY <1>2, <1>4, <1>5 DEF MeasureInv, AnswersTrue
    <2>2. \A a \in net' : a.tag = tag' => a.kind = state' /\ told
      BY <1>2, <1>4, <1>5 DEF MeasureInv, AnswersTrue
    <2>3. M!Searching' => state' \in {"idle", IF phase' = "mtuIn" THEN "mtu" ELSE "pong"}
      BY <1>2, <1>3, ExpectsOf DEF M!Searching
    <2>4. lost' = 0 /\ M!Fits' => told
      <3>1. CASE M!Fits /\ ~told
        <4>1. lost' = lost + 1 /\ lost \in Nat
          BY <1>1, <3>1 DEF MeasureInv, AnswersTrue
        <4> QED
          BY <4>1
      <3> QED
        BY <1>3, <3>1
    <2> QED
      BY <1>1, <1>2, <1>3, <1>4, <1>6, <2>1, <2>2, <2>3, <2>4 DEF AnswersTrue
  <1>8. SizesTrue'
    BY <1>2, <1>4, SizesStay DEF MeasureInv, AnswersTrue
  <1> QED
    BY <1>7, <1>8 DEF MeasureInv

\* An answer comes.
LEMMA ArrivesStep == MeasureInv /\ M!Arrives => MeasureInv'
  <1> SUFFICES ASSUME MeasureInv, M!Arrives PROVE MeasureInv'
    OBVIOUS
  <1>1. PICK a \in net : /\ net' \in {net, net \ {a}}
                         /\ finished' = (finished \/ M!Taken(a))
    BY DEF M!Arrives
  <1>2. UNCHANGED <<phase, state, tag, search, pongs, mtu, err, path, lost>>
    BY DEF M!Arrives
  <1>3. (M!Fits <=> M!Fits') /\ (M!Searching <=> M!Searching')
    BY <1>2 DEF M!Fits, M!Searching
  <1>4. finished' \in BOOLEAN
    BY <1>1 DEF MeasureInv, AnswersTrue, M!Taken
  <1>5. ASSUME state # "idle", a.tag = tag PROVE finished'
    BY <1>1, <1>5 DEF MeasureInv, AnswersTrue, M!Taken
  <1>6. ASSUME state # "idle", M!Searching, M!Taken(a) PROVE a.tag = tag
    BY <1>6 DEF MeasureInv, AnswersTrue, M!Taken
  <1>7. AnswersTrue'
    <2>1. net' \subseteq net /\ (\A b \in net : b = a \/ b \in net')
      BY <1>1
    <2>2. ASSUME state # "idle", M!Searching, finished' \/ \E b \in net' : b.tag = tag
          PROVE  M!Fits
      BY <1>1, <1>6, <2>1, <2>2 DEF MeasureInv, AnswersTrue
    <2>3. ASSUME state # "idle", M!Searching, lost = 0, M!Fits
          PROVE  finished' \/ \E b \in net' : b.tag = tag
      BY <1>1, <1>5, <2>1, <2>3 DEF MeasureInv, AnswersTrue
    <2> QED
      BY <1>2, <1>3, <1>4, <2>1, <2>2, <2>3 DEF MeasureInv, AnswersTrue
  <1>8. SizesTrue'
    BY <1>2, SizesStay DEF MeasureInv, AnswersTrue
  <1> QED
    BY <1>7, <1>8 DEF MeasureInv

\* The next size of a search whose question was answered (ok), or not.
LEMMA Narrowing ==
    ASSUME NEW s, NEW p \in Nat, NEW ok \in BOOLEAN, NEW n,
           Bracket(s, p), s.max - s.min > 1, ok => s.cur <= p,
           DOMAIN n = {"min", "max", "cur", "attempt"},
           n.min = IF ok THEN s.cur ELSE s.min, n.max = IF ok THEN s.max ELSE s.cur,
           n.cur = n.min + (n.max - n.min) \div 2
    PROVE  /\ Bracket(n, p)
           /\ ok \/ p < s.cur =>
                 /\ Narrow(s, p) => Narrow(n, p)
                 /\ Open(s) => Narrow(n, p) \/ Open(n)
                 /\ AtTheEnd(s) => Narrow(n, p) \/ AtTheEnd(n)
  <1>1. /\ n.min \in Nat /\ n.max \in Nat /\ n.min <= n.max /\ n.min <= p
        /\ Min <= n.min /\ n.max <= Max
    <2> USE MeasureConstants DEF Bracket
    <2>1. CASE ok
      <3>1. n.min = s.cur /\ n.max = s.max
        BY <2>1
      <3> QED
        BY <2>1, <3>1
    <2>2. CASE ~ok
      <3>1. n.min = s.min /\ n.max = s.cur
        BY <2>2
      <3> QED
        BY <2>2, <3>1
    <2> QED
      BY <2>1, <2>2
  <1>2. PICK k \in Nat : k = (n.max - n.min) \div 2
    <2>1. n.max - n.min \in Nat
      BY <1>1
    <2> QED
      BY <2>1
  <1>3. k + k <= n.max - n.min
    BY <1>1, <1>2
  <1>4. n.cur = n.min + k /\ n.cur \in Nat
    BY <1>1, <1>2
  <1>5. Bracket(n, p)
    BY <1>1, <1>3, <1>4 DEF Bracket
  <1>6. ASSUME ok \/ p < s.cur, s.cur < s.max
        PROVE  n.cur < n.max /\ (ok => n.max = s.max) /\ (~ok => p < n.max)
    <2>1. n.min < n.max /\ (~ok => p < n.max)
      BY <1>6 DEF Bracket
    <2> QED
      BY <1>1, <1>3, <1>4, <2>1
  <1>7. ASSUME AtTheEnd(s), ok
        PROVE  AtTheEnd(n)
    <2>1. n.min = Max /\ n.max = Max
      BY <1>7 DEF AtTheEnd
    <2> QED
      BY <1>1, <1>3, <1>4, <2>1 DEF AtTheEnd
  <1>8. ASSUME AtTheEnd(s), ~ok, p < s.cur
        PROVE  Narrow(n, p)
    <2>1. n.min < n.max /\ p < n.max
      BY <1>8 DEF AtTheEnd, Bracket
    <2> QED
      BY <1>1, <1>3, <1>4, <2>1 DEF Narrow
  <1>9. ok => (Narrow(s, p) => p < s.max)
    BY DEF Narrow
  <1> QED
    BY <1>5, <1>6, <1>7, <1>8 DEF Narrow, Open

\* Who goes on to another phase that is not the search for the size to be sent leaves the
\* sizes as they are.
LEMMA GoesOn ==
    ASSUME SizesTrue, NEW to, M!Goes(to), to \in PhaseNames \cup {"disconnect", "closed"},
           phase \in PhaseNames \ {"mtuIn", "mtuOut"},
           mtu' = mtu, path' = path, lost \in Nat, lost' \in Nat, lost <= lost',
           to = "mtuOut" => phase = "clientMtu", to # "clientMtu",
           phase = "clientEnd" => to = "disconnect"
    PROVE  SizesTrue'
  <1>1. /\ phase' = to
        /\ to = "mtuIn" => search' = [M!NoProbe EXCEPT !.cur = Max]
        /\ to = "mtuOut" => search' = [M!NoProbe EXCEPT !.cur = mtu.in]
    BY DEF M!Goes
  <1>2. lost' = 0 => lost = 0
    OBVIOUS
  <1>3. M!MtuIsTrue'
    BY <1>2 DEF SizesTrue, M!MtuIsTrue, M!Least
  <1>4. ASSUME to = "mtuIn"
        PROVE  Bracket(search', path.in) /\ AtTheEnd(search')
    <2>1. /\ DOMAIN search' = {"min", "max", "cur", "attempt"}
          /\ search'.min = Min /\ search'.max = Max /\ search'.cur = Max
      <3>1. search' = [min |-> Min, max |-> Max, cur |-> Max, attempt |-> 0]
        BY <1>1, <1>4 DEF M!NoProbe
      <3> QED
        BY <3>1
    <2>2. path.in \in Nat /\ Min <= path.in
      BY DEF SizesTrue
    <2> QED
      BY <2>1, <2>2, MeasureConstants DEF Bracket, AtTheEnd
  <1>5. ASSUME to = "mtuOut"
        PROVE  /\ Bracket(search', path.out)
               /\ (Open(search') /\ mtu.in < Max) \/ (AtTheEnd(search') /\ mtu.in = Max)
    <2>1. mtu.in \in Min .. Max
      BY <1>5 DEF SizesTrue
    <2>2. /\ DOMAIN search' = {"min", "max", "cur", "attempt"}
          /\ search'.min = Min /\ search'.max = Max /\ search'.cur = mtu.in
      <3>1. PICK z : z = mtu.in
        OBVIOUS
      <3>2. search' = [min |-> Min, max |-> Max, cur |-> z, attempt |-> 0]
        BY <1>1, <1>5, <3>1 DEF M!NoProbe
      <3> QED
        BY <3>1, <3>2
    <2>3. path.out \in Nat /\ Min <= path.out
      BY DEF SizesTrue
    <2> QED
      BY <2>1, <2>2, <2>3, MeasureConstants DEF Bracket, Open, AtTheEnd
  <1>6. /\ phase' = to /\ path' = path /\ mtu' = mtu
        /\ to \in PhaseNames \ {"clientEnd"} => mtu.out = 0
        /\ to \in {"clientMtu", "mtuOut"} => mtu.in \in Min .. Max
    BY <1>1 DEF SizesTrue, PhaseNames
  <1> QED
    BY <1>2, <1>3, <1>4, <1>5, <1>6 DEF SizesTrue

\* A wait ends.
LEMMA WaitEndsStep == MeasureInv /\ M!WaitEnds => MeasureInv'
  <1> SUFFICES ASSUME MeasureInv, M!WaitEnds PROVE MeasureInv'
    OBVIOUS
  <1>1. /\ state # "idle" /\ state' = "idle" /\ UNCHANGED <<finished, tag, net, path>>
        /\ lost' = IF ~finished /\ (\E a \in net : a.tag = tag) THEN lost + 1 ELSE lost
    BY DEF M!WaitEnds
  <1>2. tag \in Nat /\ lost \in Nat /\ finished \in BOOLEAN /\ phase \in PhaseNames
    BY <1>1 DEF MeasureInv, AnswersTrue
  <1>3. lost' \in Nat /\ lost <= lost' /\ (lost' = 0 => lost = 0)
    BY <1>1, <1>2
  <1>4. ASSUME M!Searching, lost' = 0, ~finished
        PROVE  ~M!Fits
    <2>1. ~\E a \in net : a.tag = tag
      BY <1>1, <1>2, <1>4
    <2> QED
      BY <1>1, <1>3, <1>4, <2>1 DEF MeasureInv, AnswersTrue
  <1>5. M!Searching /\ finished => M!Fits
    BY <1>1 DEF MeasureInv, AnswersTrue
  <1>6. AnswersTrue'
    BY <1>1, <1>2, <1>3 DEF MeasureInv, AnswersTrue
  <1>7. CASE M!Searching
    <2>1. /\ UNCHANGED <<phase, mtu, path>>
          /\ search' = IF finished \/ search.attempt + 1 = Retries THEN M!Narrowed(finished)
                       ELSE [search EXCEPT !.attempt = @ + 1]
      <3>1. phase # "ping"
        BY <1>7 DEF M!Searching
      <3> QED
        BY <1>1, <1>7, <3>1 DEF M!WaitEnds
    <2>2. search.max - search.min > 1
      BY <1>1, <1>7 DEF MeasureInv, AnswersTrue
    <2>3. CASE search' = M!Narrowed(finished)
      <3>1. /\ DOMAIN search' = {"min", "max", "cur", "attempt"}
            /\ search'.min = IF finished THEN search.cur ELSE search.min
            /\ search'.max = IF finished THEN search.max ELSE search.cur
            /\ search'.cur = search'.min + (search'.max - search'.min) \div 2
        BY <2>3 DEF M!Narrowed
      <3>2. CASE phase = "mtuIn"
        <4>1. M!Fits <=> search.cur <= path.in
          BY <3>2 DEF M!Fits
        <4>2. path.in \in Nat /\ search.cur \in Nat /\ Bracket(search, path.in)
          BY <3>2 DEF MeasureInv, SizesTrue, Bracket
        <4>3. /\ Bracket(search', path.in)
              /\ finished \/ path.in < search.cur =>
                    /\ Narrow(search, path.in) => Narrow(search', path.in)
                    /\ AtTheEnd(search) => Narrow(search', path.in) \/ AtTheEnd(search')
          BY <1>2, <1>5, <1>7, <2>2, <3>1, <4>1, <4>2, Narrowing
        <4>4. lost' = 0 => finished \/ path.in < search.cur
          BY <1>4, <1>7, <4>1, <4>2
        <4>5. M!MtuIsTrue'
          BY <1>1, <1>3, <2>1 DEF MeasureInv, SizesTrue, M!MtuIsTrue, M!Least
        <4>6. SizesTrue'
          BY <1>1, <1>3, <2>1, <3>2, <4>3, <4>4, <4>5 DEF MeasureInv, SizesTrue
        <4> QED
          BY <1>6, <4>6 DEF MeasureInv
      <3>3. CASE phase = "mtuOut"
        <4>1. M!Fits <=> search.cur <= path.out
          BY <3>3 DEF M!Fits
        <4>2. path.out \in Nat /\ search.cur \in Nat /\ Bracket(search, path.out)
          BY <3>3 DEF MeasureInv, SizesTrue, Bracket
        <4>3. /\ Bracket(search', path.out)
              /\ finished \/ path.out < search.cur =>
                    /\ Narrow(search, path.out) => Narrow(search', path.out)
                    /\ Open(search) => Narrow(search', path.out) \/ Open(search')
                    /\ AtTheEnd(search) => Narrow(search', path.out) \/ AtTheEnd(search')
          BY <1>2, <1>5, <1>7, <2>2, <3>1, <4>1, <4>2, Narrowing
        <4>4. lost' = 0 => finished \/ path.out < search.cur
          BY <1>4, <1>7, <4>1, <4>2
        <4>5. M!MtuIsTrue'
          BY <1>1, <1>3, <2>1 DEF MeasureInv, SizesTrue, M!MtuIsTrue, M!Least
        <4>6. SizesTrue'
          BY <1>1, <1>3, <2>1, <3>3, <4>3, <4>4, <4>5 DEF MeasureInv, SizesTrue
        <4> QED
          BY <1>6, <4>6 DEF MeasureInv
      <3> QED
        BY <1>6, <1>7, <3>2, <3>3 DEF M!Searching, MeasureInv
    <2>4. CASE search' = [search EXCEPT !.attempt = @ + 1]
      <3>1. /\ Bracket(search, path.in) => Bracket(search', path.in)
            /\ Bracket(search, path.out) => Bracket(search', path.out)
        BY <2>4 DEF Bracket
      <3>2. ASSUME DOMAIN search = {"min", "max", "cur", "attempt"}
            PROVE search'.min = search.min /\ search'.max = search.max /\ search'.cur = search.cur
        BY <2>4, <3>2
      <3>3. M!Searching => DOMAIN search = {"min", "max", "cur", "attempt"}
        BY DEF M!Searching, MeasureInv, SizesTrue, Bracket
      <3> QED
        BY <1>3, <1>6, <1>7, <2>1, <3>1, <3>2, <3>3
        DEF MeasureInv, SizesTrue, M!MtuIsTrue, M!Least, Narrow, Open, AtTheEnd
    <2> QED
      BY <2>1, <2>3, <2>4
  <1>8. ASSUME ~M!Searching
        PROVE  SizesTrue'
    <2>1. PICK to : /\ M!Goes(to) /\ to \in PhaseNames \cup {"disconnect", "closed"}
                    /\ to = "mtuOut" => phase = "clientMtu"
                    /\ to # "clientMtu" /\ (phase = "clientEnd" => to = "disconnect")
      <3>1. CASE phase = "ping"
        <4>1. M!Goes(IF pongs.sent + 1 = Pings THEN "echoOff" ELSE "ping")
          BY <1>8, <3>1 DEF M!WaitEnds, M!Searching
        <4> QED
          BY <3>1, <4>1 DEF PhaseNames
      <3>2. CASE phase # "ping"
        <4>1. IF ~finished THEN M!Fails("timeout")
              ELSE IF phase = "echoOff" /\ pongs.ok = 0 THEN M!Fails("unknown")
              ELSE IF phase = "clientEnd" THEN err' = "success" /\ M!Goes("disconnect")
              ELSE M!Goes(M!After(phase)) /\ UNCHANGED err
          BY <1>8, <3>2 DEF M!WaitEnds
        <4>2. CASE M!Fails("timeout") \/ M!Fails("unknown")
          BY <4>2, <1>2 DEF M!Fails, PhaseNames
        <4>3. CASE phase = "clientEnd" /\ M!Goes("disconnect")
          BY <4>3
        <4>4. CASE phase # "clientEnd" /\ M!Goes(M!After(phase))
          <5>1. M!After(phase) \in PhaseNames /\ M!After(phase) # "clientMtu"
                /\ (M!After(phase) = "mtuOut" => phase = "clientMtu")
            BY <1>2, <1>8, <3>2, <4>4, PhasesInOrder DEF PhaseNames, M!Searching
          <5> QED
            BY <4>4, <5>1
        <4> QED
          BY <4>1, <4>2, <4>3, <4>4
      <3> QED
        BY <3>1, <3>2
    <2>2. mtu' = mtu
      <3>1. CASE phase = "ping"
        BY <1>8, <3>1 DEF M!WaitEnds
      <3>2. CASE phase # "ping"
        BY <1>8, <3>2 DEF M!WaitEnds
      <3> QED
        BY <3>1, <3>2
    <2> QED
      BY <1>1, <1>2, <1>3, <1>8, <2>1, <2>2, GoesOn DEF MeasureInv, M!Searching
  <1> QED
    BY <1>6, <1>7, <1>8 DEF MeasureInv

\* A search ends.
LEMMA SearchEndsStep == MeasureInv /\ M!SearchEnds => MeasureInv'
  <1> SUFFICES ASSUME MeasureInv, M!SearchEnds PROVE MeasureInv'
    OBVIOUS
  <1>1. /\ M!Searching /\ state = "idle" /\ search.max - search.min <= 1
        /\ UNCHANGED <<state, search, finished, tag, net, path, lost>>
        /\ mtu' = IF phase = "mtuIn" THEN [mtu EXCEPT !.in = search.min]
                  ELSE [mtu EXCEPT !.out = search.min]
        /\ phase' = M!After(phase)
    BY DEF M!SearchEnds
  <1>2. AnswersTrue'
    <2>1. ~M!Searching'
      BY <1>1, PhasesInOrder DEF M!Searching
    <2> QED
      BY <1>1, <2>1 DEF MeasureInv, AnswersTrue
  <1>3. /\ DOMAIN path = {"in", "out"} /\ path.in \in Nat /\ path.out \in Nat
        /\ Min <= path.in /\ Min <= path.out
        /\ DOMAIN mtu = {"in", "out"} /\ mtu.in \in Nat /\ mtu.out \in Nat /\ mtu.out = 0
    BY <1>1 DEF MeasureInv, SizesTrue, M!Searching, PhaseNames
  <1>4. CASE phase = "mtuIn"
    <2>1. /\ phase' = "clientMtu" /\ DOMAIN mtu' = {"in", "out"}
          /\ mtu'.in = search.min /\ mtu'.out = 0
      BY <1>1, <1>3, <1>4, PhasesInOrder
    <2>2. Bracket(search, path.in) /\ (lost = 0 => Narrow(search, path.in) \/ AtTheEnd(search))
      BY <1>4 DEF MeasureInv, SizesTrue
    <2>3. search.min \in Nat /\ search.min \in Min .. Max /\ search.min <= path.in
      BY <2>2, MeasureConstants DEF Bracket
    <2>4. lost = 0 => search.min = M!Least(path.in, Max)
      BY <1>1, <1>3, <2>2, MeasureConstants DEF Bracket, Narrow, AtTheEnd, M!Least
    <2>5. M!MtuIsTrue'
      BY <1>1, <1>3, <2>1, <2>3, <2>4 DEF M!MtuIsTrue, M!Least
    <2> QED
      BY <1>1, <1>2, <1>3, <2>1, <2>3, <2>5 DEF MeasureInv, SizesTrue, PhaseNames
  <1>5. CASE phase = "mtuOut"
    <2>1. /\ phase' = "clientEnd" /\ DOMAIN mtu' = {"in", "out"}
          /\ mtu'.in = mtu.in /\ mtu'.out = search.min
      BY <1>1, <1>3, <1>5, PhasesInOrder
    <2>2. /\ Bracket(search, path.out)
          /\ lost = 0 => \/ Narrow(search, path.out)
                         \/ Open(search) /\ mtu.in < Max
                         \/ AtTheEnd(search) /\ mtu.in = Max
      BY <1>5 DEF MeasureInv, SizesTrue
    <2>3. search.min \in Nat /\ search.min <= path.out
      BY <2>2, MeasureConstants DEF Bracket
    <2>4. lost = 0 => search.min = M!Least(path.out, IF mtu.in = Max THEN Max ELSE Max - 1)
      BY <1>1, <1>3, <2>2, MeasureConstants DEF Bracket, Narrow, AtTheEnd, Open, M!Least
    <2>5. M!MtuIsTrue'
      BY <1>1, <1>3, <2>1, <2>3, <2>4 DEF MeasureInv, SizesTrue, M!MtuIsTrue, M!Least
    <2> QED
      BY <1>1, <1>2, <1>3, <2>1, <2>3, <2>5 DEF MeasureInv, SizesTrue, PhaseNames
  <1> QED
    BY <1>1, <1>4, <1>5 DEF M!Searching

LEMMA MeasureStep == MeasureInv /\ M!Next => MeasureInv'
  <1>1. MeasureInv /\ M!Disconnect => MeasureInv'
    <2> SUFFICES ASSUME MeasureInv, M!Disconnect PROVE MeasureInv'
      OBVIOUS
    <2>1. /\ phase = "disconnect" /\ phase' = "closed"
          /\ UNCHANGED <<state, finished, tag, search, mtu, net, path, lost>>
      BY DEF M!Disconnect
    <2>2. AnswersTrue'
      BY <2>1 DEF MeasureInv, AnswersTrue, M!Searching, PhaseNames
    <2>3. SizesTrue'
      BY <2>1 DEF MeasureInv, SizesTrue, PhaseNames, M!MtuIsTrue, M!Least
    <2> QED
      BY <2>2, <2>3 DEF MeasureInv
  <1> QED
    BY <1>1, AskStep, ArrivesStep, WaitEndsStep, SearchEndsStep DEF M!Next

-----------------------------------------------------------------------------
(* The hole *)

\* The table of candidates, and what is open and asked at each stage of the probing.
ProbeInv ==
    /\ table \in Seq(H!Addresses) /\ H!TableFits
    /\ DOMAIN probe = {"at", "retries", "answered"} /\ DOMAIN hole = {"sel", "result"}
    /\ probe.at # "done" => hole.result = "none"
    /\ probe.at = "following" => open = {hole.sel.sock} /\ hole.sel.sock \in asked
    /\ H!HoleIsWhole

\* What is used of the assumptions on the probing.
LEMMA ProbeConstants == Known \in Nat \ {0} /\ Strangers \in Nat /\ Extra \in Nat
  BY MCTransportAssumption DEF H!ProbeAssumption

\* The probing begins so.
LEMMA ProbeInit == H!Init => ProbeInv
  <1> SUFFICES ASSUME H!Init PROVE ProbeInv
    OBVIOUS
  <1>1. table = [i \in 1 .. Known |-> i] /\ Len(table) = Known
    BY ProbeConstants DEF H!Init
  <1>2. \A i \in 1 .. Known : i \in H!Addresses
    BY ProbeConstants DEF H!Addresses
  <1>3. table \in Seq(H!Addresses)
    BY <1>1, <1>2, ProbeConstants
  <1>4. H!TableFits
    BY <1>1, ProbeConstants DEF H!TableFits, H!IsInjective
  <1>5. /\ probe = [at |-> "asking", retries |-> 0, answered |-> FALSE]
        /\ hole.result = "none" /\ DOMAIN hole = {"sel", "result"}
    BY DEF H!Init
  <1> QED
    BY <1>3, <1>4, <1>5 DEF ProbeInv, H!HoleIsWhole

\* A new candidate finds its place, once.
LEMMA Entered ==
    ASSUME table \in Seq(H!Addresses), H!TableFits, NEW a \in H!Addresses, H!Enter(a),
           H!InTable(a) \/ H!Room
    PROVE  table' \in Seq(H!Addresses) /\ H!TableFits'
  <1>1. CASE H!InTable(a)
    BY <1>1 DEF H!Enter, H!TableFits
  <1>2. CASE ~H!InTable(a)
    <2>1. /\ table' = Append(table, a) /\ Len(table) < Known + Extra
          /\ \A i \in 1 .. Len(table) : table[i] # a
      BY <1>2 DEF H!Enter, H!Room, H!InTable, H!ToSet
    <2>2. /\ table' \in Seq(H!Addresses) /\ Len(table') = Len(table) + 1
          /\ \A i \in 1 .. Len(table) : table'[i] = table[i]
          /\ table'[Len(table) + 1] = a /\ Len(table) \in Nat
      BY <2>1
    <2>3. DOMAIN table' = 1 .. Len(table) + 1 /\ DOMAIN table = 1 .. Len(table)
      BY <2>2
    <2>4. H!IsInjective(table)
      BY DEF H!TableFits
    <2>5. ASSUME NEW i \in 1 .. Len(table) + 1, NEW j \in 1 .. Len(table) + 1,
                 table'[i] = table'[j]
          PROVE  i = j
      BY <2>1, <2>2, <2>3, <2>4, <2>5 DEF H!IsInjective
    <2>6. H!IsInjective(table')
      BY <2>3, <2>5 DEF H!IsInjective
    <2> QED
      BY <2>1, <2>2, <2>6, ProbeConstants DEF H!TableFits
  <1> QED
    BY <1>1, <1>2

\* Who gives up closes everything.
LEMMA GivenUp ==
    ASSUME ProbeInv, H!Fail, table' \in Seq(H!Addresses), H!TableFits'
    PROVE  ProbeInv'
  BY DEF ProbeInv, H!Fail, H!HoleIsWhole

\* No step makes a hole of what is none, as long as an answer to a derived candidate can
\* be sent.
LEMMA ProbeStep == ProbeFails = FALSE /\ ProbeInv /\ H!Next => ProbeInv'
  <1> SUFFICES ASSUME ProbeFails = FALSE, ProbeInv, H!Next PROVE ProbeInv'
    OBVIOUS
  <1>0. /\ table \in Seq(H!Addresses) /\ H!TableFits
        /\ table' = table => table' \in Seq(H!Addresses) /\ H!TableFits'
    BY DEF ProbeInv, H!TableFits
  <1>1. CASE H!AskAll
    <2>1. CASE H!Fail
      BY <1>0, <1>1, <2>1, GivenUp DEF H!AskAll
    <2>2. CASE ~H!Fail
      <3>1. /\ probe.at = "asking" /\ probe' = [probe EXCEPT !.at = "listening"]
            /\ hole' = hole /\ table' = table
        BY <1>1, <2>2 DEF H!AskAll
      <3> QED
        BY <1>0, <3>1 DEF ProbeInv, H!HoleIsWhole
    <2> QED
      BY <2>1, <2>2
  <1>2. CASE H!NoSockets
    BY <1>0, <1>2, GivenUp DEF H!NoSockets
  <1>3. CASE H!Silence
    <2>1. CASE H!Fail
      BY <1>0, <1>3, <2>1, GivenUp DEF H!Silence
    <2>2. CASE ~H!Fail
      <3>1. /\ probe.at = "listening" /\ probe' = [probe EXCEPT !.retries = @ + 1]
            /\ hole' = hole /\ table' = table
        BY <1>3, <2>2 DEF H!Silence
      <3> QED
        BY <1>0, <3>1 DEF ProbeInv, H!HoleIsWhole
    <2> QED
      BY <2>1, <2>2
  <1>4. CASE H!FollowSilence
    <2>1. CASE H!Fail
      BY <1>0, <1>4, <2>1, GivenUp DEF H!FollowSilence
    <2>2. CASE ~H!Fail
      <3>1. /\ probe.at = "following" /\ probe' = [probe EXCEPT !.at = "done"]
            /\ probe.retries > 0 \/ probe.answered
            /\ hole' = [hole EXCEPT !.result = "success"]
            /\ open' = open /\ asked' = asked /\ table' = table
        BY <1>4, <2>2 DEF H!FollowSilence
      <3> QED
        BY <1>0, <3>1 DEF ProbeInv, H!HoleIsWhole
    <2> QED
      BY <2>1, <2>2
  <1>5. ASSUME NEW a \in H!Addresses, NEW s \in H!Ears(a), H!Heard(s, a), H!Enter(a)
        PROVE  /\ table' \in Seq(H!Addresses) /\ H!TableFits'
               /\ probe.at = "listening"
    BY <1>0, <1>5, Entered DEF H!Heard
  <1>6. ASSUME NEW a \in H!Addresses, NEW s \in H!Ears(a), H!GotRequest(s, a)
        PROVE  ProbeInv'
    <2>1. H!Heard(s, a) /\ H!Enter(a)
      BY <1>6 DEF H!GotRequest
    <2>2. table' \in Seq(H!Addresses) /\ H!TableFits' /\ probe.at = "listening"
      BY <1>5, <2>1
    <2>3. CASE H!Fail
      BY <2>2, <2>3, GivenUp
    <2>4. CASE ~H!Fail
      <3>1. probe' = [probe EXCEPT !.answered = TRUE] /\ hole' = hole
        BY <1>6, <2>4 DEF H!GotRequest
      <3> QED
        BY <2>2, <3>1 DEF ProbeInv, H!HoleIsWhole
    <2> QED
      BY <2>3, <2>4
  <1>7. ASSUME NEW a \in H!Addresses, NEW s \in H!Ears(a), NEW fatal, H!GotOther(s, a, fatal)
        PROVE  ProbeInv'
    <2>1. H!Heard(s, a) /\ H!Enter(a)
      BY <1>7 DEF H!GotOther
    <2>2. table' \in Seq(H!Addresses) /\ H!TableFits' /\ probe.at = "listening"
      BY <1>5, <2>1
    <2>3. CASE H!Fail
      BY <2>2, <2>3, GivenUp
    <2>4. CASE ~H!Fail
      <3>1. probe' = probe /\ hole' = hole /\ open' = open
        BY <1>7, <2>4 DEF H!GotOther
      <3> QED
        BY <2>2, <3>1 DEF ProbeInv, H!HoleIsWhole
    <2> QED
      BY <2>3, <2>4
  <1>8. ASSUME NEW a \in H!Addresses, NEW s \in H!Ears(a), H!GotAnswer(s, a)
        PROVE  ProbeInv'
    <2>1. H!Heard(s, a) /\ H!Enter(a)
      BY <1>8 DEF H!GotAnswer
    <2>2. table' \in Seq(H!Addresses) /\ H!TableFits' /\ probe.at = "listening"
      BY <1>5, <2>1
    <2>3. CASE H!Fail
      BY <2>2, <2>3, GivenUp
    <2>4. CASE ~H!Fail
      <3>1. /\ hole' = [hole EXCEPT !.sel = [sock |-> s, to |-> a]]
            /\ open' = {s} /\ s \in asked /\ asked' = asked
            /\ probe' = [probe EXCEPT !.at = "following", !.retries = 0]
        BY <1>8, <2>4 DEF H!GotAnswer, H!Chosen
      <3>2. hole'.sel.sock = s /\ hole'.result = "none" /\ DOMAIN hole' = {"sel", "result"}
        BY <2>2, <3>1 DEF ProbeInv
      <3>3. probe'.at = "following" /\ DOMAIN probe' = {"at", "retries", "answered"}
        BY <3>1 DEF ProbeInv
      <3> QED
        BY <2>2, <3>1, <3>2, <3>3 DEF ProbeInv, H!HoleIsWhole
    <2> QED
      BY <2>3, <2>4
  <1>9. ASSUME NEW a \in H!Addresses, NEW s \in H!Ears(a), H!NotHeard(s, a)
        PROVE  ProbeInv'
    <2>1. UNCHANGED <<probe, table, open, asked, hole>>
      BY <1>9 DEF H!NotHeard
    <2> QED
      BY <1>0, <2>1 DEF ProbeInv, H!HoleIsWhole
  <1>10. ASSUME NEW s \in H!CrowdSocks, H!TtlFails(s)
         PROVE  ProbeInv'
    BY <1>0, <1>10, GivenUp DEF H!TtlFails
  <1>11. CASE H!FollowRequest
    <2>1. CASE H!Fail
      BY <1>0, <1>11, <2>1, GivenUp DEF H!FollowRequest
    <2>2. CASE ~H!Fail
      <3>1. /\ probe.at = "following" /\ probe' = [probe EXCEPT !.retries = 1]
            /\ hole' = hole /\ open' = open /\ asked' = asked /\ table' = table
        BY <1>11, <2>2 DEF H!FollowRequest
      <3> QED
        BY <1>0, <3>1 DEF ProbeInv, H!HoleIsWhole
    <2> QED
      BY <2>1, <2>2
  <1>12. CASE H!FollowOther
    <2>1. CASE H!Fail
      BY <1>0, <1>12, <2>1, GivenUp DEF H!FollowOther
    <2>2. CASE ~H!Fail
      <3>1. UNCHANGED <<probe, table, open, asked, hole>>
        BY <1>12, <2>2 DEF H!FollowOther
      <3> QED
        BY <1>0, <3>1 DEF ProbeInv, H!HoleIsWhole
    <2> QED
      BY <2>1, <2>2
  <1> QED
    BY <1>1, <1>2, <1>3, <1>4, <1>6, <1>7, <1>8, <1>9, <1>10, <1>11, <1>12
       DEF H!Next, H!Probes, H!Datagram

LEMMA ProbeStutter ==
    ASSUME ProbeInv, UNCHANGED holeVars
    PROVE  ProbeInv'
  BY DEF ProbeInv, holeVars, H!TableFits, H!HoleIsWhole

-----------------------------------------------------------------------------
(* The guesses of the next port *)

\* The function that N!Ahead is defined by.
IsAhead(f, follow, p) ==
    f = [n \in 0 .. Guesses |-> IF n = 0 THEN p ELSE follow[f[n - 1]]]

\* What is used of the assumptions on the ports.
LEMMA PortConstants ==
    /\ Ports \in Nat /\ LowPort \in Nat \ {0} /\ LowPort < Ports - 1
    /\ Guesses \in Nat \ {0} /\ N!Last16 = Ports - 1
    /\ \A s \in Steps : s \in Nat /\ s <= (Ports - 1) - LowPort
  BY MCTransportAssumption DEF N!StunAssumption, N!Last16

\* It exists ...
LEMMA AheadExists ==
    ASSUME NEW follow, NEW p
    PROVE  \E f : IsAhead(f, follow, p)
  <1> DEFINE S == {m \in Nat : \E f :
                           f = [i \in 0 .. m |-> IF i = 0 THEN p ELSE follow[f[i - 1]]]}
  <1>1. 0 \in S
    <2> DEFINE e == [i \in 0 .. 0 |-> p]
               h == [i \in 0 .. 0 |-> IF i = 0 THEN p ELSE follow[e[i - 1]]]
    <2>1. \A i \in 0 .. 0 : i = 0
      OBVIOUS
    <2>2. e = h
      BY <2>1
    <2> HIDE DEF e
    <2> QED
      BY <2>2
  <1>2. ASSUME NEW m \in Nat, m \in S
        PROVE  m + 1 \in S
    <2>1. PICK f : f = [i \in 0 .. m |-> IF i = 0 THEN p ELSE follow[f[i - 1]]]
      BY <1>2
    <2> DEFINE new == follow[f[m]]
               e == [i \in 0 .. m + 1 |-> IF i = m + 1 THEN new ELSE f[i]]
               h == [i \in 0 .. m + 1 |-> IF i = 0 THEN p ELSE follow[e[i - 1]]]
    <2>2. \A i \in 0 .. m : f[i] = IF i = 0 THEN p ELSE follow[f[i - 1]]
      BY <2>1
    <2>3. ASSUME NEW i \in 0 .. m + 1
          PROVE  e[i] = h[i]
      <3>1. CASE i = 0
        BY <2>2, <3>1
      <3>2. CASE i = m + 1
        <4>1. e[i - 1] = f[m]
          BY <3>2
        <4> QED
          BY <3>2, <4>1
      <3>3. CASE i # 0 /\ i # m + 1
        <4>1. i - 1 \in 0 .. m /\ i \in 0 .. m
          BY <3>3
        <4>2. e[i - 1] = f[i - 1] /\ e[i] = f[i]
          BY <4>1, <3>3
        <4> QED
          BY <4>1, <4>2, <2>2, <3>3
      <3> QED
        BY <3>1, <3>2, <3>3
    <2>4. e = h
      <3> HIDE DEF new
      <3>1. e = [i \in 0 .. m + 1 |-> e[i]] /\ h = [i \in 0 .. m + 1 |-> h[i]]
        OBVIOUS
      <3> HIDE DEF e, h
      <3> QED
        BY <3>1, <2>3
    <2>5. m + 1 \in Nat /\ e = [i \in 0 .. m + 1 |-> IF i = 0 THEN p ELSE follow[e[i - 1]]]
      BY <2>4
    <2> HIDE DEF e
    <2> QED
      BY <2>5
  <1> HIDE DEF S
  <1>3. Guesses \in S
    <2>1. S \in SUBSET Nat
      BY DEF S
    <2> QED
      BY <1>1, <1>2, <2>1, Sub!Induction, PortConstants
  <1> QED
    BY <1>3 DEF S, IsAhead

\* ... so that Ahead goes from port to port.
LEMMA AheadOf ==
    ASSUME NEW follow, NEW p
    PROVE  /\ N!Ahead(follow, p)[0] = p
           /\ \A n \in 0 .. Guesses - 1 :
                  N!Ahead(follow, p)[n + 1] = follow[N!Ahead(follow, p)[n]]
  <1> DEFINE f == CHOOSE g : IsAhead(g, follow, p)
  <1>1. IsAhead(f, follow, p)
    BY AheadExists
  <1>2. N!Ahead(follow, p) = f
    BY DEF N!Ahead, IsAhead
  <1> HIDE DEF f
  <1>3. ASSUME NEW n \in 0 .. Guesses
        PROVE  f[n] = IF n = 0 THEN p ELSE follow[f[n - 1]]
    BY <1>1 DEF IsAhead
  <1>4. f[0] = p
    BY <1>3, PortConstants
  <1>5. ASSUME NEW n \in 0 .. Guesses - 1
        PROVE  f[n + 1] = follow[f[n]]
    <2> DEFINE u == n + 1
    <2>1. u \in 0 .. Guesses /\ u # 0 /\ u - 1 = n
      BY PortConstants
    <2> HIDE DEF u
    <2>2. f[u] = follow[f[u - 1]]
      BY <1>3, <2>1
    <2> QED
      BY <2>1, <2>2 DEF u
  <1> QED
    BY <1>2, <1>4, <1>5

\* The ports a NAT gives, beyond the well-known ones.
Given == LowPort + 1 .. N!Last16

\* It stays among them, and the offer counts as it does.
LEMMA NextPort ==
    ASSUME NEW s \in Steps, NEW p \in Given
    PROVE  /\ N!After(p, s) \in Given
           /\ N!Checked(s)[p] = N!After(p, s)
           /\ s = 0 => N!After(p, s) = p
  <1>1. /\ s \in Nat /\ s <= N!Last16 - LowPort /\ p \in Int /\ LowPort + 1 <= p /\ p <= N!Last16
        /\ N!Last16 \in Nat /\ LowPort \in Nat /\ LowPort > 0
    BY PortConstants DEF Given
  <1>2. CASE p + s > N!Last16
    <2>1. N!After(p, s) = (p + s - N!Last16) + LowPort
      BY <1>2 DEF N!After
    <2>2. N!Checked(s)[p] = (p + s - N!Last16) + LowPort
      BY <1>1, <1>2 DEF N!Checked
    <2> QED
      BY <1>1, <1>2, <2>1, <2>2 DEF Given
  <1>3. CASE ~(p + s > N!Last16)
    <2>1. N!After(p, s) = p + s
      BY <1>3 DEF N!After
    <2>2. N!Checked(s)[p] = p + s
      BY <1>1, <1>3 DEF N!Checked
    <2> QED
      BY <1>1, <1>3, <2>1, <2>2 DEF Given
  <1> QED
    BY <1>2, <1>3

\* A port modulo their number is the port.
LEMMA PortOfPort ==
    ASSUME NEW p \in 0 .. N!Last16
    PROVE  p % Ports = p
  <1>1. p \in 0 .. Ports - 1 /\ Ports > 0 /\ Ports \in Nat
    BY PortConstants
  <1>2. (Ports * 0 + p) % Ports = p
    BY <1>1, Num!RemainderUnique
  <1> QED
    BY <1>1, <1>2

-----------------------------------------------------------------------------
\* The NAT has gone on from port p, as far as others took ports since.
Gone(p) ==
    /\ nat.step = 0 => nat.next = p
    /\ nat.taken + 1 <= Guesses => nat.next = N!Ahead(N!Checked(nat.step), p)[nat.taken + 1]

\* What is offered when the last port known is p.
Offered(follow, p) == IF nat.step = 0 THEN {p} ELSE N!Following(follow, p)

\* What the servers saw.
Seen == [addr : 1 .. Homes, port : Given, regular : BOOLEAN]
RepliesTrue ==
    /\ replies \in Seq(Seen)
    /\ \A k \in 2 .. Len(replies) :
           replies[k].regular => replies[k].port = replies[k - 1].port + nat.step

\* The inductive invariant of the guesses: how far the NAT has gone from the last port that
\* is known, and that the offer goes as far.
PortsInv ==
    /\ DOMAIN nat = {"next", "step", "taken"} /\ nat.next \in Given /\ nat.step \in Steps
    /\ nat.taken \in Nat
    /\ DOMAIN offer = {"made", "ports", "step", "random"}
    /\ offer.made \in {"none", "ctrl", "data"}
    /\ RepliesTrue
    /\ Len(replies) = 4 /\ offer.made # "data" => Gone(replies[4].port)
    /\ offer.made = "ctrl" /\ N!Telling =>
           /\ offer.step = nat.step
           /\ offer.ports = Offered(N!Checked(nat.step), replies[4].port)
    /\ offer.made = "data" /\ N!Telling =>
           \E p \in Given : Gone(p) /\ offer.ports = Offered(N!SentPort(nat.step), p)

\* An answer is one of the sequence.
LEMMA AnswerOf ==
    ASSUME NEW s, s \in Seq(Seen)
    PROVE  /\ Len(s) \in Nat /\ DOMAIN s = 1 .. Len(s)
           /\ \A k \in 1 .. Len(s) : s[k] \in Seen
  OBVIOUS

LEMMA FourthPort == RepliesTrue /\ Len(replies) = 4 => replies[4].port \in Given
  <1> SUFFICES ASSUME RepliesTrue, Len(replies) = 4 PROVE replies[4].port \in Given
    OBVIOUS
  <1>1. \A k \in 1 .. Len(replies) : replies[k] \in Seen
    BY AnswerOf DEF RepliesTrue
  <1>2. replies[4] \in Seen
    BY <1>1
  <1> QED
    BY <1>2 DEF Seen

\* When the NAT was disturbed once at most, two steps of three are its own.
LEMMA TwoOfThree ==
    ASSUME RepliesTrue, nat.step \in Steps, N!Telling
    PROVE  /\ N!Tested.found = [step |-> nat.step, random |-> FALSE]
           /\ N!Tested.port = replies[4].port
  <1> DEFINE s == nat.step
             d(k) == N!Diff16(replies[k].port, replies[k - 1].port)
  <1>1. /\ Len(replies) = 4 /\ DOMAIN replies = 1 .. 4
        /\ \A j, k \in 1 .. 4 : replies[j].addr = replies[k].addr
        /\ \A k \in 1 .. 4 : replies[k] \in [addr : 1 .. Homes, port : Given, regular : BOOLEAN]
    <2>1. Len(replies) = 4 /\ replies \in Seq(Seen)
      BY DEF RepliesTrue, N!Telling
    <2>2. DOMAIN replies = 1 .. 4 /\ \A k \in 1 .. 4 : replies[k] \in Seen
      BY <2>1, AnswerOf
    <2>3. \A j, k \in 1 .. 4 : replies[j].addr = replies[k].addr
      BY <2>2 DEF N!Telling, N!OneHome, N!Addr
    <2> QED
      BY <2>1, <2>2, <2>3 DEF Seen
  <1>2. ASSUME NEW k \in 2 .. 4, replies[k].regular
        PROVE  d(k) = s
    <2> DEFINE a == replies[k - 1].port
    <2>1. replies[k].port = a + s
      BY <1>1, <1>2 DEF RepliesTrue
    <2>2. a \in Int /\ s \in 0 .. N!Last16 /\ s \in Nat
      <3>1. k - 1 \in 1 .. 4
        OBVIOUS
      <3>2. a \in Given
        BY <1>1, <3>1
      <3>3. s \in Nat /\ s <= (Ports - 1) - LowPort
        BY PortConstants
      <3> QED
        BY <3>2, <3>3, PortConstants DEF Given
    <2> HIDE DEF s, a
    <2>3. (a + s) - a = s
      BY <2>2
    <2>4. d(k) = ((a + s) - a) % Ports
      BY <2>1 DEF N!Diff16, a
    <2> QED
      BY <2>2, <2>3, <2>4, PortOfPort
  <1>3. ASSUME NEW j \in 1 .. 4, NEW k \in 1 .. 4, ~replies[j].regular, ~replies[k].regular
        PROVE  j = k
    BY <1>1, <1>3 DEF N!Telling, N!Disturbed
  <1> HIDE DEF s
  <1>4. N!FourAlike = [step |-> s, random |-> FALSE]
    <2>1. /\ d(2) = N!Diff16(N!Port(2), N!Port(1))
          /\ d(3) = N!Diff16(N!Port(3), N!Port(2))
          /\ d(4) = N!Diff16(N!Port(4), N!Port(3))
      BY DEF N!Port
    <2>2. \/ d(2) = s /\ d(3) = s
          \/ d(2) = s /\ d(4) = s
          \/ d(3) = s /\ d(4) = s
      BY <1>2, <1>3
    <2>3. N!FourAlike =
            IF d(2) \in {d(3), d(4)} THEN N!Found(d(2), FALSE)
            ELSE IF d(3) = d(4) THEN N!Found(d(3), FALSE)
            ELSE N!Found(d(2), TRUE)
      BY <2>1 DEF N!FourAlike
    <2> HIDE DEF d
    <2>4. N!FourAlike = N!Found(s, FALSE)
      BY <2>2, <2>3
    <2> QED
      BY <2>4 DEF N!Found
  <1>5. N!Addr(1) = N!Addr(2) /\ N!Addr(2) = N!Addr(3) /\ N!Addr(3) = N!Addr(4)
    BY <1>1 DEF N!Addr
  <1>6. N!Four = N!FourAlike
    BY <1>5 DEF N!Four
  <1>7. N!Tested = [found |-> N!Four, port |-> N!Port(4)]
    BY <1>1 DEF N!Tested
  <1> QED
    BY <1>4, <1>6, <1>7 DEF N!Port, s

\* The port that comes is among those that are offered.
LEMMA Reached ==
    ASSUME PortsInv, NEW p \in Given, Gone(p), nat.taken + 1 <= Guesses
    PROVE  /\ nat.next \in Offered(N!Checked(nat.step), p)
           /\ (\A q \in Offered(N!SentPort(nat.step), p) : q > LowPort + nat.step)
                  => nat.next \in Offered(N!SentPort(nat.step), p)
  <1> DEFINE s == nat.step
             a == N!Ahead(N!Checked(s), p)
             b == N!Ahead(N!SentPort(s), p)
             m == nat.taken + 1
  <1>1. /\ s \in Steps /\ s \in Nat /\ m \in 1 .. Guesses /\ nat.next = a[m] /\ nat.next \in Given
        /\ s = 0 => nat.next = p
    BY PortConstants DEF PortsInv, Gone
  <1>2. /\ a[0] = p /\ \A n \in 0 .. Guesses - 1 : a[n + 1] = N!Checked(s)[a[n]]
        /\ b[0] = p /\ \A n \in 0 .. Guesses - 1 : b[n + 1] = N!SentPort(s)[b[n]]
    BY AheadOf
  <1>3. nat.next % Ports = nat.next
    BY <1>1, PortOfPort, PortConstants DEF Given
  <1>4. N!Following(N!Checked(s), p) = {a[n] % Ports : n \in 1 .. Guesses}
        /\ N!Following(N!SentPort(s), p) = {b[n] % Ports : n \in 1 .. Guesses}
    BY DEF N!Following
  <1> HIDE DEF a, b, m
  <1>5. nat.next \in N!Following(N!Checked(s), p)
    BY <1>1, <1>3, <1>4
  <1>6. ASSUME s # 0, \A q \in N!Following(N!SentPort(s), p) : q > LowPort + s
        PROVE  nat.next \in N!Following(N!SentPort(s), p)
    <2> DEFINE Agree == {n \in Nat : n <= Guesses => b[n] = a[n] /\ a[n] \in Given}
    <2>1. 0 \in Agree
      BY <1>2, PortConstants
    <2>2. ASSUME NEW n \in 0 .. Guesses - 1, n \in Agree
          PROVE  n + 1 \in Agree
      <3>1. /\ n \in 0 .. Guesses - 1 /\ n + 1 \in 1 .. Guesses /\ n + 1 \in Nat
            /\ b[n] = a[n] /\ a[n] \in Given
        BY <2>2, PortConstants
      <3>2. PICK c : c = a[n]
        OBVIOUS
      <3>3. PICK e : e = b[n + 1]
        OBVIOUS
      <3>4. c \in Given /\ N!After(c, s) \in Given /\ N!Checked(s)[c] = N!After(c, s)
        BY <1>1, <3>1, <3>2, NextPort
      <3>5. e = N!SentPort(s)[c] /\ a[n + 1] = N!After(c, s)
        BY <1>2, <3>1, <3>2, <3>3, <3>4
      <3>6. e % Ports > LowPort + s
        BY <1>4, <1>6, <3>1, <3>3
      <3>7. /\ c \in Nat /\ LowPort + 1 <= c /\ c <= N!Last16 /\ N!Last16 \in Nat
            /\ LowPort \in Nat
        BY <3>4, PortConstants DEF Given
      <3>8. e = IF c + s > N!Last16 THEN c + s - N!Last16 ELSE c + s
        BY <1>1, <3>5, <3>7 DEF N!SentPort
      <3>9. ~(c + s > N!Last16)
        <4>1. ASSUME c + s > N!Last16 PROVE FALSE
          <5>1. e = c + s - N!Last16 /\ e <= s /\ e >= 0
            BY <1>1, <3>7, <3>8, <4>1
          <5>2. s <= N!Last16 /\ e \in 0 .. N!Last16
            BY <1>1, <3>7, <5>1, PortConstants
          <5>3. e % Ports = e
            BY <5>2, PortOfPort
          <5> QED
            BY <1>1, <3>6, <3>7, <5>1, <5>2, <5>3
        <4> QED
          BY <4>1
      <3>10. e = c + s /\ N!After(c, s) = c + s
        BY <3>8, <3>9 DEF N!After
      <3> QED
        BY <3>1, <3>3, <3>4, <3>5, <3>10
    <2>3. Agree \in SUBSET Nat
      OBVIOUS
    <2>4. m \in Agree
      <3> HIDE DEF Agree
      <3> QED
        BY <1>1, <2>1, <2>2, <2>3, Sub!Induction, PortConstants
    <2>5. b[m] = nat.next
      BY <1>1, <2>4
    <2> QED
      BY <1>1, <1>3, <1>4, <2>5
  <1> QED
    BY <1>1, <1>5, <1>6 DEF Offered

\* What the invariant says of the offers.
LEMMA PortsPromise == PortsInv => N!NextIsOffered
  <1> SUFFICES ASSUME PortsInv, N!Telling, nat.taken + 1 <= Guesses
               PROVE  /\ offer.made = "ctrl" => nat.next \in offer.ports
                      /\ offer.made = "data" /\ (\A p \in offer.ports : p > LowPort + nat.step)
                           => nat.next \in offer.ports
    BY DEF N!NextIsOffered
  <1>1. CASE offer.made = "ctrl"
    <2>1. Gone(replies[4].port) /\ offer.ports = Offered(N!Checked(nat.step), replies[4].port)
      BY <1>1 DEF PortsInv, N!Telling
    <2>2. replies[4].port \in Given
      BY FourthPort DEF PortsInv, N!Telling
    <2> QED
      BY <1>1, <2>1, <2>2, Reached
  <1>2. CASE offer.made = "data"
    <2>1. PICK p \in Given : Gone(p) /\ offer.ports = Offered(N!SentPort(nat.step), p)
      BY <1>2 DEF PortsInv
    <2> QED
      BY <1>2, <2>1, Reached
  <1> QED
    BY <1>1, <1>2

-----------------------------------------------------------------------------
\* The guesses begin so.
LEMMA PortsInit == N!Init => PortsInv
  <1> SUFFICES ASSUME N!Init PROVE PortsInv
    OBVIOUS
  <1>1. /\ nat.next \in Given /\ nat.step \in Steps /\ nat.taken \in Nat
        /\ DOMAIN nat = {"next", "step", "taken"}
    BY DEF N!Init, Given
  <1>2. Len(replies) = 0 /\ replies \in Seq(Seen)
    BY DEF N!Init
  <1>3. DOMAIN offer = {"made", "ports", "step", "random"} /\ offer.made = "none"
    BY DEF N!Init
  <1> QED
    BY <1>1, <1>2, <1>3 DEF PortsInv, RepliesTrue

\* The NAT goes on from p as long as it is asked.
LEMMA GoesAhead ==
    ASSUME PortsInv, NEW p \in Given, Gone(p), nat.step > 0,
           nat' = [nat EXCEPT !.next = N!After(nat.next, nat.step), !.taken = nat.taken + 1]
    PROVE  Gone(p)'
  <1>1. /\ nat'.next = N!After(nat.next, nat.step) /\ nat'.step = nat.step
        /\ nat'.taken = nat.taken + 1 /\ nat.taken \in Nat
        /\ nat.next \in Given /\ nat.step \in Steps
    BY DEF PortsInv
  <1>2. ASSUME nat'.taken + 1 <= Guesses
        PROVE  nat'.next = N!Ahead(N!Checked(nat.step), p)[nat'.taken + 1]
    <2> DEFINE m == nat.taken + 1
               a == N!Ahead(N!Checked(nat.step), p)
    <2>1. m \in 0 .. Guesses - 1 /\ nat.next = a[m]
      BY <1>1, <1>2, PortConstants DEF Gone
    <2>2. a[m + 1] = N!Checked(nat.step)[a[m]]
      BY <2>1, AheadOf
    <2>3. N!Checked(nat.step)[nat.next] = N!After(nat.next, nat.step)
      BY <1>1, NextPort
    <2> HIDE DEF a
    <2>4. a[m + 1] = nat'.next
      BY <1>1, <2>1, <2>2, <2>3
    <2>5. nat'.taken + 1 = m + 1
      BY <1>1
    <2> HIDE DEF m
    <2>6. a[nat'.taken + 1] = nat'.next
      BY <2>4, <2>5
    <2> QED
      BY <2>6 DEF a
  <1> QED
    BY <1>1, <1>2 DEF Gone

\* It gives the port it would give next, and has gone one step from there.
LEMMA GivesNext ==
    ASSUME PortsInv, NEW p, p = nat.next, NEW t, t = 0,
           nat' = [nat EXCEPT !.next = N!After(nat.next, nat.step), !.taken = t]
    PROVE  /\ p \in Given /\ Gone(p)'
           /\ DOMAIN nat' = {"next", "step", "taken"} /\ nat'.next \in Given
           /\ nat'.step = nat.step /\ nat'.taken \in Nat
  <1>1. /\ nat'.next = N!After(nat.next, nat.step) /\ nat'.step = nat.step /\ nat'.taken = 0
        /\ DOMAIN nat' = {"next", "step", "taken"}
        /\ nat.next \in Given /\ nat.step \in Steps
    BY DEF PortsInv
  <1>2. N!After(p, nat.step) \in Given /\ (nat.step = 0 => nat'.next = p)
    BY <1>1, NextPort
  <1>3. nat'.next = N!Ahead(N!Checked(nat.step), p)[nat'.taken + 1]
    <2> DEFINE a == N!Ahead(N!Checked(nat.step), p)
    <2>1. a[0] = p /\ a[0 + 1] = N!Checked(nat.step)[a[0]]
      BY AheadOf, PortConstants
    <2>2. N!Checked(nat.step)[p] = N!After(p, nat.step)
      BY <1>1, NextPort
    <2> HIDE DEF a
    <2>3. a[nat'.taken + 1] = nat'.next
      BY <1>1, <2>1, <2>2
    <2> QED
      BY <2>3 DEF a
  <1> QED
    BY <1>1, <1>2, <1>3 DEF Gone

\* What the servers saw stays, and so does what it tells.
LEMMA RepliesStay ==
    ASSUME RepliesTrue, replies' = replies, nat'.step = nat.step
    PROVE  RepliesTrue' /\ N!Telling' = N!Telling
  <1>1. RepliesTrue'
    BY DEF RepliesTrue
  <1>2. N!Telling' = N!Telling
    BY DEF N!Telling, N!OneHome, N!Disturbed, N!Addr
  <1> QED
    BY <1>1, <1>2

\* Somebody else takes a port.
LEMMA TakeStep == PortsInv /\ N!Take => PortsInv'
  <1> SUFFICES ASSUME PortsInv, N!Take PROVE PortsInv'
    OBVIOUS
  <1>1. /\ nat' = [nat EXCEPT !.next = N!After(nat.next, nat.step), !.taken = nat.taken + 1]
        /\ nat.step > 0 /\ replies' = replies /\ offer' = offer
    BY DEF N!Take
  <1>2. /\ DOMAIN nat' = {"next", "step", "taken"} /\ nat'.next \in Given
        /\ nat'.step = nat.step /\ nat'.step \in Steps /\ nat'.taken \in Nat
    <2>1. nat.next \in Given /\ nat.step \in Steps /\ nat.taken \in Nat
      BY DEF PortsInv
    <2>2. N!After(nat.next, nat.step) \in Given
      BY <2>1, NextPort
    <2> QED
      BY <1>1, <2>1, <2>2 DEF PortsInv
  <1>3. RepliesTrue' /\ N!Telling' = N!Telling
    BY <1>1, <1>2, RepliesStay DEF PortsInv
  <1>4. ASSUME Len(replies') = 4, offer'.made # "data"
        PROVE  Gone(replies[4].port)'
    <2> PICK p : p = replies[4].port
      OBVIOUS
    <2>1. p \in Given /\ Gone(p)
      BY <1>1, <1>4, FourthPort DEF PortsInv
    <2>2. Gone(p)'
      BY <1>1, <2>1, GoesAhead
    <2> QED
      BY <1>1, <2>2 DEF Gone
  <1>5. ASSUME offer'.made = "data", N!Telling'
        PROVE  \E p \in Given : Gone(p)' /\ offer'.ports = Offered(N!SentPort(nat.step), p)'
    <2> PICK p \in Given : Gone(p) /\ offer.ports = Offered(N!SentPort(nat.step), p)
      BY <1>1, <1>3, <1>5 DEF PortsInv
    <2>1. Gone(p)'
      BY <1>1, GoesAhead
    <2>2. offer'.ports = Offered(N!SentPort(nat.step), p)'
      BY <1>1, <1>2 DEF Offered
    <2> QED
      BY <2>1, <2>2
  <1>6. ASSUME offer'.made = "ctrl", N!Telling'
        PROVE  /\ offer'.step = nat'.step
               /\ offer'.ports = Offered(N!Checked(nat.step), replies[4].port)'
    BY <1>1, <1>2, <1>3, <1>6 DEF PortsInv, Offered
  <1>7. /\ DOMAIN offer' = {"made", "ports", "step", "random"}
        /\ offer'.made \in {"none", "ctrl", "data"}
    BY <1>1 DEF PortsInv
  <1> QED
    BY <1>2, <1>3, <1>4, <1>5, <1>6, <1>7 DEF PortsInv

\* A server answers.
LEMMA ReplyStep == PortsInv /\ N!Reply => PortsInv'
  <1> SUFFICES ASSUME PortsInv, N!Reply PROVE PortsInv'
    OBVIOUS
  <1>1. /\ offer.made = "none" /\ Len(replies) < 4 /\ offer' = offer
        /\ DOMAIN offer = {"made", "ports", "step", "random"}
        /\ nat.taken \in Nat /\ nat.step \in Steps /\ nat.next \in Given
    BY DEF N!Reply, PortsInv
  <1>2. PICK t : /\ t = IF Len(replies) = 3 THEN 0 ELSE nat.taken
                 /\ nat' = [nat EXCEPT !.next = N!After(nat.next, nat.step), !.taken = t]
    BY DEF N!Reply
  <1>3. PICK home \in 1 .. Homes :
            replies' = Append(replies,
                [addr |-> home, port |-> nat.next,
                 regular |-> replies # <<>> =>
                                nat.next = N!Last(replies).port + nat.step])
    BY DEF N!Reply
  <1>4. /\ DOMAIN nat' = {"next", "step", "taken"} /\ nat'.next \in Given
        /\ nat'.step = nat.step /\ nat'.step \in Steps /\ nat'.taken \in Nat
    <2>1. N!After(nat.next, nat.step) \in Given
      BY <1>1, NextPort
    <2> QED
      BY <1>1, <1>2, <2>1 DEF PortsInv
  <1> DEFINE reg == replies # <<>> => nat.next = N!Last(replies).port + nat.step
             r == [addr |-> home, port |-> nat.next, regular |-> reg]
  <1>5. r \in Seen /\ r.port = nat.next /\ r.regular = reg
    BY <1>1 DEF Seen
  <1>6. replies' = Append(replies, r)
    BY <1>3
  <1> HIDE DEF r
  <1>7. replies \in Seq(Seen) /\ Len(replies) \in Nat /\ (Len(replies) > 0 => replies # <<>>)
    BY DEF PortsInv, RepliesTrue
  <1>8. /\ replies' \in Seq(Seen) /\ Len(replies') = Len(replies) + 1
        /\ \A k \in 1 .. Len(replies) : replies'[k] = replies[k]
        /\ replies'[Len(replies) + 1] = r
    BY <1>5, <1>6, <1>7
  <1>9. RepliesTrue'
    <2>1. ASSUME NEW k \in 2 .. Len(replies'), replies'[k].regular
          PROVE  replies'[k].port = replies'[k - 1].port + nat'.step
      <3>1. CASE k \in 2 .. Len(replies)
        <4>1. k \in 1 .. Len(replies) /\ k - 1 \in 1 .. Len(replies)
          BY <1>7, <3>1
        <4>2. replies'[k] = replies[k] /\ replies'[k - 1] = replies[k - 1]
          BY <1>8, <4>1
        <4>3. replies[k].port = replies[k - 1].port + nat.step
          BY <2>1, <3>1, <4>2 DEF PortsInv, RepliesTrue
        <4> QED
          BY <1>4, <4>2, <4>3
      <3>2. CASE k \notin 2 .. Len(replies)
        <4>1. k = Len(replies) + 1 /\ k - 1 = Len(replies) /\ Len(replies) \in 1 .. Len(replies)
          BY <1>7, <1>8, <3>2
        <4>2. replies'[k] = r /\ replies'[k - 1] = N!Last(replies)
          BY <1>8, <4>1 DEF N!Last
        <4>3. reg
          BY <1>5, <2>1, <4>2
        <4>4. replies # <<>>
          BY <1>7, <4>1
        <4> QED
          BY <1>4, <1>5, <4>2, <4>3, <4>4
      <3> QED
        BY <3>1, <3>2
    <2> QED
      BY <1>8, <2>1 DEF RepliesTrue
  <1>10. ASSUME Len(replies') = 4
         PROVE  Gone(replies[4].port)'
    <2>1. t = 0 /\ replies'[4].port = nat.next
      <3>0. PICK n : n = Len(replies)
        OBVIOUS
      <3>1. Len(replies) = 3 /\ Len(replies) + 1 = 4
        <4>1. PICK z : z = Len(replies')
          OBVIOUS
        <4>2. n \in Nat /\ z = n + 1 /\ z = 4
          BY <1>7, <1>8, <1>10, <3>0, <4>1
        <4>3. n = 3
          BY <4>2
        <4> QED
          BY <3>0, <4>3
      <3>2. replies'[4] = r
        BY <1>8, <3>1
      <3> QED
        BY <1>2, <1>5, <3>1, <3>2
    <2> PICK p : p = nat.next
      OBVIOUS
    <2>2. Gone(p)'
      BY <1>2, <2>1, GivesNext
    <2> QED
      BY <2>1, <2>2 DEF Gone
  <1> QED
    BY <1>1, <1>4, <1>9, <1>10 DEF PortsInv

\* The first offer is made.
LEMMA CreateOfferStep == PortsInv /\ N!CreateOffer => PortsInv'
  <1> SUFFICES ASSUME PortsInv, N!CreateOffer PROVE PortsInv'
    OBVIOUS
  <1>1. /\ offer.made = "none" /\ nat' = nat /\ replies' = replies
        /\ offer' = [made |-> "ctrl", step |-> N!Tested.found.step,
                     random |-> N!Tested.found.random,
                     ports |-> IF N!Tested.found.step = 0 THEN {N!Tested.port}
                               ELSE IF N!Tested.found.random THEN N!Neighbours(N!Tested.port)
                               ELSE N!Following(N!Checked(N!Tested.found.step), N!Tested.port)]
    BY DEF N!CreateOffer
  <1>2. DOMAIN offer' = {"made", "ports", "step", "random"} /\ offer'.made = "ctrl"
    BY <1>1
  <1>3. RepliesTrue' /\ N!Telling' = N!Telling
    BY <1>1, RepliesStay DEF PortsInv
  <1>4. ASSUME N!Telling
        PROVE  /\ offer'.step = nat'.step
               /\ offer'.ports = Offered(N!Checked(nat.step), replies[4].port)'
    <2>1. N!Tested.found.step = nat.step /\ ~N!Tested.found.random
          /\ N!Tested.port = replies[4].port
      BY <1>4, TwoOfThree DEF PortsInv
    <2> QED
      BY <1>1, <2>1 DEF Offered
  <1>5. ASSUME Len(replies') = 4
        PROVE  Gone(replies[4].port)'
    BY <1>1, <1>5 DEF PortsInv, Gone
  <1> QED
    BY <1>1, <1>2, <1>3, <1>4, <1>5 DEF PortsInv

\* The second offer is made.
LEMMA SendOfferStep == PortsInv /\ N!SendOffer => PortsInv'
  <1> SUFFICES ASSUME PortsInv, N!SendOffer PROVE PortsInv'
    OBVIOUS
  <1> PICK p : p = nat.next
    OBVIOUS
  <1> PICK t : t = 0
    OBVIOUS
  <1>1. /\ offer.made = "ctrl" /\ replies' = replies
        /\ nat' = [nat EXCEPT !.next = N!After(nat.next, nat.step), !.taken = t]
        /\ offer' = [offer EXCEPT !.made = "data",
                         !.ports = IF offer.step = 0 THEN {p}
                                   ELSE N!Following(N!SentPort(offer.step), p)]
    BY DEF N!SendOffer
  <1>2. /\ p \in Given /\ Gone(p)'
        /\ DOMAIN nat' = {"next", "step", "taken"} /\ nat'.next \in Given
        /\ nat'.step = nat.step /\ nat'.taken \in Nat
    BY <1>1, GivesNext
  <1>3. RepliesTrue' /\ N!Telling' = N!Telling
    BY <1>1, <1>2, RepliesStay DEF PortsInv
  <1>4. /\ DOMAIN offer' = {"made", "ports", "step", "random"} /\ offer'.made = "data"
        /\ offer'.ports = IF offer.step = 0 THEN {p}
                          ELSE N!Following(N!SentPort(offer.step), p)
    BY <1>1 DEF PortsInv
  <1>5. ASSUME N!Telling
        PROVE  offer'.ports = Offered(N!SentPort(nat.step), p)'
    <2>1. offer.step = nat.step
      BY <1>1, <1>5 DEF PortsInv
    <2> QED
      BY <1>2, <1>4, <2>1 DEF Offered
  <1>6. nat'.step \in Steps
    BY <1>2 DEF PortsInv
  <1> QED
    BY <1>2, <1>3, <1>4, <1>5, <1>6 DEF PortsInv

LEMMA PortsStep == PortsInv /\ N!Next => PortsInv'
  BY TakeStep, ReplyStep, CreateOfferStep, SendOfferStep DEF N!Next

LEMMA PortsStutter ==
    ASSUME PortsInv, UNCHANGED portVars
    PROVE  PortsInv'
  <1>1. nat' = nat /\ replies' = replies /\ offer' = offer
    BY DEF portVars
  <1>2. RepliesTrue' /\ N!Telling' = N!Telling
    BY <1>1, RepliesStay DEF PortsInv
  <1> QED
    BY <1>1, <1>2 DEF PortsInv, Gone, Offered

-----------------------------------------------------------------------------
\* For every size of packets, table of candidates, NAT and number of guesses: without losses
\* the sizes that are found are those that pass, and with losses none that does not; the
\* hole that is handed over is one open socket that was asked and answered from; and the
\* port the NAT gives next is among those the console is told of. An answer to a derived
\* candidate can be sent (senkusha.c, 388-803; holepunch.c, 2909-2989, 4477-5236; stun.h,
\* 225-447).
THEOREM PathsAlwaysTrue ==
    ASSUME ProbeFails = FALSE
    PROVE  Spec => []PathsAreTrue
  <1>1. Init => MeasureInv /\ ProbeInv /\ PortsInv
    BY MeasureInit, ProbeInit, PortsInit DEF Init
  <1>2. (MeasureInv /\ ProbeInv /\ PortsInv) /\ [Next]_vars
            => (MeasureInv /\ ProbeInv /\ PortsInv)'
    <2> SUFFICES ASSUME MeasureInv, ProbeInv, PortsInv, [Next]_vars
                 PROVE  MeasureInv' /\ ProbeInv' /\ PortsInv'
      OBVIOUS
    <2>1. MeasureInv'
      BY BenchStep, MeasureStep, MeasureStutter
    <2>2. ProbeInv'
      BY BenchStep, ProbeStep, ProbeStutter
    <2>3. PortsInv'
      BY BenchStep, PortsStep, PortsStutter
    <2> QED
      BY <2>1, <2>2, <2>3
  <1>3. MeasureInv /\ ProbeInv /\ PortsInv => PathsAreTrue
    <2>1. MeasureInv => M!MtuIsTrue
      BY DEF MeasureInv, SizesTrue
    <2>2. ProbeInv => H!TableFits /\ H!HoleIsWhole
      BY DEF ProbeInv
    <2> QED
      BY <2>1, <2>2, PortsPromise DEF PathsAreTrue
  <1> QED
    BY <1>1, <1>2, <1>3, PTL DEF Spec
=============================================================================
