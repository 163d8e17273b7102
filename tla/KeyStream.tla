----------------------------- MODULE KeyStream ------------------------------
(***************************************************************************)
(* The local key of a stream: how lib/src/takion.c gives every packet a    *)
(* range of key positions of its own, and how lib/src/gkcrypt.c keeps the  *)
(* key stream ahead of them in a ring that a thread refills.               *)
(*                                                                         *)
(* Positions count blocks of CHIAKI_GKCRYPT_BLOCK_SIZE.  What the cipher   *)
(* computes for a position is the position itself; a block that is being   *)
(* written is Junk.  A sender locks gkcrypt_local_mutex to reserve a range *)
(* and, packets that are encrypted, until they are sent; key_buf_mutex is  *)
(* never held across two of the steps below but by the refilling thread,   *)
(* which gives it up while it computes.                                    *)
(***************************************************************************)
EXTENDS Integers, FiniteSets

CONSTANTS
    Senders,    \* threads that send
    Sizes,      \* blocks a packet takes
    Chunk,      \* KEY_BUF_CHUNK_SIZE
    Chunks,     \* key_buf_chunks
    MaxPos      \* bound on key_pos_local (TLC only)

KeyStreamAssumption ==
    /\ Sizes \subseteq Nat \ {0} /\ IsFiniteSet(Sizes)
    /\ Chunk \in Nat \ {0} /\ Chunks \in Nat \ {0} /\ MaxPos \in Nat

VARIABLES
    keyPos,     \* takion: key_pos_local
    owner,      \* the sender that holds gkcrypt_local_mutex across a send
    range,      \* sender -> the range it has reserved, [from, to)
    step,       \* sender -> "idle", "reserved", "sending"
    served,     \* sender -> what it got for its range from the ring
    content,    \* key_buf: what each block of the ring holds
    populated,  \* key_buf_populated
    posMin,     \* key_buf_key_pos_min
    startOffset,\* key_buf_start_offset
    lastPos,    \* last_key_pos
    filler,     \* the thread: "waiting", "filling", "ended"
    fillStop    \* key_buf_thread_stop

sendVars == <<keyPos, owner, range, step, served>>
ringVars == <<content, populated, posMin, startOffset, lastPos, filler, fillStop>>
vars     == <<sendVars, ringVars>>

RingSize == Chunk * Chunks
Junk     == -1
Nobody   == "nobody"
NoRange  == [from |-> 0, to |-> 0]
Unserved == [pos \in {} |-> 0]
Positions(r) == r.from .. r.to - 1

\* chiaki_gkcrypt_gen_key_stream: the block of a position depends on nothing else.
Cipher(pos) == pos

Slot(pos) == (pos - posMin + startOffset) % RingSize

-----------------------------------------------------------------------------
(* chiaki_takion_crypt_advance_key_pos and the senders above it *)

\* Faulty variant: the position is read before and written after the lock.
ReserveStale(t, size) ==
    /\ step[t] = "idle" /\ keyPos + size <= MaxPos
    /\ \E from \in {keyPos} \cup {range[u].from : u \in {u \in Senders : step[u] # "idle"}} :
          /\ range' = [range EXCEPT ![t] = [from |-> from, to |-> from + size]]
          /\ keyPos' = from + size
    /\ owner \in {Nobody}
    /\ step' = [step EXCEPT ![t] = "reserved"]
    /\ UNCHANGED <<owner, served, ringVars>>

\* A data message or a report reserves, is formatted, and locks again to be
\* sent; an encrypted packet keeps the lock (owner).
Reserve(t, size) ==
    /\ step[t] = "idle" /\ owner = Nobody
    /\ keyPos + size <= MaxPos
    /\ range' = [range EXCEPT ![t] = [from |-> keyPos, to |-> keyPos + size]]
    /\ keyPos' = keyPos + size
    /\ step' = [step EXCEPT ![t] = "reserved"]
    /\ owner' \in {Nobody, t}
    /\ UNCHANGED <<served, ringVars>>

\* chiaki_takion_send of a message that is only authenticated.
SendPlain(t) ==
    /\ step[t] = "reserved" /\ owner = Nobody
    /\ step' = [step EXCEPT ![t] = "idle"]
    /\ range' = [range EXCEPT ![t] = NoRange]
    /\ UNCHANGED <<keyPos, owner, served, ringVars>>

-----------------------------------------------------------------------------
(* The ring *)

ShouldGenerate == lastPos > posMin + populated \div 2

InRing(r) == r.from >= posMin /\ r.to < posMin + populated

\* Faulty variant: a range that begins in the ring is served from it.
GetKeyStreamOverrun(t) ==
    /\ step[t] = "reserved" /\ owner = t
    /\ lastPos' = IF range[t].to > lastPos THEN range[t].to ELSE lastPos
    /\ served' = [served EXCEPT ![t] =
          IF range[t].from \in posMin .. posMin + populated
          THEN [pos \in Positions(range[t]) |-> content[Slot(pos)]]
          ELSE [pos \in Positions(range[t]) |-> Cipher(pos)]]
    /\ step' = [step EXCEPT ![t] = "sending"]
    /\ UNCHANGED <<keyPos, owner, range, content, populated, posMin, startOffset, filler, fillStop>>

\* chiaki_gkcrypt_get_key_stream: from the ring, or computed for this call.
GetKeyStream(t) ==
    /\ step[t] = "reserved" /\ owner = t
    /\ lastPos' = IF range[t].to > lastPos THEN range[t].to ELSE lastPos
    /\ served' = [served EXCEPT ![t] =
          IF InRing(range[t])
          THEN [pos \in Positions(range[t]) |-> content[Slot(pos)]]
          ELSE [pos \in Positions(range[t]) |-> Cipher(pos)]]
    /\ step' = [step EXCEPT ![t] = "sending"]
    /\ UNCHANGED <<keyPos, owner, range, content, populated, posMin, startOffset, filler, fillStop>>

\* takion_send_feedback_packet, chiaki_takion_send_mic_packet: encrypted,
\* authenticated, sent, unlocked.
SendEncrypted(t) ==
    /\ step[t] = "sending"
    /\ step' = [step EXCEPT ![t] = "idle"]
    /\ owner' = Nobody
    /\ range' = [range EXCEPT ![t] = NoRange]
    /\ served' = [served EXCEPT ![t] = Unserved]
    /\ UNCHANGED <<keyPos, ringVars>>

-----------------------------------------------------------------------------
(* gkcrypt_thread_func *)

\* Faulty variant: a stop does not end the wait.
WakesForChunks == filler = "waiting" /\ (populated < RingSize \/ ShouldGenerate)

FillerWakes == filler = "waiting" /\ (fillStop \/ populated < RingSize \/ ShouldGenerate)

\* The ring moves on: past everything requested, or by its oldest chunk.
Moved ==
    IF lastPos > posMin + populated THEN
        [min |-> (lastPos \div Chunk) * Chunk, offset |-> 0, populated |-> 0]
    ELSE IF populated = RingSize THEN
        [min |-> posMin + Chunk, offset |-> (startOffset + Chunk) % RingSize,
         populated |-> populated - Chunk]
    ELSE [min |-> posMin, offset |-> startOffset, populated |-> populated]

\* The next chunk is computed without the mutex.
BeginChunk ==
    /\ FillerWakes /\ ~fillStop
    /\ posMin' = Moved.min /\ startOffset' = Moved.offset /\ populated' = Moved.populated
    /\ content' = [k \in 0 .. RingSize - 1 |->
          IF k \in {(Moved.offset + Moved.populated + i) % RingSize : i \in 0 .. Chunk - 1}
          THEN Junk ELSE content[k]]
    /\ filler' = "filling"
    /\ UNCHANGED <<sendVars, lastPos, fillStop>>

EndChunk ==
    /\ filler = "filling"
    /\ LET fresh == [i \in 0 .. Chunk - 1 |-> (startOffset + populated + i) % RingSize] IN
       content' = [k \in 0 .. RingSize - 1 |->
          IF \E i \in 0 .. Chunk - 1 : fresh[i] = k
          THEN Cipher(posMin + populated + (CHOOSE i \in 0 .. Chunk - 1 : fresh[i] = k))
          ELSE content[k]]
    /\ populated' = populated + Chunk
    /\ filler' = "waiting"
    /\ UNCHANGED <<sendVars, posMin, startOffset, lastPos, fillStop>>

\* The cipher fails: the thread ends, later requests compute for themselves.
ChunkFails ==
    /\ filler = "filling"
    /\ filler' = "ended"
    /\ UNCHANGED <<sendVars, content, populated, posMin, startOffset, lastPos, fillStop>>

FillerEnds ==
    /\ FillerWakes /\ fillStop
    /\ filler' = "ended"
    /\ UNCHANGED <<sendVars, content, populated, posMin, startOffset, lastPos, fillStop>>

\* chiaki_gkcrypt_fini: the owner has stopped the senders before.
Fini ==
    /\ ~fillStop /\ \A t \in Senders : step[t] = "idle"
    /\ fillStop' = TRUE
    /\ UNCHANGED <<sendVars, content, populated, posMin, startOffset, lastPos, filler>>

-----------------------------------------------------------------------------
Init ==
    /\ keyPos = 0 /\ owner = Nobody
    /\ range = [t \in Senders |-> NoRange]
    /\ step = [t \in Senders |-> "idle"]
    /\ served = [t \in Senders |-> Unserved]
    /\ content = [k \in 0 .. RingSize - 1 |-> Junk]
    /\ populated = 0 /\ posMin = 0 /\ startOffset = 0 /\ lastPos = 0
    /\ filler = "waiting" /\ fillStop = FALSE

Send(t) == (~fillStop /\ \E size \in Sizes : Reserve(t, size)) \/ SendPlain(t)
           \/ GetKeyStream(t) \/ SendEncrypted(t)

Filler == BeginChunk \/ EndChunk \/ FillerEnds

Next == (\E t \in Senders : Send(t)) \/ Filler \/ ChunkFails \/ Fini

Fairness == WF_vars(Filler)

Spec == Init /\ [][Next]_vars /\ Fairness

-----------------------------------------------------------------------------
(* Properties *)

TypeOK ==
    /\ keyPos \in 0 .. MaxPos /\ owner \in Senders \cup {Nobody}
    /\ populated \in 0 .. RingSize /\ populated % Chunk = 0
    /\ startOffset \in 0 .. RingSize - 1 /\ posMin % Chunk = 0
    /\ filler \in {"waiting", "filling", "ended"}

\* No two packets are encrypted or authenticated at the same key position,
\* whatever threads send them (takion.c, 534-558, 788-816, 843-870).
RangesDisjoint ==
    \A t, u \in Senders :
        t # u /\ step[t] # "idle" /\ step[u] # "idle" =>
            Positions(range[t]) \cap Positions(range[u]) = {}

\* What a request gets is the key stream of its positions, also from a ring that
\* wraps, moves on, or is being refilled (gkcrypt.c, 287-331, 471-549).
ServedCorrectly ==
    \A t \in Senders : step[t] = "sending" =>
        \A pos \in Positions(range[t]) : served[t][pos] = Cipher(pos)

\* The thread catches up with the requests until the last one is in the first
\* half of the ring, or it has been stopped or has failed (lines 282-285, 453-468).
RingCatchesUp == ShouldGenerate ~> (~ShouldGenerate \/ filler = "ended")

\* chiaki_gkcrypt_fini returns (lines 88-101).
FiniReturns == fillStop ~> filler = "ended"
=============================================================================
