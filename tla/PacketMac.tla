----------------------------- MODULE PacketMac ------------------------------
(***************************************************************************)
(* How the receiver of lib/src/takion.c authenticates a packet: the packet *)
(* carries the low bits of its key position, chiaki_key_state supplies the *)
(* high ones, and lib/src/gkcrypt.c keeps the authentication key of the    *)
(* newest stretch of positions and derives that of an older one afresh.    *)
(*                                                                         *)
(* Positions count up without end; Modulus stands for 2 ^ 32.  A MAC is    *)
(* what it was computed with: the position and the number of the key.      *)
(***************************************************************************)
EXTENDS SeqNum

CONSTANTS
    Refresh,    \* CHIAKI_GKCRYPT_GMAC_KEY_REFRESH_KEY_POS
    Reordering, \* how far two packets may overtake one another
    MaxPos      \* bound on the positions of the console (TLC only)

PacketMacAssumption ==
    /\ Refresh \in Nat \ {0} /\ MaxPos \in Nat
    /\ Reordering \in Nat /\ 2 * Reordering < Half

VARIABLES
    committed,  \* key_state.prev
    keyIndex,   \* key_gmac_index_current
    keyCurrent, \* the key in key_gmac_current
    newest,     \* the highest position the console has sent and that arrived
    verdict     \* the last packet: was it genuine, was it accepted

vars == <<committed, keyIndex, keyCurrent, newest, verdict>>

Low(pos) == pos % Modulus

\* Faulty variant: the high bits only ever grow.
RequestPosUpwards(low) ==
    LET before == Low(committed)
        high   == committed \div Modulus
    IN  (IF Gt(low, before) /\ low < before THEN high + 1 ELSE high) * Modulus + low

\* chiaki_key_state_request_pos
RequestPos(low) ==
    LET before == Low(committed)
        high   == committed \div Modulus
        moved  == IF Gt(low, before) /\ low < before THEN high + 1
                  ELSE IF Lt(low, before) /\ low > before /\ high > 0 THEN high - 1
                  ELSE high
    IN  moved * Modulus + low

\* The number of the key that authenticates a position.
KeyIndex(pos) == (IF pos > 0 THEN pos - 1 ELSE 0) \div Refresh

\* A key that is newer than the current one replaces it, whether the packet is good
\* or not; an older one is derived for this packet only.
Renewed(pos) == IF KeyIndex(pos) > keyIndex THEN KeyIndex(pos) ELSE keyIndex

KeyFor(pos) == IF KeyIndex(pos) = keyIndex THEN keyCurrent ELSE KeyIndex(pos)

\* takion_handle_packet_mac: the position is committed only with the packet.
HandlePacket(low, mac) ==
    LET pos == RequestPos(low)
        good == mac = [pos |-> pos, key |-> KeyFor(pos)]
    IN  /\ keyIndex' = Renewed(pos)
        /\ keyCurrent' = IF KeyIndex(pos) > keyIndex THEN KeyIndex(pos) ELSE keyCurrent
        /\ committed' = IF good THEN pos ELSE committed
        /\ verdict' = [genuine |-> mac.key # -1, accepted |-> good]

\* A packet of the console, late, early or repeated within Reordering.
Genuine ==
    \E pos \in newest - Reordering .. newest + Reordering :
        /\ pos \in 0 .. MaxPos
        /\ HandlePacket(Low(pos), [pos |-> pos, key |-> KeyIndex(pos)])
        /\ newest' = IF pos > newest THEN pos ELSE newest

\* A damaged packet may carry any position.
Damaged ==
    \E low \in SeqNums :
        /\ HandlePacket(low, [pos |-> -1, key |-> -1])
        /\ UNCHANGED newest

Init ==
    /\ committed = 0 /\ newest = 0
    /\ keyIndex = 0 /\ keyCurrent = 0
    /\ verdict = [genuine |-> FALSE, accepted |-> FALSE]

Next == Genuine \/ Damaged

Spec == Init /\ [][Next]_vars

-----------------------------------------------------------------------------
TypeOK ==
    /\ committed \in 0 .. MaxPos /\ newest \in 0 .. MaxPos /\ committed <= newest
    /\ keyIndex \in Nat /\ keyCurrent \in Nat /\ keyCurrent = keyIndex

\* A packet is accepted exactly when it is genuine: neither a wrap of the 32 bits,
\* nor packets that overtake each other across it or across a change of the key, nor
\* damaged packets in between that move the key on, make the receiver refuse a good
\* packet (takion.c, 1322-1355; gkcrypt.c, 355-374, 553-570).
GenuineAccepted == verdict.accepted <=> verdict.genuine
=============================================================================
