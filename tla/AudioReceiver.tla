---------------------------- MODULE AudioReceiver ----------------------------
(***************************************************************************)
(* Audio of a stream: lib/src/audioreceiver.c, and lib/src/audiosender.c   *)
(* for the microphone.                                                     *)
(*                                                                         *)
(* The console numbers its audio frames; a packet carries the Source       *)
(* frames from its index on and, as redundancy, the Fec frames before.     *)
(* Packets are lost, repeated and overtake each other by up to Reach       *)
(* packets.  A frame is known by its number, so that what is played can be *)
(* compared with what was recorded.                                        *)
(***************************************************************************)
EXTENDS SeqNum, Sequences, FiniteSets

CONSTANTS
    Source, Fec,    \* units of an audio packet
    Reach           \* how old a packet may arrive

AudioAssumption ==
    /\ Source \in Nat \ {0} /\ Fec \in Nat /\ Reach \in Nat
    /\ Reach + Source + Fec < Half

VARIABLES
    sent,       \* the newest packet of the console
    prev,       \* frame_index_prev
    startup,    \* frame_index_startup
    last,       \* (history) how long ago the newest frame played was recorded, and
                \* whether frames came in order
    mic         \* the microphone: frame_index, frames collected, framea, the last packet

vars == <<sent, prev, startup, last, mic>>

None == -1

-----------------------------------------------------------------------------
(* Receiving *)

\* chiaki_audio_receiver_frame: the sink gets a frame that is newer than the last one.
Playable(frame, before) == Gt(frame, before)

\* The frame of every unit of a packet.  The first packets repeat a frame as redundancy.
UnitFrames(index) ==
    [i \in 1 .. Source + Fec |->
        IF i <= Source THEN Add(index, i - 1)
        ELSE IF startup' /\ index + (i - Source - 1) < Fec + 1 THEN None
        ELSE (index - Fec + (i - Source - 1)) % Modulus]

\* The units in order: those that are played, and the number remembered, after each.
PlayLoop(frames) ==
    LET after[i \in 0 .. Len(frames)] ==
            IF i = 0 THEN [prev |-> prev, played |-> <<>>]
            ELSE IF frames[i] # None /\ Playable(frames[i], after[i - 1].prev)
                 THEN [prev |-> frames[i], played |-> Append(after[i - 1].played, frames[i])]
            ELSE after[i - 1]
    IN  after

Play(frames) == PlayLoop(frames)[Len(frames)]

\* The console records the next packet; it may be lost.
Record ==
    /\ sent' = Add(sent, 1)
    /\ last' = [last EXCEPT !.age = IF @ < Modulus THEN @ + 1 ELSE @]
    /\ UNCHANGED <<prev, startup, mic>>

\* How long ago a frame was recorded; a packet holds up to Source frames not announced.
Age(frame) == (sent + Source - frame) % Modulus

\* chiaki_audio_receiver_av_packet, for one of the newest packets.
AvPacket(index) ==
    /\ startup' = (startup /\ index <= Half)
    /\ LET after == Play(UnitFrames(index)) IN
       /\ prev' = after.prev
       /\ last' = LET ages == <<last.age>> \o [i \in 1 .. Len(after.played) |->
                                                  Age(after.played[i])] IN
                  [age     |-> ages[Len(ages)],
                   ordered |-> last.ordered /\ \A i \in 2 .. Len(ages) : ages[i] < ages[i - 1]]
    /\ UNCHANGED <<sent, mic>>

-----------------------------------------------------------------------------
(* The microphone: chiaki_audio_sender_opus_data.  Two frames are collected before the   *)
(* first packet; a packet repeats the one before and the new one.                        *)
OpusData ==
    /\ LET new == Add(mic.index, mic.collected) IN
       mic' = IF mic.collected < 2
              THEN [mic EXCEPT !.collected = @ + 1, !.before = new]
              ELSE [index |-> Add(mic.index, 1), collected |-> 2, before |-> new,
                    packet |-> <<new, mic.before, new>>]
    /\ UNCHANGED <<sent, prev, startup, last>>

-----------------------------------------------------------------------------
\* chiaki_audio_receiver_init, chiaki_audio_sender_init
Init ==
    /\ sent = 0 /\ prev = 0 /\ startup = TRUE
    /\ last = [age |-> Modulus, ordered |-> TRUE]
    /\ mic = [index |-> 0, collected |-> 0, before |-> None, packet |-> <<>>]

Next ==
    \/ Record
    \/ \E back \in 0 .. Reach : AvPacket((sent - back) % Modulus)
    \/ OpusData

Spec == Init /\ [][Next]_vars

-----------------------------------------------------------------------------
(* Properties *)

TypeOK ==
    /\ sent \in SeqNums /\ prev \in SeqNums /\ startup \in BOOLEAN
    /\ last.age \in 0 .. Modulus /\ last.ordered \in BOOLEAN
    /\ mic.index \in SeqNums

\* Whatever is lost, repeated or reordered, and across the wrap of the numbers, the sink
\* plays frames in the order of their recording and none twice (lines 82-127).
PlayedInOrder == last.ordered
=============================================================================
