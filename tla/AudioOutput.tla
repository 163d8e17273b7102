----------------------------- MODULE AudioOutput -----------------------------
(***************************************************************************)
(* Audio of the Vita: vita/src/audio.c.  Decoded frames are written to a   *)
(* ring of DeviceBuffers blocks; the device is given a block when it has   *)
(* nothing left to play.  A writer that is a whole ring ahead jumps the    *)
(* reader to the newest block.                                             *)
(*                                                                         *)
(* A block holds as many frames (BlockFrames) as make its samples a        *)
(* multiple of 64.  Frames are numbered by their writing, modulo twice the *)
(* ring, so that a stale block differs from a new one.                     *)
(***************************************************************************)
EXTENDS Integers

CONSTANTS
    DeviceBuffers,  \* DEVICE_BUFFERS
    BlockFrames     \* device_buffer_frames

OutputAssumption == DeviceBuffers \in Nat \ {0, 1} /\ BlockFrames \in Nat \ {0}

Ring   == DeviceBuffers * BlockFrames     \* buffer_frames
Numbers == 2 * Ring
None == -1

VARIABLES
    ready,      \* did_secondary_init
    buffer,     \* what each place of the ring holds
    writeOffset, deviceOffset, framediff,
    count,      \* (history) frames written, modulo Numbers
    played      \* (history) the block given to the device by the last call, or <<>>

vars == <<ready, buffer, writeOffset, deviceOffset, framediff, count, played>>

Places == 0 .. Ring - 1

\* init_buffer
InitBuffer ==
    /\ buffer = [p \in Places |-> None]
    /\ writeOffset = 0 /\ deviceOffset = 0 /\ framediff = 0

\* device_buffer_from_frame
BlockOf(frame) == ((frame + Ring) % Ring) \div BlockFrames

\* Faulty variant: the reader goes to the block that is written next.
CatchUpToNext(w) == BlockOf(w)

\* audio_catchup_to_latest_frame: where the reader goes
CatchUp(w) == BlockOf(w - 1)

\* Faulty variant: one frame later than the ring allows.
OvertakenLate(diff) == diff > Ring

\* A writer a whole ring ahead overwrites what is not played.
Overtaken(diff) == diff >= Ring

BlockAt(b, content) == [i \in 0 .. BlockFrames - 1 |-> content[b * BlockFrames + i]]

\* vita_audio_cb: a frame of the size of the first one.  idle: the device has no samples
\* left.
Cb(idle) ==
    LET w    == (writeOffset + 1) % Ring
        diff == framediff + 1
        content == [buffer EXCEPT ![writeOffset] = count]
        caught  == Overtaken(diff)
        from    == IF caught THEN CatchUp(w) ELSE deviceOffset
        ahead   == IF caught THEN BlockFrames + (w % BlockFrames) ELSE diff
    IN  /\ ready' = TRUE
        /\ buffer' = content /\ writeOffset' = w /\ count' = (count + 1) % Numbers
        /\ IF diff >= BlockFrames /\ (caught \/ idle)
           THEN /\ played' = BlockAt(from, content)
                /\ deviceOffset' = (from + 1) % DeviceBuffers
                /\ framediff' = ahead - BlockFrames
           ELSE /\ played' = <<>> /\ framediff' = diff
                /\ UNCHANGED deviceOffset

\* vita_audio_cleanup; the first frame of the next stream builds the ring anew.
Cleanup ==
    /\ ready
    /\ ready' = FALSE /\ count' = 0 /\ played' = <<>>
    /\ buffer' = [p \in Places |-> None]
    /\ writeOffset' = 0 /\ deviceOffset' = 0 /\ framediff' = 0

Init == ready = FALSE /\ InitBuffer /\ count = 0 /\ played = <<>>

Next == (\E idle \in BOOLEAN : Cb(idle)) \/ Cleanup

Spec == Init /\ [][Next]_vars

-----------------------------------------------------------------------------
(* Properties *)

TypeOK ==
    /\ ready \in BOOLEAN /\ writeOffset \in Places /\ deviceOffset \in 0 .. DeviceBuffers - 1
    /\ framediff \in 0 .. Ring - 1 /\ count \in 0 .. Numbers - 1

\* The distance the callback counts is that of the two offsets: neither an output nor a
\* catch-up loses step with the ring (lines 55-71, 181-192).
InStep == (writeOffset - deviceOffset * BlockFrames) % Ring = framediff

\* A block that is given to the device is whole: successive frames of the stream, none
\* missing, repeated, or left over from the round before (lines 73-80, 185-192).
BlocksWhole ==
    played # <<>> =>
        \A i \in 0 .. BlockFrames - 1 :
            /\ played[i] # None
            /\ played[i] = (played[0] + i) % Numbers
            /\ (count - 1 - played[i]) % Numbers < Ring
=============================================================================
