--------------------------- MODULE VideoReceiver ----------------------------
(***************************************************************************)
(* The video of a stream between the AV packets and the decoder:           *)
(* lib/src/videoreceiver.c with its gap reports (videoreceiver_gap.c) and  *)
(* lib/src/frameprocessor.c, which collects the units of one frame.        *)
(*                                                                         *)
(* Everything happens on the thread of Takion, one packet after the other: *)
(* the receiver is one record, and what a packet does to it is composed of *)
(* operators on that record.  Frames are numbered with 16 bits (Modulus).  *)
(* The console numbers them from 1, its packets are well formed, and less  *)
(* than half the number space is lost in a row.  A frame is Source units   *)
(* (more than one) and Fec units of redundancy.  Time passes in ticks of   *)
(* IDR_REQUEST_COOLDOWN_MS.  A run follows MaxFrames frames from the start *)
(* of the stream or from its wrap, so that a number means one frame.       *)
(***************************************************************************)
EXTENDS SeqNum, Sequences, FiniteSets, SequencesExt

CONSTANTS
    Source, Fec,    \* units of a frame
    Refs,           \* size of reference_frames
    MaxDistance,    \* how far back a P frame refers (reference_frame + 1)
    ForceSpan,      \* VIDEO_GAP_REPORT_FORCE_SPAN
    SkipThreshold,  \* CASCADE_SKIP_THRESHOLD
    IdrTimeout,     \* IDR_REQUEST_TIMEOUT_MS in ticks
    MaxSkipped,     \* bound on the frames lost at once
    MaxFrames       \* bound on the frames of a run

VideoAssumption ==
    /\ Source \in Nat \ {0, 1} /\ Fec \in Nat \ {0} /\ Refs \in Nat \ {0}
    /\ ForceSpan \in Nat /\ SkipThreshold \in Nat \ {0} /\ IdrTimeout \in Nat \ {0}
    /\ {MaxDistance, MaxSkipped, MaxFrames} \subseteq Nat
    /\ MaxDistance < Half /\ MaxSkipped < Half /\ MaxFrames < Modulus - 2

VARIABLES
    rx,     \* the receiver
    owed,       \* (history) frames begun or passed over, not delivered, not reported
    delivered,  \* (history) frames that the decoder has
    wrong,      \* (history) a delivered frame was reported as lost
    untried,    \* (history) frames lost in reception since an IDR was last tried for
    frames      \* (bound) frames shown by the console

vars == <<rx, owed, delivered, wrong, untried, frames>>

None == -1
Span(from, to) == ((to - from) % Modulus) + 1             \* seq16_span
Range16(from, to) == {n \in SeqNums : Span(from, n) <= Span(from, to)}
Next16(n) == Add(n, 1)

\* What a frame is: an I slice, one without a known reference (reference_frame 0xff), or a
\* P slice with the distance to its reference.
Intra == 0
Plain == -1
Kinds == {Intra, Plain} \cup 1 .. MaxDistance

-----------------------------------------------------------------------------
(* Reports to the console.  A receiver carries what the packet has led to   *)
(* so far: frames reported (said), taken by the decoder (handed), and what  *)
(* else it did.                                                             *)

\* should_skip_corrupt_report
SkipReport(s, from, to) == s.lastStart = from /\ Ge(s.lastEnd, to)

\* report_corrupt_frame_range
Report(s, from, to) ==
    IF SkipReport(s, from, to) THEN s
    ELSE [s EXCEPT !.said = @ \cup Range16(from, to), !.lastStart = from, !.lastEnd = to]

NoGap == [pending |-> FALSE, start |-> 0, end |-> 0, hold |-> 0]

\* flush_pending_gap_report
FlushPendingGap(s) ==
    IF ~s.gap.pending \/ (s.gap.hold > 0 /\ Span(s.gap.start, s.gap.end) < ForceSpan) THEN s
    ELSE [Report(s, s.gap.start, s.gap.end) EXCEPT !.gap = NoGap]

Pending(from, to) == [pending |-> TRUE, start |-> from, end |-> to, hold |-> 1]

\* Faulty variant: another gap replaces the one that is held.
UpdateGapReplacing(s, from, to) ==
    IF ~s.gap.pending \/ s.gap.start # from THEN [s EXCEPT !.gap = Pending(from, to)]
    ELSE IF Gt(to, s.gap.end) THEN [s EXCEPT !.gap.end = to] ELSE s

\* chiaki_video_gap_report_update; another gap flushes the one that is held.
UpdateGap(s, from, to) ==
    IF ~s.gap.pending THEN [s EXCEPT !.gap = Pending(from, to)]
    ELSE IF s.gap.start # from
         THEN [Report(s, s.gap.start, s.gap.end) EXCEPT !.gap = Pending(from, to)]
    ELSE IF Gt(to, s.gap.end) THEN [s EXCEPT !.gap.end = to]
    ELSE s

\* video_receiver_maybe_request_idr: a request stays open until an I slice or a timeout.
RequestIdr(s) ==
    LET open == s.idrPending /\ s.idrAge <= IdrTimeout IN
    [s EXCEPT !.did = @ \cup {"tried"},
              !.idrPending = open \/ s.cooled,
              !.idrAge = IF ~open /\ s.cooled THEN 0 ELSE IF open THEN @ ELSE 0,
              !.cooled = IF ~open THEN FALSE ELSE @]

-----------------------------------------------------------------------------
(* Flushing a frame *)

\* After too many missing references a frame is dropped unseen, with all references.
CascadeSkip(s) == [RequestIdr([s EXCEPT !.refs = <<>>, !.missing = 0]) EXCEPT !.prev = s.cur]

\* The frame has too few units, or its units cannot be restored.
FecFailed(s) ==
    LET asked == RequestIdr(s)
        told  == Report(asked, Next16(s.complete), s.cur)
    IN  [told EXCEPT !.prev = s.cur]

\* add_ref_frame: the newest first, the oldest is forgotten.
AddRef(refs, frame) == SubSeq(<<frame>> \o refs, 1,
                              IF Len(refs) < Refs THEN Len(refs) + 1 ELSE Refs)

HaveRef(s, distance) == Contains(s.refs, (s.cur - distance) % Modulus)

\* A P slice whose reference is missing is pointed to an older one there is.
OlderRef(s, distance) == \E d \in distance + 1 .. MaxDistance : HaveRef(s, d)

\* What an I slice and an open request have to do with each other.
SeeSlice(s, kind) ==
    IF kind = Intra THEN [s EXCEPT !.missing = 0, !.idrPending = FALSE,
                                 !.idrAge = IF s.idrPending THEN 0 ELSE @]
    ELSE IF s.idrPending THEN RequestIdr(s) ELSE s

\* video_sample_cb: the decoder takes the frame or not.
Submit(s, taken) ==
    IF taken THEN [s EXCEPT !.did = @ \cup {"submitted"}, !.refs = AddRef(@, s.cur),
                            !.missing = 0, !.prev = s.cur, !.complete = s.cur,
                            !.handed = {s.cur}]
    ELSE [s EXCEPT !.prev = s.cur, !.did = @ \cup {"submitted"}]

MissingRef(s) == [s EXCEPT !.missing = @ + 1, !.prev = s.cur, !.did = @ \cup {"lost"}]

\* A source unit is missing: chiaki_frame_processor_fec restores it from as many units.
Incomplete(s) == \E u \in 0 .. Source - 1 : u \notin s.units

\* chiaki_video_receiver_flush_frame.  luck: what the FEC, the rewriting of a slice and
\* the decoder come to.
FlushFrame(s, luck) ==
    IF s.missing >= SkipThreshold THEN CascadeSkip(s)
    ELSE IF Incomplete(s) /\ (Cardinality(s.units) < Source \/ ~luck.restored) THEN FecFailed(s)
    ELSE LET seen == SeeSlice(s, s.kind) IN
         IF s.kind > 0 /\ ~HaveRef(s, s.kind) /\ ~(OlderRef(s, s.kind) /\ luck.rewritten)
         THEN MissingRef(seen)
         ELSE Submit(seen, luck.taken)

-----------------------------------------------------------------------------
(* chiaki_video_receiver_av_packet *)

Luck == [restored : BOOLEAN, rewritten : BOOLEAN, taken : BOOLEAN]

\* chiaki_frame_processor_put_unit; a repeated unit changes nothing.
PutUnit(s, unit) == [s EXCEPT !.units = @ \cup {unit}]

FlushPossible(s) == s.cur # s.prev /\ Cardinality(s.units) >= Source

\* The frame before is flushed, if it was not.
FinishPrevious(s, luck) ==
    IF s.cur # None /\ s.prev # s.cur THEN FlushFrame(s, luck) ELSE s

\* The frames between the last complete one and the new one are a gap.
NoteGap(s, frame) ==
    IF Gt(frame, Next16(s.complete)) /\ ~(frame = 1 /\ s.cur = None)
    THEN FlushPendingGap(UpdateGap(s, Next16(s.complete), Add(frame, Modulus - 1)))
    ELSE s

\* chiaki_frame_processor_alloc_frame with the first unit
Begin(s, frame, kind, unit) == [s EXCEPT !.cur = frame, !.units = {unit}, !.kind = kind]

\* The frames that a packet of this frame is the first to show, this one included.
Shown(s, frame) ==
    IF s.cur = None THEN {n \in SeqNums : 0 < n /\ n <= frame}
    ELSE {n \in SeqNums : Gt(n, s.cur) /\ Le(n, frame)}

\* The histories after a packet that shows these frames and makes the receiver s.
Remember(s, shown) ==
    LET ended == IF s.prev # rx.prev /\ s.handed = {} THEN {s.prev} ELSE {} IN
    /\ rx' = [s EXCEPT !.said = {}, !.handed = {}, !.did = {},
                       !.units = IF s.cur = s.prev THEN {} ELSE @,    \* not used any more
                       !.kind = IF s.cur = s.prev THEN Intra ELSE @]
    /\ delivered' = delivered \cup s.handed
    /\ owed' = (owed \cup ended \cup (shown \ {s.cur})) \ s.said
    /\ wrong' = (wrong \/ s.said \cap delivered' # {})
    /\ untried' = IF s.did \cap {"tried", "submitted"} # {} THEN 0
                  ELSE IF "lost" \in s.did THEN untried + 1 ELSE untried
    /\ frames' = frames + Cardinality(shown)

\* A packet of the frame that is being collected, or was flushed already.
Unit(unit, luck) ==
    LET put == PutUnit(FlushPendingGap(rx), unit) IN
    /\ rx.cur # None
    /\ Remember(IF FlushPossible(put) THEN FlushFrame(put, luck) ELSE put, {})

\* A packet of an older frame is dropped, but a gap that is due is reported.
OldUnit == rx.cur # None /\ Remember(FlushPendingGap(rx), {})

\* The first packet of a newer frame.
NewFrame(frame, kind, unit, luck) ==
    /\ IF rx.cur = None THEN frame \in 1 .. MaxSkipped ELSE Gt(frame, rx.cur)
    /\ Span(rx.complete, frame) <= MaxSkipped + 1
    /\ frames + Cardinality(Shown(rx, frame)) <= MaxFrames
    /\ LET finished == FinishPrevious(FlushPendingGap(rx), luck)
       IN  Remember(Begin(NoteGap(finished, frame), frame, kind, unit), Shown(rx, frame))

\* Time passes: deadlines are met, the request grows old, the cooldown ends.
Tick ==
    /\ rx' = [rx EXCEPT !.gap.hold = 0, !.cooled = TRUE,
                        !.idrAge = IF rx.idrPending /\ @ <= IdrTimeout THEN @ + 1 ELSE @]
    /\ rx' # rx
    /\ UNCHANGED <<owed, delivered, wrong, untried, frames>>

-----------------------------------------------------------------------------
\* chiaki_video_receiver_init; the first request is long ago.
Fresh == [cur |-> None, prev |-> None, complete |-> 0, units |-> {}, kind |-> Intra,
          refs |-> <<>>, missing |-> 0, gap |-> NoGap, lastStart |-> 0, lastEnd |-> 0,
          idrPending |-> FALSE, idrAge |-> 0, cooled |-> TRUE,
          said |-> {}, handed |-> {}, did |-> {}]

\* Frames before the wrap: the decoder has them all but one, which was reported.
BeforeWrap ==
    LET last == Modulus - 2 IN
    [Fresh EXCEPT !.cur = last, !.prev = last, !.complete = last, !.refs = <<last>>,
                  !.lastStart = last - 1, !.lastEnd = last - 1]

Init ==
    /\ rx \in {Fresh, BeforeWrap}
    /\ owed = {} /\ delivered = {} /\ wrong = FALSE /\ untried = 0 /\ frames = 0

AvPacket ==
    \E unit \in 0 .. Source + Fec - 1, luck \in Luck :
        \/ Unit(unit, luck)
        \/ \E frame \in SeqNums, kind \in Kinds : NewFrame(frame, kind, unit, luck)

Next == AvPacket \/ OldUnit \/ Tick

Spec == Init /\ [][Next]_vars

-----------------------------------------------------------------------------
(* Properties *)

TypeOK ==
    /\ rx.cur \in SeqNums \cup {None} /\ rx.prev \in SeqNums \cup {None}
    /\ rx.complete \in SeqNums /\ rx.units \subseteq 0 .. Source + Fec - 1
    /\ Len(rx.refs) <= Refs /\ rx.missing \in 0 .. SkipThreshold
    /\ owed \subseteq SeqNums /\ delivered \subseteq SeqNums

Since(n, to) == IF n = to THEN {} ELSE Range16(Next16(n), to)

\* Every frame that did not reach the decoder is reported to the console, is in the gap
\* held for a report, or belongs to what the next report will begin with: no loss is
\* forgotten between the two kinds of reports, the held gap and the frames that fail
\* (videoreceiver.c, 71-118, 283-325, 395-425; videoreceiver_gap.c, 7-49).
LossesReported ==
    owed \subseteq (IF rx.gap.pending THEN Range16(rx.gap.start, rx.gap.end) ELSE {})
                   \cup (IF rx.cur = None THEN {} ELSE Since(rx.complete, rx.cur))

\* No frame the decoder has is ever reported as lost: the console would stop using it
\* as a reference (lines 78-118, 410).
ReportsTruthful == ~wrong

\* Never more than SkipThreshold frames in a row are lost to missing references or units
\* without an attempt to get an IDR frame (lines 120-150, 373-391, 399-403, 441-448).
PressureKept == untried <= SkipThreshold
=============================================================================
