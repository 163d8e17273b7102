---------------------------- MODULE VideoOutput ----------------------------
(***************************************************************************)
(* The decoder of the Vita and the way to the screen: vita/src/video.c.    *)
(*                                                                         *)
(* video_status counts the stages that are set up; each stage takes one    *)
(* resource after the other and may fail in between, and the clean-up goes *)
(* down from the status stage by stage.  The stream's thread decodes into  *)
(* one texture and flags it; the UI thread takes the flag, and leaves out  *)
(* frames when the console sends more than the target rate.                *)
(***************************************************************************)
EXTENDS Naturals, Sequences, FiniteSets

CONSTANTS
    Target,     \* target_fps, with force_30fps
    Sources,    \* rates that are measured
    MaxFailures \* bound on the set-ups that fail

OutputAssumption ==
    /\ Target \in Nat \ {0} /\ Sources \subseteq Nat \ {0} /\ IsFiniteSet(Sources)
    /\ Sources # {} /\ MaxFailures \in Nat

\* What the stages INIT_FRAMEBUFFER .. INIT_AVC_DEC take, in this order.
Stages == <<
    <<"texture">>,
    <<"videodecblock", "videodecUnmap", "videodecContext", "library">>,
    <<"decoder_info", "decoder", "decoderblock">>,
    <<"instance">>>>

VARIABLES
    status,     \* video_status, 0 (INIT_GS) .. 4 stages
    held,       \* resources that the variables of the module name
    leaked,     \* (history) the number of resources whose name was overwritten
    failures,   \* (history) set-ups that failed
    active,     \* active_video_thread
    ready,      \* frame_ready_for_display
    pace,       \* pacing_accumulator
    source,     \* measured_incoming_fps
    dropped     \* (history) frames left out in a row

vars == <<status, held, leaked, failures, active, ready, pace, source, dropped>>

Part(stage, n) == {Stages[stage][i] : i \in 1 .. n}
Of(stage) == Part(stage, Len(Stages[stage]))
All == UNION {Of(i) : i \in 1 .. Len(Stages)}

-----------------------------------------------------------------------------
\* video_cleanup_*: each looks whether the status is its own.
CleanUpStages == <<4, 3, 2, 1>>

CleanUpOf(s, stage) ==
    IF s.status # stage THEN s ELSE [status |-> stage - 1, held |-> s.held \ Of(stage)]

CleanUp(state) ==
    LET order == CleanUpStages
        one   == CleanUpOf(state, order[1])
        two   == CleanUpOf(one, order[2])
        three == CleanUpOf(two, order[3])
    IN  CleanUpOf(three, order[4])

\* The resources of a stage up to the n-th: what was held under these names is lost, except
\* for the description of the decoder, which is used again.
Take(s, stage, n) ==
    [s EXCEPT !.held = @ \cup Part(stage, n),
              !.leaked = @ + Cardinality((s.held \cap Part(stage, n)) \ {"decoder_info"})]

\* A stage as a whole, unless it is set up already or comes after the one that fails.
Whole(s, stage, failing) ==
    IF stage <= s.status \/ stage >= failing THEN s
    ELSE [Take(s, stage, Len(Stages[stage])) EXCEPT !.status = stage]

\* vita_h264_setup, which fails in a stage after n of its resources, or in none.
SetUp(failing, n) ==
    /\ ~active
    /\ LET begin == [status |-> status, held |-> held, leaked |-> leaked]
           one   == Whole(begin, 1, failing)
           two   == Whole(one, 2, failing)
           three == Whole(two, 3, failing)
           taken == Whole(three, 4, failing)
       IN  IF failing > Len(Stages)
           THEN /\ status' = taken.status /\ held' = taken.held /\ leaked' = taken.leaked
                /\ active' = TRUE                   \* vita_h264_start
                /\ UNCHANGED failures
           ELSE /\ failures < MaxFailures
                /\ failures' = failures + 1
                /\ LET partly == Take(taken, failing, n)
                       clean  == CleanUp([status |-> partly.status, held |-> partly.held])
                   IN  status' = clean.status /\ held' = clean.held /\ leaked' = partly.leaked
                /\ UNCHANGED active
    /\ ready' = FALSE
    /\ UNCHANGED <<pace, source, dropped>>

\* vita_h264_stop and vita_h264_cleanup
Stop ==
    /\ active
    /\ active' = FALSE /\ ready' = FALSE
    /\ LET clean == CleanUp([status |-> status, held |-> held])
       IN  status' = clean.status /\ held' = clean.held
    /\ UNCHANGED <<leaked, failures, pace, source, dropped>>

\* vita_h264_decode_frame; a frame that is not shown yet is overwritten.
Decode ==
    /\ active /\ ready' = TRUE
    /\ UNCHANGED <<status, held, leaked, failures, active, pace, source, dropped>>

\* record_incoming_frame_sample: the rate of the last second.
Measure ==
    /\ active
    /\ source' \in Sources
    /\ UNCHANGED <<status, held, leaked, failures, active, ready, pace, dropped>>

\* Faulty variant: the credit of a frame left out is lost.
PacedAnew(credit) == [drop |-> credit < source, pace |-> IF credit < source THEN 0 ELSE credit - source]

\* should_drop_frame_for_pacing
Paced(credit) ==
    [drop |-> credit < source, pace |-> IF credit < source THEN credit ELSE credit - source]

\* vita_video_render_latest_frame
Render ==
    /\ ready /\ ready' = FALSE
    /\ IF Target >= source THEN dropped' = 0 /\ UNCHANGED pace
       ELSE LET paced == Paced(pace + Target)
            IN  pace' = paced.pace /\ dropped' = IF paced.drop THEN dropped + 1 ELSE 0
    /\ UNCHANGED <<status, held, leaked, failures, active, source>>

-----------------------------------------------------------------------------
Init ==
    /\ status = 0 /\ held = {} /\ leaked = 0 /\ failures = 0
    /\ active = FALSE /\ ready = FALSE
    /\ pace = 0 /\ source \in Sources /\ dropped = 0

Next ==
    \/ \E failing \in 1 .. Len(Stages) : \E n \in 0 .. Len(Stages[failing]) - 1 : SetUp(failing, n)
    \/ SetUp(Len(Stages) + 1, 0)
    \/ Stop \/ Decode \/ Measure \/ Render

Spec == Init /\ [][Next]_vars

-----------------------------------------------------------------------------
(* Properties *)

Highest == CHOOSE m \in Sources : \A n \in Sources : n <= m

TypeOK ==
    /\ status \in 0 .. Len(Stages) /\ held \subseteq All
    /\ active \in BOOLEAN /\ ready \in BOOLEAN

\* Between the streams nothing of the decoder is kept but what a set-up had taken in the
\* stage in which it failed; a stream without a failure before it leaves nothing, and loses
\* nothing (video.c, 230-441).
DecoderReturned ==
    /\ active => held = All
    /\ ~active => \/ failures = 0 /\ held = {}
                  \/ failures > 0 /\ "texture" \notin held /\ "instance" \notin held
    /\ failures = 0 => leaked = 0

\* A slower target never leaves out more frames in a row than the rates ask for, also when
\* the measured rate changes (lines 125-144).
PictureMoves == dropped * Target < Highest
=============================================================================
