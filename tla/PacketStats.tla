---------------------------- MODULE PacketStats -----------------------------
(***************************************************************************)
(* The counters of lib/src/packetstats.c between the Takion thread, which  *)
(* pushes audio frame numbers and the generations (frames) of the video,   *)
(* and the thread of lib/src/congestioncontrol.c, which reports and resets *)
(* them at every interval and is told to stop.                             *)
(*                                                                         *)
(* chiaki_packet_stats_push_seq takes no mutex: its increment reads and    *)
(* writes seq_received in two steps.  Frame numbers have 16 bits (Modulus);*)
(* a report carries 16 bits of each count.                                 *)
(***************************************************************************)
EXTENDS SeqNum

CONSTANTS
    MaxUnits,   \* bound on the units of a generation
    MaxFrames,  \* bound on the audio frames the console sends (TLC only)
    MaxGens,    \* bound on the generations (TLC only)
    MaxArrivals,\* bound on the frames of an interval (TLC only)
    Spread      \* how far a frame may be ahead or late (TLC only)

PacketStatsAssumption ==
    /\ MaxUnits \in Nat /\ MaxFrames \in Nat /\ MaxGens \in Nat
    /\ MaxArrivals \in Nat /\ Spread \in Nat /\ Spread * MaxArrivals < Half

VARIABLES
    genReceived, genLost, seqMin, seqMax, seqReceived,  \* the counters
    pushing,    \* push_seq: what it has read, or Idle
    pushed,     \* the number it pushes
    sentFrames, \* audio frames the console has sent
    reporter,   \* the congestion thread: "waiting", "ended"
    stopped,    \* stop_cond
    report,     \* the last report
    gens,       \* (history) generations pushed
    total,      \* (history) units received and lost in all generations
    reported,   \* (history) the same, as the reports told it
    arrived, missing,   \* (history) audio frames since the last report
    orderly     \* (history) no frame came late or twice, none during a report

counters == <<genReceived, genLost, seqMin, seqMax, seqReceived>>
history  == <<gens, total, reported, arrived, missing, orderly>>
vars     == <<counters, pushing, pushed, sentFrames, reporter, stopped, report, history>>

Idle == -1

\* chiaki_packet_stats_push_generation, with the mutex
PushGeneration ==
    /\ gens < MaxGens
    /\ gens' = gens + 1
    /\ \E received, lost \in 0 .. MaxUnits :
          /\ genReceived' = genReceived + received
          /\ genLost' = genLost + lost
          /\ total' = <<total[1] + received, total[2] + lost>>
    /\ UNCHANGED <<seqMin, seqMax, seqReceived, pushing, pushed, sentFrames, reporter, stopped,
                   report, reported, arrived, missing, orderly>>

\* A frame comes: the next, a later one, or an old one again.
FrameArrives(n) ==
    /\ pushing = Idle /\ arrived < MaxArrivals /\ seqReceived < MaxArrivals
    /\ n >= sentFrames - Spread /\ n <= sentFrames + Spread
    /\ pushing' = seqReceived /\ pushed' = n % Modulus
    /\ sentFrames' = IF n > sentFrames THEN n ELSE sentFrames
    /\ arrived' = arrived + 1
    /\ missing' = IF n > sentFrames THEN missing + (n - sentFrames - 1) ELSE missing
    /\ orderly' = (orderly /\ n > sentFrames)
    /\ UNCHANGED <<counters, reporter, stopped, report, gens, total, reported>>

\* chiaki_packet_stats_push_seq writes what it has incremented.
PushSeq ==
    /\ pushing # Idle
    /\ seqReceived' = pushing + 1
    /\ seqMax' = IF Gt(pushed, seqMax) THEN pushed ELSE seqMax
    /\ pushing' = Idle
    /\ UNCHANGED <<genReceived, genLost, seqMin, pushed, sentFrames, reporter, stopped, report,
                   history>>

\* The difference is computed with 64 bits: it is huge when seq_max has wrapped.
Wrapped    == seqMax < seqMin
SeqDiff    == seqMax - seqMin
SeqLost    == IF ~Wrapped /\ seqReceived > SeqDiff THEN SeqDiff ELSE SeqDiff - seqReceived
Bits16(n)  == n % Modulus

\* Faulty variant: the reports start from zero, not from the last frame.
ReportResettingMin ==
    /\ reporter = "waiting" /\ ~stopped
    /\ report' = [received |-> Bits16(genReceived + seqReceived),
                  lost |-> Bits16(genLost + SeqLost), due |-> Bits16(genLost + missing),
                  orderly |-> orderly /\ pushing = Idle]
    /\ reported' = <<reported[1] + genReceived, reported[2] + genLost>>
    /\ genReceived' = 0 /\ genLost' = 0 /\ seqMin' = 0 /\ seqReceived' = 0
    /\ arrived' = 0 /\ missing' = 0 /\ orderly' = (pushing = Idle)
    /\ UNCHANGED <<seqMax, pushing, pushed, sentFrames, reporter, stopped, gens, total>>

\* The interval ends: chiaki_packet_stats_get resets, a packet is sent.
Report ==
    /\ reporter = "waiting" /\ ~stopped
    /\ report' = [received |-> Bits16(genReceived + seqReceived),
                  lost |-> Bits16(genLost + SeqLost), due |-> Bits16(genLost + missing),
                  orderly |-> orderly /\ pushing = Idle]
    /\ reported' = <<reported[1] + genReceived, reported[2] + genLost>>
    /\ genReceived' = 0 /\ genLost' = 0 /\ seqMin' = seqMax /\ seqReceived' = 0
    /\ arrived' = 0 /\ missing' = 0 /\ orderly' = (pushing = Idle)
    /\ UNCHANGED <<seqMax, pushing, pushed, sentFrames, reporter, stopped, gens, total>>

\* chiaki_congestion_control_stop, and the thread when it sees the signal
Stop ==
    /\ ~stopped /\ stopped' = TRUE
    /\ UNCHANGED <<counters, pushing, pushed, sentFrames, reporter, report, history>>

ReporterEnds ==
    /\ reporter = "waiting" /\ stopped
    /\ reporter' = "ended"
    /\ UNCHANGED <<counters, pushing, pushed, sentFrames, stopped, report, history>>

Init ==
    /\ genReceived = 0 /\ genLost = 0 /\ seqMin = 0 /\ seqMax = 0 /\ seqReceived = 0
    /\ pushing = Idle /\ pushed = 0 /\ sentFrames = 0
    /\ reporter = "waiting" /\ stopped = FALSE
    /\ report = [received |-> 0, lost |-> 0, due |-> 0, orderly |-> TRUE]
    /\ gens = 0 /\ total = <<0, 0>> /\ reported = <<0, 0>>
    /\ arrived = 0 /\ missing = 0 /\ orderly = TRUE

Next ==
    \/ PushGeneration \/ PushSeq \/ Report \/ Stop \/ ReporterEnds
    \/ \E n \in 1 .. MaxFrames : FrameArrives(n)

Spec == Init /\ [][Next]_vars

-----------------------------------------------------------------------------
(* Properties *)

TypeOK ==
    /\ {seqMin, seqMax} \subseteq SeqNums
    /\ seqReceived \in Nat /\ genReceived \in Nat /\ genLost \in Nat
    /\ reporter \in {"waiting", "ended"}

\* Every unit of the video is reported exactly once, in whatever interval it
\* falls: counting and resetting exclude each other (lines 36-41, 51-85).
UnitsReportedOnce ==
    total = <<reported[1] + genReceived, reported[2] + genLost>>

\* The loss a report tells the console is the loss there was, also across a
\* wrap of the frame numbers, when the frames of the interval came in order and
\* none came while the report was made (lines 68-77; congestioncontrol.c, 24-34).
ReportedLossExact == report.orderly => report.lost = report.due
=============================================================================
