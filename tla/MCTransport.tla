---------------------------- MODULE MCTransport ----------------------------
(***************************************************************************)
(* The components of the transport layer that share no state, on one       *)
(* bench: the initial state chooses which of them runs, the others stay as *)
(* they were initialised.  Every component is explored with all of its own *)
(* interleavings, exactly as if it were alone.                             *)
(***************************************************************************)
EXTENDS Naturals

CONSTANTS Modulus

CONSTANTS QueueSize, MaxTicks, Slots, DrainMax, BangPos, MaxData, MaxAv
CONSTANTS Senders, Sizes, Chunk, Chunks, MaxPos
CONSTANTS Refresh, Reordering, MaxMacPos
CONSTANTS Buttons, Sticks, HistorySize, MaxChanges
CONSTANTS StatsModulus, MaxUnits, MaxFrames, MaxGens, MaxArrivals, Spread
CONSTANTS Stages, FinishStage, Tries, Start, SendingThreads, BufferSize, ResendTriesMax,
          MaxMessages
CONSTANTS SendSize, SendTries, ResendTicks, SendStart, SendThreads, MaxSends, MaxStale,
          MaxArranged
CONSTANTS Min, Max, Retries, Pings, Paths, MaxLost, Late
CONSTANTS Known, Strangers, Six, Crowd, Extra, ProbeTries, Datagrams, ProbeFails
CONSTANTS Ports, LowPort, Dynamic, Steps, Homes, Guesses, RandomGuesses, PortsTaken

VARIABLE bench      \* the component that runs
VARIABLES thread, afterFlush, drained, stop, enableCrypt, crypt, cryptKnown, postponed,
          next, held, pulled, acked, dropRequest, events, given, skipped, avSent, avGiven,
          avRefused
VARIABLES keyPos, owner, range, step, served, content, populated, posMin, startOffset,
          lastPos, filler, fillStop
VARIABLES committed, keyIndex, keyCurrent, newest, verdict
VARIABLES down, stick, prevDown, prevStick, changed, quit, sender, unsent, history,
          seenDown, seenStick, missed, changes
VARIABLES genReceived, genLost, seqMin, seqMax, seqReceived, pushing, pushed, sentFrames,
          reporter, stopped, report, gens, total, reported, arrived, missing, orderly
VARIABLES stage, try, exchange, answers, answered, taken, sending, packets, resend, reached,
          promised, excused
VARIABLES buffered, count, allotted, inFlight, freed, pc, index, stale, timer, shouldStop,
          takion, undefined
VARIABLES phase, state, finished, tag, search, pongs, mtu, err, net, path, lost
VARIABLES probe, table, open, asked, hole, budget
VARIABLES nat, replies, offer

T == INSTANCE Takion
K == INSTANCE KeyStream
C == INSTANCE PacketMac WITH MaxPos <- MaxMacPos
F == INSTANCE FeedbackSender
P == INSTANCE PacketStats WITH Modulus <- StatsModulus
R == INSTANCE Rudp
B == INSTANCE TakionSendBuffer WITH packets <- buffered, Size <- SendSize,
        TriesMax <- SendTries, Start <- SendStart, Senders <- SendThreads
M == INSTANCE Senkusha WITH probe <- search
H == INSTANCE HoleProbe WITH Tries <- ProbeTries, SendFails <- ProbeFails
N == INSTANCE StunPorts WITH Low <- LowPort, Taken <- PortsTaken

ASSUME MCTransportAssumption ==
    /\ T!TakionAssumption /\ K!KeyStreamAssumption /\ C!PacketMacAssumption
    /\ F!FeedbackAssumption /\ P!PacketStatsAssumption /\ R!RudpAssumption
    /\ B!SendBufferAssumption /\ M!SenkushaAssumption /\ H!ProbeAssumption
    /\ N!StunAssumption
    /\ Modulus \in Nat \ {0} /\ Modulus = 2 * C!Half
    /\ StatsModulus \in Nat \ {0} /\ StatsModulus = 2 * P!Half

takionVars == <<thread, afterFlush, drained, stop, enableCrypt, crypt, cryptKnown,
    postponed, next, held, pulled, acked, dropRequest, events, given, skipped, avSent,
    avGiven, avRefused>>
keysVars == <<keyPos, owner, range, step, served, content, populated, posMin, startOffset,
    lastPos, filler, fillStop>>
macVars == <<committed, keyIndex, keyCurrent, newest, verdict>>
feedbackVars == <<down, stick, prevDown, prevStick, changed, quit, sender, unsent, history,
    seenDown, seenStick, missed, changes>>
statsVars == <<genReceived, genLost, seqMin, seqMax, seqReceived, pushing, pushed,
    sentFrames, reporter, stopped, report, gens, total, reported, arrived, missing, orderly>>
rudpVars == <<stage, try, exchange, answers, answered, taken, sending, packets, resend,
    reached, promised, excused>>
bufferVars == <<buffered, count, allotted, inFlight, freed, pc, index, stale, timer,
    shouldStop, takion, undefined>>
measureVars == <<phase, state, finished, tag, search, pongs, mtu, err, net, path, lost>>
holeVars == <<probe, table, open, asked, hole, budget>>
portVars == <<nat, replies, offer>>
vars == <<bench, takionVars, keysVars, macVars, feedbackVars, statsVars, rudpVars,
    bufferVars, measureVars, holeVars, portVars>>

\* One initial state each of those that stay.
Init ==
    /\ bench \in {"takion", "keystream", "mac", "feedback", "stats", "rudp", "sendbuffer",
                  "senkusha", "probe", "stun"}
    /\ T!Init /\ K!Init /\ C!Init /\ F!Init /\ P!Init /\ R!Init /\ B!Init
    /\ M!Init /\ H!Init /\ N!Init
    /\ bench # "takion" => ~enableCrypt
    /\ bench # "feedback" => stick = CHOOSE s \in Sticks : TRUE
    /\ bench # "senkusha" => path = [in |-> Min, out |-> Min]
    /\ bench # "probe" => open = {4}
    /\ bench # "stun" => nat = [next |-> LowPort + 1, step |-> 0, taken |-> 0]

Takion ==
    /\ bench = "takion" /\ T!Next
    /\ UNCHANGED <<bench, keysVars, macVars, feedbackVars, statsVars, rudpVars, bufferVars,
        measureVars, holeVars, portVars>>

KeyStream ==
    /\ bench = "keystream" /\ K!Next
    /\ UNCHANGED <<bench, takionVars, macVars, feedbackVars, statsVars, rudpVars,
        bufferVars, measureVars, holeVars, portVars>>

Mac ==
    /\ bench = "mac" /\ C!Next
    /\ UNCHANGED <<bench, takionVars, keysVars, feedbackVars, statsVars, rudpVars,
        bufferVars, measureVars, holeVars, portVars>>

Feedback ==
    /\ bench = "feedback" /\ F!Next
    /\ UNCHANGED <<bench, takionVars, keysVars, macVars, statsVars, rudpVars, bufferVars,
        measureVars, holeVars, portVars>>

Stats ==
    /\ bench = "stats" /\ P!Next
    /\ UNCHANGED <<bench, takionVars, keysVars, macVars, feedbackVars, rudpVars, bufferVars,
        measureVars, holeVars, portVars>>

Rudp ==
    /\ bench = "rudp" /\ R!Next
    /\ UNCHANGED <<bench, takionVars, keysVars, macVars, feedbackVars, statsVars,
        bufferVars, measureVars, holeVars, portVars>>

SendBuffer ==
    /\ bench = "sendbuffer" /\ B!Next
    /\ UNCHANGED <<bench, takionVars, keysVars, macVars, feedbackVars, statsVars, rudpVars,
        measureVars, holeVars, portVars>>

Senkusha ==
    /\ bench = "senkusha" /\ M!Next
    /\ UNCHANGED <<bench, takionVars, keysVars, macVars, feedbackVars, statsVars, rudpVars,
        bufferVars, holeVars, portVars>>

Probe ==
    /\ bench = "probe" /\ H!Next
    /\ UNCHANGED <<bench, takionVars, keysVars, macVars, feedbackVars, statsVars, rudpVars,
        bufferVars, measureVars, portVars>>

Stun ==
    /\ bench = "stun" /\ N!Next
    /\ UNCHANGED <<bench, takionVars, keysVars, macVars, feedbackVars, statsVars, rudpVars,
        bufferVars, measureVars, holeVars>>

Next == Takion \/ KeyStream \/ Mac \/ Feedback \/ Stats \/ Rudp \/ SendBuffer \/ Senkusha
        \/ Probe \/ Stun

\* The fairness of each component, while the bench is its own.
Fairness ==
    /\ WF_takionVars(bench = "takion" /\ T!Progress)
    /\ WF_keysVars(bench = "keystream" /\ K!Filler)
    /\ WF_feedbackVars(bench = "feedback" /\ F!Sender)
    /\ SF_feedbackVars(bench = "feedback" /\ F!Timeout(TRUE))
    /\ WF_rudpVars(bench = "rudp" /\ R!Progress)
    /\ WF_bufferVars(bench = "sendbuffer" /\ ~undefined /\ B!ThreadStep)
    /\ WF_bufferVars(bench = "sendbuffer" /\ ~undefined /\ B!FiniStep)
    /\ WF_bufferVars(bench = "sendbuffer" /\ ~undefined /\ B!Tick)
    /\ WF_holeVars(bench = "probe" /\ H!Probes)

Spec == Init /\ [][Next]_vars /\ Fairness

-----------------------------------------------------------------------------
\* Every component keeps its types.
TypeOK ==
    /\ T!TypeOK /\ K!TypeOK /\ C!TypeOK /\ F!TypeOK /\ P!TypeOK /\ R!TypeOK
    /\ B!TypeOK /\ M!TypeOK /\ H!TypeOK /\ N!TypeOK

\* Takion neither loses nor repeats what it has taken from the network: only what was
\* handled is acknowledged, no AV packet stays behind once the key is there, and the
\* owner hears CONNECTED first and DISCONNECT once (takion.c, 1081-1288, 1357-1585).
\* Nor is what it sends lost or freed twice: overflow, acknowledgement, giving up and fini
\* agree on who frees a buffer, and an acknowledgement takes away exactly what it covers
\* (takionsendbuffer.c, 69-270).
TakionHandlesAll ==
    /\ bench = "takion" => T!EventsFramed /\ T!AckCoversOnlyHandled /\ T!NoAvLeftBehind
    /\ bench = "sendbuffer" => B!BuffersExact

\* No two packets share a key position, every request is served the key stream of its
\* own positions, and the receiver finds the position and the key of every good packet
\* (takion.c, 532-556, 1322-1355; gkcrypt.c, 283-374, 477-570).
KeysMatch == K!RangesDisjoint /\ K!ServedCorrectly /\ C!GenuineAccepted

\* What the player does reaches the console although packets are lost: buttons by the
\* repeated history, sticks by the repeated state, and no change stays unsent
\* (feedbacksender.c, 164-296; feedback.c, 183-208).
InputArrives == []F!ButtonsRecover /\ F!SticksArrive /\ F!ChangeIsSent

\* The reports to the console count every unit once and the loss as it was
\* (packetstats.c, 36-85; congestioncontrol.c, 7-39).
LossReportsExact == P!UnitsReportedOnce /\ P!ReportedLossExact

\* An answer counts only for the stage that asked for it, and a message that was
\* promised is re-sent until the console has it (rudp.c, 193-260, 439-546).
RudpKeepsPromises == R!StagesAnswered /\ R!PromiseKept

\* What is found out about the way to the console is so: the packet sizes that were
\* measured pass, though late answers to smaller probes keep coming; the hole that is
\* handed over is one socket that was asked and answered from, with no other left open;
\* the port the NAT gives next is among those the console is told of, though others behind
\* it take ports (senkusha.c, 388-803; holepunch.c, 2909-2989, 4477-5236; stun.h, 225-447).
PathsAreTrue ==
    /\ bench = "senkusha" => M!MtuIsTrue
    /\ bench = "probe" => H!TableFits /\ H!HoleIsWhole
    /\ bench = "stun" => N!NextIsOffered

\* The leads-to properties of the components (StopEndsThread, RingCatchesUp, FiniReturns,
\* ExchangeEnds, PacketsMoveOn, ProbingEnds), each while its bench runs: who is told to
\* stop, or has begun what has an end; and who has work left.
Asked ==
    CASE bench = "takion" -> stop
      [] bench = "keystream" -> fillStop
      [] bench = "feedback" -> quit
      [] bench = "rudp" -> TRUE
      [] bench = "sendbuffer" -> takion = "stopping" /\ ~B!NoPackets
      [] bench = "probe" -> probe.at = "asking"
      [] OTHER -> FALSE
Ended ==
    CASE bench = "takion" -> thread \in {"ended", "crashed"}
      [] bench = "keystream" -> filler = "ended"
      [] bench = "feedback" -> sender = "ended"
      [] bench = "rudp" -> exchange \in {"done", "failed"}
      [] bench = "sendbuffer" -> takion = "final" \/ undefined
      [] OTHER -> probe.at = "done"
Behind ==
    CASE bench = "keystream" -> K!ShouldGenerate
      [] bench = "sendbuffer" -> ~B!NoPackets
      [] OTHER -> FALSE

\* Every wait of the transport comes to an end: Takion's thread and the two helpers
\* end when they are stopped, the ring of the key stream catches up with the requests,
\* an exchange without an answer is given up, packets leave the send buffer, and the
\* probing of candidates has a result.
WaitsEnd ==
    /\ Asked ~> Ended
    /\ Behind ~> (~Behind \/ filler = "ended" \/ undefined)
=============================================================================
