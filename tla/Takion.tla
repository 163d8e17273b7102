------------------------------- MODULE Takion -------------------------------
(***************************************************************************)
(* The Takion thread of lib/src/takion.c: connecting, the handshake, the   *)
(* receive loop with its postponed packets, the data queue and its flush,  *)
(* and the end.  The data queue is used as InOrderBuffer promises it; what *)
(* the callback does with a message belongs to StreamConnection, but for   *)
(* the BANG that supplies the key of the remote (takion.h, set_crypt).     *)
(*                                                                         *)
(* The console numbers its data messages 0, 1, ... and its AV packets      *)
(* 1, 2, ...; the network loses, repeats and reorders data messages.  Time *)
(* passes in ticks of TAKION_JITTER_MIN_THRESHOLD_US.  A packet with a bad *)
(* MAC is freed unseen (1385) and stands for a lost one.                   *)
(***************************************************************************)
EXTENDS Integers, Sequences, FiniteSets, FiniteSetsExt, Functions

CONSTANTS
    QueueSize,      \* 2 ^ TAKION_REORDER_QUEUE_SIZE_EXP
    MaxTicks,       \* TAKION_JITTER_MAX_THRESHOLD_US in ticks
    Slots,          \* TAKION_POSTPONE_PACKETS_SIZE
    DrainMax,       \* packets taken without blocking (drain_i)
    BangPos,        \* the data message after which the key is known
    MaxData, MaxAv  \* bounds on the messages of the console (TLC only)

TakionAssumption ==
    /\ QueueSize \in Nat \ {0} /\ MaxTicks \in Nat \ {0} /\ Slots \in Nat
    /\ DrainMax \in Nat /\ MaxData \in Nat /\ MaxAv \in Nat /\ BangPos \in Nat

VARIABLES
    thread,         \* where the Takion thread is
    afterFlush,     \* where it goes after takion_flush_data_queue
    drained,        \* drain_count
    stop,           \* stop_pipe is signalled
    enableCrypt,    \* enable_crypt
    crypt,          \* gkcrypt_remote is set
    cryptKnown,     \* crypt_available
    postponed,      \* postponed_packets
    next, held,     \* data_queue: begin, and the age of each packet in it
    pulled,         \* ack of takion_flush_data_queue
    acked,          \* the last number acknowledged, -1 before the first
    dropRequest,    \* drop_data_queue_requested
    events,         \* what the callback was told: connected, disconnects
    given,          \* data messages handed to the callback or dropped on request
    skipped,        \* positions given up by skip_gap
    avSent,         \* AV packets of the console that have arrived
    avGiven,        \* AV packets handed to the callback
    avRefused       \* AV packets that found no slot

queueVars == <<next, held, pulled, acked, given, skipped>>
avVars    == <<postponed, avSent, avGiven, avRefused>>
ctlVars   == <<stop, enableCrypt, dropRequest>>
vars      == <<thread, afterFlush, drained, crypt, cryptKnown, events, queueVars, avVars, ctlVars>>

Goto(where) == thread' = where /\ UNCHANGED <<afterFlush, drained>>
Handshaking == thread \in {"initAck", "cookieAck", "secondCookieAck"}
AtReceive   == thread \in {"receiving", "draining"}
Empty       == [n \in {} |-> 0]
FirstHeld   == Min(DOMAIN held)

-----------------------------------------------------------------------------
(* Connecting and closing, on the thread of the owner *)

\* chiaki_takion_connect: an error of the socket or the thread leaves no thread.
Connect ==
    /\ thread = "none"
    /\ thread' \in {"initAck", "refused"}
    /\ UNCHANGED <<afterFlush, drained, crypt, cryptKnown, events, queueVars, avVars, ctlVars>>

\* chiaki_takion_close joins the thread after it has signalled the pipe.
Close ==
    /\ thread \notin {"none", "refused"} /\ ~stop
    /\ stop' = TRUE
    /\ UNCHANGED <<thread, afterFlush, drained, enableCrypt, crypt, cryptKnown, dropRequest,
                   events, queueVars, avVars>>

\* chiaki_takion_request_drop_data_queue
RequestDrop ==
    /\ thread \notin {"none", "refused", "ended"} /\ ~dropRequest
    /\ dropRequest' = TRUE
    /\ UNCHANGED <<thread, afterFlush, drained, stop, enableCrypt, crypt, cryptKnown,
                   events, queueVars, avVars>>

-----------------------------------------------------------------------------
(* The end of the thread: data_queue and send buffer are finished, then the *)
(* callback is told.                                                        *)

\* Faulty variant: a failed handshake ends the thread without an event.
EndQuietly ==
    /\ Goto("ended")
    /\ held' = Empty
    /\ events' = IF Handshaking THEN events
                 ELSE [events EXCEPT !.disconnects = @ + 1]
    /\ UNCHANGED <<crypt, cryptKnown, next, pulled, acked, given, skipped, avVars, ctlVars>>

End ==
    /\ Goto("ended")
    /\ held' = Empty
    /\ events' = [events EXCEPT !.disconnects = @ + 1]
    /\ UNCHANGED <<crypt, cryptKnown, next, pulled, acked, given, skipped, avVars, ctlVars>>

\* Faulty variant: a stop does not cancel the wait for an answer.
HandshakeDeaf == Handshaking /\ ~stop /\ End

\* A timeout, a stop, a network error or a bad answer; nothing is sent again.
HandshakeFails == Handshaking /\ End

\* INIT_ACK with a good tag and enough streams; then COOKIE is sent.
InitAck ==
    /\ thread = "initAck" /\ ~stop
    /\ Goto("cookieAck")
    /\ UNCHANGED <<crypt, cryptKnown, events, queueVars, avVars, ctlVars>>

\* One repeated INIT_ACK is passed over.
RepeatedInitAck ==
    /\ thread = "cookieAck" /\ ~stop
    /\ Goto("secondCookieAck")
    /\ UNCHANGED <<crypt, cryptKnown, events, queueVars, avVars, ctlVars>>

CookieAck ==
    /\ thread \in {"cookieAck", "secondCookieAck"} /\ ~stop
    /\ Goto("top")
    /\ events' = [events EXCEPT !.connected = TRUE]
    /\ cryptKnown' = crypt
    /\ UNCHANGED <<crypt, queueVars, avVars, ctlVars>>

-----------------------------------------------------------------------------
(* The head of the loop *)

\* The queue up to the first gap is thrown away and acknowledged.
HeadOfQueue == CHOOSE n \in next .. next + QueueSize :
                  n \notin DOMAIN held /\ \A k \in next .. n - 1 : k \in DOMAIN held

DropQueue ==
    /\ next' = HeadOfQueue
    /\ held' = Restrict(held, {n \in DOMAIN held : n > HeadOfQueue})
    /\ given' = given \cup (next .. HeadOfQueue - 1)
    /\ acked' = IF HeadOfQueue > next THEN HeadOfQueue - 1 ELSE acked
    /\ UNCHANGED <<pulled, skipped>>

TakeDropRequest ==
    /\ thread = "top"
    /\ Goto("recheck")
    /\ dropRequest' = FALSE
    /\ (dropRequest /\ DropQueue) \/ (~dropRequest /\ UNCHANGED queueVars)
    /\ UNCHANGED <<stop, enableCrypt, crypt, cryptKnown, events, avVars>>

\* Re-checking the MACs peeks with no place for the number, which
\* chiaki_reorder_queue_peek writes for every packet it finds.
CryptAppears ==
    /\ thread = "recheck" /\ enableCrypt /\ crypt /\ ~cryptKnown
    /\ cryptKnown' = TRUE
    /\ Goto(IF held = Empty THEN "recheck" ELSE "crashed")
    /\ UNCHANGED <<crypt, events, queueVars, avVars, ctlVars>>

CryptSettled == ~(enableCrypt /\ crypt /\ ~cryptKnown)

\* Faulty variant: the postponed packets are forgotten with their array.
ForgetPostponed ==
    /\ thread = "recheck" /\ CryptSettled
    /\ Goto("receiving")
    /\ postponed' = IF crypt THEN <<>> ELSE postponed
    /\ UNCHANGED <<crypt, cryptKnown, events, queueVars, avSent, avGiven, avRefused, ctlVars>>

\* Postponed packets are handled in their order, then the thread blocks.
FlushPostponed ==
    /\ thread = "recheck" /\ CryptSettled
    /\ Goto("receiving")
    /\ \/ crypt /\ avGiven' = avGiven \o postponed /\ postponed' = <<>>
       \/ ~crypt /\ UNCHANGED <<avGiven, postponed>>
    /\ UNCHANGED <<crypt, cryptKnown, events, queueVars, avSent, avRefused, ctlVars>>

-----------------------------------------------------------------------------
(* Receiving: a blocking call, then up to DrainMax that do not block *)

\* Where the thread goes when the packet it has received is handled.
Drain ==
    IF thread = "receiving" THEN "draining" ELSE
    IF drained + 1 < DrainMax THEN "draining" ELSE "top"

Count == drained' = IF thread = "receiving" THEN 0 ELSE drained + 1

\* The stop pipe comes before the socket; the socket may fail by itself.
ReceiveFails == thread = "receiving" /\ End

\* Nothing more is there, or the pipe is signalled.
DrainEnds ==
    /\ thread = "draining"
    /\ Goto("top")
    /\ UNCHANGED <<crypt, cryptKnown, events, queueVars, avVars, ctlVars>>

\* The next AV packet; without the key it has to wait for it.
ReceiveAv ==
    /\ AtReceive /\ ~stop /\ avSent < MaxAv
    /\ avSent' = avSent + 1
    /\ thread' = Drain /\ Count /\ UNCHANGED afterFlush
    /\ \/ /\ ~enableCrypt \/ crypt
          /\ avGiven' = Append(avGiven, avSent')
          /\ UNCHANGED <<postponed, avRefused>>
       \/ /\ enableCrypt /\ ~crypt /\ Len(postponed) < Slots
          /\ postponed' = Append(postponed, avSent')
          /\ UNCHANGED <<avGiven, avRefused>>
       \/ /\ enableCrypt /\ ~crypt /\ Len(postponed) = Slots
          /\ avRefused' = avRefused \cup {avSent'}
          /\ UNCHANGED <<avGiven, postponed>>
    /\ UNCHANGED <<crypt, cryptKnown, events, queueVars, ctlVars>>

\* A message that is no data, is too short or unknown, or an acknowledgement:
\* the send buffer is TakionSendBuffer's.
ReceiveOther ==
    /\ AtReceive /\ ~stop
    /\ thread' = Drain /\ Count /\ UNCHANGED afterFlush
    /\ UNCHANGED <<crypt, cryptKnown, events, queueVars, avVars, ctlVars>>

\* Faulty variant: a message ahead of the window is stored all the same.
ReceiveAhead(n) ==
    /\ AtReceive /\ ~stop
    /\ held' = IF n >= next /\ n \notin DOMAIN held
               THEN [k \in DOMAIN held \cup {n} |-> IF k = n THEN 0 ELSE held[k]]
               ELSE held
    /\ pulled' = FALSE
    /\ thread' = "flushing" /\ afterFlush' = Drain /\ Count
    /\ UNCHANGED <<crypt, cryptKnown, events, next, acked, given, skipped, avVars, ctlVars>>

\* A data message is pushed; late, repeated and far ones are dropped.
ReceiveData(n) ==
    /\ AtReceive /\ ~stop
    /\ held' = IF n \in next .. next + QueueSize - 1 /\ n \notin DOMAIN held
               THEN [k \in DOMAIN held \cup {n} |-> IF k = n THEN 0 ELSE held[k]]
               ELSE held
    /\ pulled' = FALSE
    /\ thread' = "flushing" /\ afterFlush' = Drain /\ Count
    /\ UNCHANGED <<crypt, cryptKnown, events, next, acked, given, skipped, avVars, ctlVars>>

-----------------------------------------------------------------------------
(* takion_flush_data_queue, one round of its loop at a time *)

Pull ==
    /\ thread = "flushing" /\ next \in DOMAIN held
    /\ held' = Restrict(held, DOMAIN held \ {next})
    /\ next' = next + 1 /\ pulled' = TRUE
    /\ given' = given \cup {next}
    /\ crypt' \in {crypt} \cup (IF next = BangPos /\ enableCrypt THEN {TRUE} ELSE {})
    /\ UNCHANGED <<thread, afterFlush, drained, cryptKnown, events, acked, skipped, avVars, ctlVars>>

Gap == next \notin DOMAIN held /\ held # Empty

\* The jitter gives a threshold between the two limits.
SkipGap ==
    /\ thread = "flushing" /\ Gap
    /\ \E threshold \in 1 .. MaxTicks : held[FirstHeld] > threshold
    /\ next' = FirstHeld
    /\ skipped' = skipped \cup (next .. FirstHeld - 1)
    /\ UNCHANGED <<thread, afterFlush, drained, crypt, cryptKnown, events, held, pulled, acked,
                   given, avVars, ctlVars>>

\* Faulty variant: the number behind a gap is acknowledged as well.
FlushEndsAckAll ==
    /\ thread = "flushing"
    /\ held = Empty \/ (Gap /\ \E threshold \in 1 .. MaxTicks : held[FirstHeld] <= threshold)
    /\ acked' = IF pulled THEN Max({next - 1} \cup DOMAIN held) ELSE acked
    /\ thread' = afterFlush
    /\ UNCHANGED <<afterFlush, drained, crypt, cryptKnown, events, next, held, pulled, given,
                   skipped, avVars, ctlVars>>

\* The queue is empty or its gap is young; what was pulled is acknowledged.
FlushEnds ==
    /\ thread = "flushing"
    /\ held = Empty \/ (Gap /\ \E threshold \in 1 .. MaxTicks : held[FirstHeld] <= threshold)
    /\ acked' = IF pulled THEN next - 1 ELSE acked
    /\ thread' = afterFlush
    /\ UNCHANGED <<afterFlush, drained, crypt, cryptKnown, events, next, held, pulled, given,
                   skipped, avVars, ctlVars>>

\* Ages saturate once no threshold tells them apart.
Tick ==
    /\ \E n \in DOMAIN held : held[n] <= MaxTicks
    /\ held' = [n \in DOMAIN held |-> Min({held[n] + 1, MaxTicks + 1})]
    /\ UNCHANGED <<thread, afterFlush, drained, crypt, cryptKnown, events, next, pulled, acked,
                   given, skipped, avVars, ctlVars>>

-----------------------------------------------------------------------------
Init ==
    /\ thread = "none" /\ afterFlush = "top" /\ drained = 0
    /\ stop = FALSE /\ enableCrypt \in BOOLEAN /\ dropRequest = FALSE
    /\ crypt = FALSE /\ cryptKnown = FALSE
    /\ events = [connected |-> FALSE, disconnects |-> 0]
    /\ next = 0 /\ held = Empty /\ pulled = FALSE /\ acked = -1
    /\ given = {} /\ skipped = {}
    /\ postponed = <<>> /\ avSent = 0 /\ avGiven = <<>> /\ avRefused = {}

Handshake == InitAck \/ RepeatedInitAck \/ CookieAck \/ HandshakeFails
LoopHead  == TakeDropRequest \/ CryptAppears \/ FlushPostponed
Flush     == Pull \/ SkipGap \/ FlushEnds
Arrivals  == ReceiveAv \/ ReceiveOther \/ \E n \in 0 .. MaxData - 1 : ReceiveData(n)

TakionThread == Handshake \/ LoopHead \/ Flush \/ Arrivals \/ DrainEnds \/ ReceiveFails

Next == Connect \/ Close \/ RequestDrop \/ TakionThread \/ Tick

\* The thread is scheduled, its timed waits end, and a signalled pipe wakes the
\* blocking call.  Nothing has to arrive.
Progress == Handshake \/ LoopHead \/ Flush \/ DrainEnds \/ (stop /\ ReceiveFails)

Fairness == WF_vars(Progress)

Spec == Init /\ [][Next]_vars /\ Fairness

-----------------------------------------------------------------------------
(* Properties *)

Threads == {"none", "refused", "initAck", "cookieAck", "secondCookieAck", "top", "recheck",
            "receiving",
            "draining", "flushing", "ended", "crashed"}

TypeOK ==
    /\ thread \in Threads /\ afterFlush \in {"top", "draining"} /\ drained \in 0 .. DrainMax
    /\ {stop, enableCrypt, crypt, cryptKnown, dropRequest, pulled} \subseteq BOOLEAN
    /\ next \in 0 .. MaxData /\ acked \in -1 .. MaxData - 1
    /\ DOMAIN held \subseteq next .. next + QueueSize - 1
    /\ Len(postponed) <= Slots

\* The owner hears DISCONNECT exactly once, as the last event and however the
\* thread ends, and CONNECTED before anything else (lines 1088-1288).
EventsFramed ==
    /\ events.disconnects = (IF thread = "ended" THEN 1 ELSE 0)
    /\ given # {} \/ avGiven # <<>> => events.connected

\* Every position the console is told to forget was handed over, dropped on
\* request or given up for its age, whatever order the messages came in: the
\* acknowledgement is cumulative (lines 1470-1585).  None is both.
AckCoversOnlyHandled == 0 .. acked \subseteq given \cup skipped /\ given \cap skipped = {}

\* Once the key is known every AV packet that has come is handed over before the
\* thread blocks, but for those that found no slot: none stays behind in
\* postponed_packets (lines 1176-1191, 1357-1380).
NoAvLeftBehind ==
    thread = "receiving" /\ (crypt \/ ~enableCrypt) =>
        Range(avGiven) \cup avRefused = 1 .. avSent

\* chiaki_takion_close returns: the thread ends wherever the stop finds it
\* (lines 524-532, 1290-1296), unless the re-check has ended the program.
StopEndsThread == stop ~> thread \in {"ended", "crashed"}

\* The re-check of the queued packets completes (lines 1151-1174).
RecheckCompletes == thread # "crashed"
=============================================================================
