-------------------------------- MODULE Rudp --------------------------------
(***************************************************************************)
(* The reliable UDP of a session over the internet: lib/src/remote/rudp.c  *)
(* with its send buffer, rudpsendbuffer.c.                                 *)
(*                                                                         *)
(* First one thread exchanges requests and answers with the console        *)
(* (chiaki_rudp_send_recv), stage by stage.  Then several threads send     *)
(* ctrl messages, which stay in the send buffer under a counter until the  *)
(* ctrl thread sees it acknowledged; the resend thread sends them again.   *)
(* A ctrl message is named by the counter value it took, counted from the  *)
(* start of the exchange without wrapping.  What the resend thread waits   *)
(* for is the design of TakionSendBuffer and is not repeated here.         *)
(***************************************************************************)
EXTENDS SeqNum, Sequences, FiniteSets, Subsequence

CONSTANTS
    Stages,         \* how many answers are waited for, one after the other
    FinishStage,    \* which of them is FINISH, 0 for none
    Tries,          \* the tries argument of chiaki_rudp_send_recv (3 in every call)
    Start,          \* the counter chosen by chiaki_rudp_reset_counter_header
    SendingThreads,        \* threads that send ctrl messages
    BufferSize,     \* RUDP_SEND_BUFFER_SIZE
    ResendTriesMax, \* RUDP_DATA_RESEND_TRIES_MAX
    MaxMessages     \* bound on ctrl messages (TLC only)

\* A session takes less than half of the counters, so that an acknowledgement of any age
\* is never taken for a newer one.
RudpAssumption ==
    /\ Stages \in Nat \ {0} /\ FinishStage \in 0 .. Stages
    /\ Tries \in Nat /\ Tries > 0 /\ Start \in SeqNums
    /\ BufferSize \in Nat /\ ResendTriesMax \in Nat /\ MaxMessages \in Nat
    /\ Stages * Tries + MaxMessages < Half

VARIABLES
    stage,      \* index of the answer waited for; Stages + 1 after the last
    try,        \* i of send_recv
    exchange,   \* "send", "receive", "done" or "failed"
    answers,    \* answers under way: a function of the stage
    answered,   \* the stages the console has answered
    taken,      \* how often the counter was increased
    sending,    \* per thread: where it is in send_ctrl_message, and with which values
    packets,    \* the send buffer, oldest push first
    resend,     \* i of the resend thread that has unlocked to give up, or 0
    reached,    \* ctrl messages the console has, in the order of counters
    promised,   \* ctrl messages whose sender was told SUCCESS
    excused     \* a packet was given up, or an unknown message acknowledged 0

exchangeVars == <<stage, try, exchange, answers, answered>>
bufferVars   == <<packets, resend, reached, promised, excused>>
vars == <<stage, try, exchange, answers, answered, taken, sending, packets, resend, reached,
          promised, excused>>

Idle == [at |-> "idle", own |-> 0, filed |-> 0]
counter == Add(Start, taken)
FirstMessage == Stages * Tries     \* an upper bound of what the exchange takes

-----------------------------------------------------------------------------
(* chiaki_rudp_send_recv *)

\* Requests take a counter, except the acknowledgement that asks for FINISH.
\* An error of the send is ignored, and the console answers or not.
TakesCounter == stage # FinishStage

SendRequest ==
    /\ exchange = "send" /\ exchange' = "receive"
    /\ taken' = IF TakesCounter THEN taken + 1 ELSE taken
    /\ \/ /\ answers' = [answers EXCEPT ![stage] = @ + 1]
          /\ answered' = answered \cup {stage}
       \/ UNCHANGED <<answers, answered>>
    /\ UNCHANGED <<stage, try, sending, bufferVars>>

NextTry ==
    /\ try' = try + 1
    /\ exchange' = IF try + 1 = Tries THEN "failed" ELSE "send"
    /\ UNCHANGED stage

\* RUDP_EXPECT_TIMEOUT_MS without a message: the answer may still come.
ReceiveTimeout ==
    /\ exchange = "receive"
    /\ NextTry
    /\ UNCHANGED <<answers, answered, taken, sending, bufferVars>>

\* A select or recv error, or a datagram without a header.  The stop pipe of
\* the instance is never notified, so that a stop does not end the wait.
ReceiveFails ==
    /\ exchange = "receive" /\ exchange' = "failed"
    /\ UNCHANGED <<stage, try, answers, answered, taken, sending, bufferVars>>

Advance ==
    /\ stage' = stage + 1
    /\ try' = 0
    /\ exchange' = IF stage = Stages THEN "done" ELSE "send"

\* Faulty variant: whatever arrives is the answer.
AcceptsAny(kinds) == TRUE

\* The message itself or one of its submessages has the expected subtype.
Accepts(kinds) == stage \in kinds

\* A datagram holds one answer, or two of different stages as message and
\* submessage; it may be too small for the stage.
ReceiveAnswer ==
    /\ exchange = "receive"
    /\ \E s, t \in DOMAIN answers, small \in BOOLEAN :
        /\ answers[s] > 0 /\ answers[t] > 0
        /\ answers' = [u \in DOMAIN answers |-> IF u \in {s, t} THEN answers[u] - 1
                                                ELSE answers[u]]
        /\ IF Accepts({s, t}) /\ ~small THEN Advance ELSE NextTry
    /\ UNCHANGED <<answered, taken, sending, bufferVars>>

LoseAnswer ==
    /\ \E s \in DOMAIN answers : answers[s] > 0
                                 /\ answers' = [answers EXCEPT ![s] = @ - 1]
    /\ exchange \in {"send", "receive"}
    /\ UNCHANGED <<stage, try, exchange, answered, taken, sending, bufferVars>>

-----------------------------------------------------------------------------
(* chiaki_rudp_send_ctrl_message and ..._switch_to_stream_connection_message *)

Step(t, from, rec) == sending[t].at = from /\ sending' = [sending EXCEPT ![t] = rec]

\* get_then_increase_counter, under counter_mutex
TakeCounter(t) ==
    /\ exchange = "done" /\ Cardinality(promised) + Cardinality(SendingThreads) <= MaxMessages
    /\ taken < FirstMessage + MaxMessages
    /\ Step(t, "idle", [at |-> "taken", own |-> taken, filed |-> 0])
    /\ taken' = taken + 1
    /\ UNCHANGED <<exchangeVars, bufferVars>>

\* counter_ack is read afterwards, without the mutex.
ReadCounterAck(t) ==
    /\ Step(t, "taken", [sending[t] EXCEPT !.at = "numbered", !.filed = taken])
    /\ UNCHANGED <<exchangeVars, taken, bufferVars>>

SendRaw(t) ==
    /\ Step(t, "numbered", [sending[t] EXCEPT !.at = "sent"])
    /\ UNCHANGED <<exchangeVars, taken, bufferVars>>

SendRawFails(t) ==
    /\ Step(t, "numbered", Idle)
    /\ UNCHANGED <<exchangeVars, taken, bufferVars>>

\* Full, or "Tried to push duplicate seqnum": the buffer is freed, the caller told.
PushRefused(t) ==
    \/ Len(packets) >= BufferSize
    \/ \E k \in DOMAIN packets : packets[k].filed = sending[t].filed

\* Faulty variant: a refusal is not reported.
PushSilently(t) ==
    /\ Step(t, "sent", Idle)
    /\ promised' = promised \cup {sending[t].own}
    /\ packets' = IF PushRefused(t) THEN packets
                  ELSE Append(packets, [own |-> sending[t].own, filed |-> sending[t].filed,
                                        tries |-> 0])
    /\ UNCHANGED <<exchangeVars, taken, resend, reached, excused>>

Push(t) ==
    /\ Step(t, "sent", Idle)
    /\ \/ /\ PushRefused(t)
          /\ UNCHANGED <<packets, promised>>
       \/ /\ ~PushRefused(t)
          /\ packets' = Append(packets, [own |-> sending[t].own, filed |-> sending[t].filed,
                                         tries |-> 0])
          /\ promised' = promised \cup {sending[t].own}
    /\ UNCHANGED <<exchangeVars, taken, resend, reached, excused>>

-----------------------------------------------------------------------------
(* The console and the acknowledgements *)

\* The console, external: takes ctrl messages in the order of their counters,
\* whichever transmission reaches it; it may have any prefix of those sent.
OnTheWay == {packets[k].own : k \in DOMAIN packets}
            \cup {sending[t].own : t \in {u \in SendingThreads : sending[u].at = "sent"}}

ConsoleReceives ==
    /\ \E n \in OnTheWay :
        /\ \A o \in OnTheWay \ reached : n <= o
        /\ n \notin reached
        /\ \A t \in SendingThreads : sending[t].at \in {"taken", "numbered"} => sending[t].own > n
        /\ reached' = reached \cup {n}
    /\ UNCHANGED <<exchangeVars, taken, sending, packets, resend, promised, excused>>

\* chiaki_rudp_send_buffer_ack
Acked(a) ==
    Subsequence(packets, {k \in DOMAIN packets : ~Le(Add(Start, packets[k].filed), a)})

\* The ctrl thread handles an acknowledgement of any age: the console
\* acknowledges a message with the counter after it.
AckPacket ==
    /\ \E n \in reached : packets' = Acked(Add(Start, n + 1))
    /\ UNCHANGED <<exchangeVars, taken, sending, resend, reached, promised, excused>>

\* A message of unknown type acknowledges the counter 0 (ctrl.c, 409, 457-458).
AckUnknown ==
    /\ exchange = "done"
    /\ packets' = Acked(0)
    /\ packets' # packets
    /\ excused' = TRUE
    /\ UNCHANGED <<exchangeVars, taken, sending, resend, reached, promised>>

-----------------------------------------------------------------------------
(* rudp_send_buffer_resend *)

Resend ==
    /\ resend = 0
    /\ \E k \in DOMAIN packets :
        \/ /\ packets[k].tries < ResendTriesMax
           /\ packets' = [packets EXCEPT ![k].tries = @ + 1]
           /\ UNCHANGED <<resend, excused>>
        \/ /\ packets[k].tries = ResendTriesMax
           /\ resend' = k                       \* unlocks
           /\ excused' = TRUE
           /\ UNCHANGED packets
    /\ UNCHANGED <<exchangeVars, taken, sending, reached, promised>>

\* The slot is read again without the lock: an acknowledgement may have moved
\* another packet into it.  A vacated slot still holds a number that was there.
GiveUp ==
    /\ resend # 0 /\ resend' = 0
    /\ \E filed \in (IF resend \in DOMAIN packets THEN {packets[resend].filed}
                     ELSE {n + 1 : n \in reached}) :
            packets' = Acked(Add(Start, filed))
    /\ UNCHANGED <<exchangeVars, taken, sending, reached, promised, excused>>

-----------------------------------------------------------------------------
Init ==
    /\ stage = 1 /\ try = 0 /\ exchange = "send"
    /\ answers = [s \in 1 .. Stages |-> 0]
    /\ answered = {} /\ taken = 0
    /\ sending = [t \in SendingThreads |-> Idle]
    /\ packets = <<>> /\ resend = 0
    /\ reached = {} /\ promised = {} /\ excused = FALSE

Exchange == SendRequest \/ ReceiveTimeout \/ ReceiveFails \/ ReceiveAnswer

Next ==
    \/ Exchange \/ LoseAnswer
    \/ \E t \in SendingThreads : TakeCounter(t) \/ ReadCounterAck(t) \/ SendRaw(t)
                          \/ SendRawFails(t) \/ Push(t)
    \/ ConsoleReceives \/ AckPacket \/ AckUnknown
    \/ Resend \/ GiveUp

\* Only the clock and the thread itself are sure to go on.
Progress == SendRequest \/ ReceiveTimeout

Fairness == WF_vars(Progress)

Spec == Init /\ [][Next]_vars /\ Fairness

-----------------------------------------------------------------------------
TypeOK ==
    /\ stage \in 1 .. Stages + 1 /\ try \in 0 .. Tries
    /\ exchange \in {"send", "receive", "done", "failed"}
    /\ DOMAIN answers = 1 .. Stages
    /\ \A s \in DOMAIN answers : answers[s] \in 0 .. Tries
    /\ taken \in 0 .. FirstMessage + MaxMessages
    /\ \A t \in SendingThreads : sending[t].at \in {"idle", "taken", "numbered", "sent"}
    /\ Len(packets) <= BufferSize /\ resend \in 0 .. BufferSize
    /\ promised \subseteq 0 .. taken - 1 /\ reached \subseteq 0 .. taken - 1
    /\ excused \in BOOLEAN

\* An answer counts for the stage that asked for it: late answers to earlier
\* tries, alone or with others in one datagram, never finish a stage the
\* console has not answered (rudp.c, 467-536).
StagesAnswered == 1 .. stage - 1 \subseteq answered

\* A ctrl message whose sender was told SUCCESS is re-sent until the console
\* has it: two senders that read the same counter, a full buffer and
\* acknowledgements of any age do not drop it (rudp.c, 193-260;
\* rudpsendbuffer.c, 130-235), as long as no packet was given up and no
\* message of unknown type came.
PromiseKept ==
    ~excused => \A n \in promised \ reached : \E k \in DOMAIN packets : packets[k].own = n

\* The exchange ends although the stop pipe of the instance is never notified
\* and the console may stay silent: every wait is a try (rudp.c, 439-546).
ExchangeEnds == <>(exchange \in {"done", "failed"})
=============================================================================
