-------------------------- MODULE TakionSendBuffer --------------------------
(***************************************************************************)
(* The send buffer of lib/src/takionsendbuffer.c with its users in         *)
(* lib/src/takion.c: messages of the data channel stay in it until the     *)
(* remote acknowledges them, and a thread of its own re-sends them.        *)
(*                                                                         *)
(* Three kinds of actors share it: the threads that send messages, the     *)
(* Takion thread that handles acknowledgements and finally tears the       *)
(* buffer down, and the resend thread.  A message is named by its position *)
(* n in the order in which sequence numbers were allotted.  Time passes in *)
(* ticks of TAKION_DATA_RESEND_WAKEUP_TIMEOUT_MS.                          *)
(***************************************************************************)
EXTENDS SeqNum, Sequences, FiniteSets, Functions, Subsequence

CONSTANTS
    Size,       \* packets_size
    TriesMax,   \* TAKION_DATA_RESEND_TRIES_MAX
    ResendTicks,\* TAKION_DATA_RESEND_TIMEOUT_MS in wakeups of the resend thread
    Start,      \* seq_num_local after the handshake
    Senders,    \* how many threads send at the same time
    MaxSends,   \* bound on messages (TLC only; no code counterpart)
    MaxStale,   \* bound on the ticks the resend thread may lose without the mutex
    MaxArranged \* length of the arrays on which ack is compared with its definition

SendBufferAssumption ==
    /\ Size \in Nat /\ Size > 0
    /\ TriesMax \in Nat /\ TriesMax > 0
    /\ ResendTicks \in Nat /\ ResendTicks > 0
    /\ Start \in SeqNums
    /\ Senders \in Nat /\ MaxSends \in Nat /\ MaxStale \in Nat
    /\ MaxArranged \in 0 .. Half

VARIABLES
    packets,    \* the array: slots beyond count keep what was there before
    count,      \* packets_count
    allotted,   \* sequence numbers taken from seq_num_local
    inFlight,   \* messages sent but not yet pushed
    freed,      \* how often the buffer of a message was freed
    pc,         \* where the resend thread is
    index,      \* i of takion_send_buffer_resend
    stale,      \* ticks since the resend thread read "now"
    timer,      \* ticks until its timed wait ends
    shouldStop,
    takion,     \* "running", then the steps of fini up to "final"
    undefined   \* the buffer was used after fini had torn it down

vars == <<packets, count, allotted, inFlight, freed, pc, index, stale, timer,
          shouldStop, takion, undefined>>

Messages == 0 .. MaxSends - 1
NumberOf(n) == Add(Start, n)

OldEnough == ResendTicks + 1 + MaxStale

\* The resend thread holds the mutex except while it waits or gives up.
ThreadUnlocked == pc \in {"asleep", "dozing", "woken", "givingUp", "done"}

Live     == 1 .. count
NoPackets == count = 0
Buffered == {packets[k].n : k \in Live}
Free(ns) == freed' = [n \in Messages |-> IF n \in ns THEN freed[n] + 1 ELSE freed[n]]

-----------------------------------------------------------------------------
(* Senders: chiaki_takion_send_message_data and _cont *)

\* The number is allotted under seq_num_local_mutex, then the message is sent.
Send ==
    /\ allotted < MaxSends
    /\ Cardinality(inFlight) < Senders
    /\ allotted' = allotted + 1
    /\ inFlight' = inFlight \cup {allotted}
    /\ UNCHANGED <<packets, count, freed, pc, index, stale, timer, shouldStop, takion,
                   undefined>>

SendFails ==
    /\ allotted < MaxSends
    /\ Cardinality(inFlight) < Senders
    /\ allotted' = allotted + 1
    /\ Free({allotted})
    /\ UNCHANGED <<packets, count, inFlight, pc, index, stale, timer, shouldStop, takion,
                   undefined>>

\* Faulty variant: a push never wakes the resend thread.
NeverWoken == pc

\* push signals when the buffer was empty: the thread sleeps without timeout.
WokenByPush == IF NoPackets /\ pc \in {"asleep", "dozing"} THEN "woken" ELSE pc

FreedWhenRefused(n) == {n}

Refused(n) ==
    \/ count >= Size
    \/ \E k \in Live : NumberOf(packets[k].n) = NumberOf(n)

\* chiaki_takion_send_buffer_push; its result is ignored by the senders.
Push(n) ==
    /\ n \in inFlight
    /\ takion # "final" /\ ThreadUnlocked
    /\ inFlight' = inFlight \ {n}
    /\ \/ /\ Refused(n)
          /\ Free(FreedWhenRefused(n))
          /\ UNCHANGED <<packets, count, pc>>
       \/ /\ ~Refused(n)
          /\ packets' = [packets EXCEPT ![count + 1] = [n |-> n, tries |-> 0, age |-> 0]]
          /\ count' = count + 1
          /\ pc' = WokenByPush
          /\ UNCHANGED freed
    /\ UNCHANGED <<allotted, index, stale, timer, shouldStop, takion, undefined>>

\* A sender that is late locks a mutex that no longer exists.
PushAfterFini(n) ==
    /\ n \in inFlight
    /\ takion = "final"
    /\ undefined' = TRUE
    /\ UNCHANGED <<packets, count, allotted, inFlight, freed, pc, index, stale, timer,
                   shouldStop, takion>>

-----------------------------------------------------------------------------
(* chiaki_takion_send_buffer_ack *)

Covers(s, n) == NumberOf(n) = s \/ Lt(NumberOf(n), s)

\* Faulty variant: the old gap is closed but the new one starts at i.
CloseGapShort(a, i) ==
    [mem |-> [k \in DOMAIN a.mem |->
                IF k \in a.start .. i - a.shift - 1 THEN a.mem[k + a.shift] ELSE a.mem[k]],
     start |-> i, shift |-> a.shift + 1]

\* memmove of the packets between the gap and i over the gap
CloseGap(a, i) ==
    [mem |-> [k \in DOMAIN a.mem |->
                IF k \in a.start .. i - a.shift - 1 THEN a.mem[k + a.shift] ELSE a.mem[k]],
     start |-> i - a.shift, shift |-> a.shift + 1]

\* Only the number of a vacated slot is ever read again.
Vacated(p) == [p EXCEPT !.tries = 0, !.age = 0]

\* One iteration of the loop for an acknowledged packet at slot i; start 0
\* stands for SIZE_MAX.
AckSlot(a, i) ==
    IF a.start = 0 THEN [mem |-> a.mem, start |-> i, shift |-> 1]
    ELSE IF a.start + a.shift = i THEN [a EXCEPT !.shift = @ + 1]
    ELSE CloseGap(a, i)

\* The loop over the live slots: what it has made of the array after each.
AckLoop(mem, live, s) ==
    LET after[i \in 0 .. live] ==
            IF i = 0 THEN [mem |-> mem, start |-> 0, shift |-> 0]
            ELSE LET before == after[i - 1] IN
                 IF Covers(s, before.mem[i].n) THEN AckSlot(before, i) ELSE before
    IN  after

\* The loop and the final shift.
Compacted(mem, live, s) ==
    LET last == AckLoop(mem, live, s)[live]
    IN  IF last.start = 0 THEN last ELSE [CloseGap(last, live + 1) EXCEPT !.shift = last.shift]

Ack(s) ==
    LET done == Compacted(packets, count, s)
        left == count - done.shift
    IN
    /\ count' = left
    /\ packets' = [k \in 1 .. Size |-> IF k <= left THEN done.mem[k] ELSE Vacated(done.mem[k])]
    /\ Free({n \in Buffered : Covers(s, n)})

\* takion_handle_packet_message_data_ack: an old, repeated or current
\* acknowledgement of something that was sent.
DataAck(n) ==
    /\ takion = "running" /\ ThreadUnlocked
    /\ n < allotted
    /\ UNCHANGED <<allotted, inFlight, pc, index, stale, timer, shouldStop, takion, undefined>>
    /\ Ack(NumberOf(n))

-----------------------------------------------------------------------------
(* The resend thread *)

At(from, to) == pc = from /\ pc' = to

\* Top of the loop: which wait, and the first look at its predicate.
ChooseWait ==
    /\ \/ /\ NoPackets
          /\ pc = "top" /\ pc' = IF shouldStop THEN "pass" ELSE "beforeSleep"
          /\ UNCHANGED timer
       \/ /\ ~NoPackets
          /\ pc = "top" /\ pc' = IF shouldStop THEN "pass" ELSE "beforeDoze"
          /\ timer' = 1
    /\ UNCHANGED <<packets, count, allotted, inFlight, freed, index, stale, shouldStop,
                   takion, undefined>>

\* cond_wait: releases the mutex; from here on a signal is noticed.
FallAsleep ==
    /\ At("beforeSleep", "asleep") \/ At("beforeDoze", "dozing")
    /\ UNCHANGED <<packets, count, allotted, inFlight, freed, index, stale, timer,
                   shouldStop, takion, undefined>>

\* Out of the timed wait, by its timeout.
TimeOut ==
    /\ At("dozing", "pass")
    /\ timer = 0
    /\ UNCHANGED <<packets, count, allotted, inFlight, freed, index, stale, timer,
                   shouldStop, takion, undefined>>

\* After a signal the predicate is evaluated again; timer 1 marks the timed wait.
Recheck ==
    /\ pc = "woken"
    /\ pc' = IF timer > 0 /\ ~shouldStop THEN "beforeDoze"
             ELSE IF timer = 0 /\ ~shouldStop /\ NoPackets THEN "beforeSleep"
             ELSE "pass"
    /\ UNCHANGED <<packets, count, allotted, inFlight, freed, index, stale, timer,
                   shouldStop, takion, undefined>>

AfterWait == IF shouldStop THEN "done" ELSE "scan"

\* takion_send_buffer_resend reads the clock, unless the thread is to stop.
BeginPass ==
    /\ pc = "pass"
    /\ pc' = AfterWait
    /\ index' = 1
    /\ stale' = 0
    /\ timer' = 0
    /\ UNCHANGED <<packets, count, allotted, inFlight, freed, shouldStop, takion, undefined>>

\* now - last_send_ms is unsigned: a packet younger than "now" is expired too.
Expired(p) == p.age - stale > ResendTicks \/ p.age < stale

Resent(p) == [p EXCEPT !.age = stale, !.tries = @ + 1]

Scan ==
    /\ pc = "scan"
    /\ \/ /\ index > count
          /\ pc' = "top"
          /\ UNCHANGED <<packets, index>>
       \/ /\ index <= count /\ ~Expired(packets[index])
          /\ index' = index + 1
          /\ UNCHANGED <<packets, pc>>
       \/ /\ index <= count /\ Expired(packets[index])
          /\ packets[index].tries < TriesMax
          /\ packets' = [packets EXCEPT ![index] = Resent(@)]
          /\ index' = index + 1
          /\ UNCHANGED pc
       \/ /\ index <= count /\ Expired(packets[index])
          /\ packets[index].tries >= TriesMax
          /\ pc' = "givingUp"               \* unlocks the mutex
          /\ UNCHANGED <<packets, index>>
    /\ UNCHANGED <<count, allotted, inFlight, freed, stale, timer, shouldStop, takion,
                   undefined>>

\* Gives up on whatever the slot holds now: the packet is read again without
\* the mutex, when an acknowledgement may have moved another one there or
\* vacated it.  The array handed to ack has one entry.
GiveUp ==
    /\ At("givingUp", "scan")
    /\ Ack(NumberOf(packets[index].n))
    /\ UNCHANGED <<allotted, inFlight, index, stale, timer, shouldStop, takion, undefined>>

-----------------------------------------------------------------------------
(* chiaki_takion_send_buffer_fini, by the Takion thread; it takes no lock *)

FiniSetStop ==
    /\ takion = "running" /\ takion' = "stopping"
    /\ shouldStop' = TRUE
    /\ UNCHANGED <<packets, count, allotted, inFlight, freed, pc, index, stale, timer,
                   undefined>>

FiniSignal ==
    /\ takion = "stopping" /\ takion' = "joining"
    /\ pc' = IF pc \in {"asleep", "dozing"} THEN "woken" ELSE pc
    /\ UNCHANGED <<packets, count, allotted, inFlight, freed, index, stale, timer,
                   shouldStop, undefined>>

\* join, then free what is left
FiniFree ==
    /\ takion = "joining" /\ pc = "done"
    /\ takion' = "final"
    /\ Free(Buffered)
    /\ count' = 0
    /\ packets' = [k \in 1 .. Size |-> Vacated(packets[k])]
    /\ UNCHANGED <<allotted, inFlight, pc, index, stale, timer, shouldStop,
                   undefined>>

-----------------------------------------------------------------------------
Older(p) == [p EXCEPT !.age = IF @ < OldEnough THEN @ + 1 ELSE @]

\* 100 ms pass.  Steps under the mutex take no time worth a tick.
Tick ==
    /\ pc \in {"asleep", "dozing", "woken", "givingUp"}
    /\ takion # "final"
    /\ pc = "givingUp" => stale < MaxStale
    /\ packets' = [k \in 1 .. Size |-> IF k \in Live THEN Older(packets[k]) ELSE packets[k]]
    /\ stale' = IF pc = "givingUp" THEN stale + 1 ELSE stale
    /\ timer' = IF timer > 0 THEN timer - 1 ELSE 0
    /\ UNCHANGED <<count, allotted, inFlight, freed, pc, index, shouldStop, takion,
                   undefined>>

Init ==
    /\ packets = [k \in 1 .. Size |-> [n |-> 0, tries |-> 0, age |-> 0]]
    /\ count = 0 /\ allotted = 0 /\ inFlight = {}
    /\ freed = [n \in Messages |-> 0]
    /\ pc = "top" /\ index = 1 /\ stale = 0 /\ timer = 0
    /\ shouldStop = FALSE /\ takion = "running"
    /\ undefined = FALSE

ThreadStep == ChooseWait \/ FallAsleep \/ TimeOut \/ Recheck \/ BeginPass \/ Scan \/ GiveUp
FiniStep   == FiniSignal \/ FiniFree

Next ==
    /\ ~undefined
    /\ \/ Send \/ SendFails
       \/ \E n \in Messages : Push(n) \/ PushAfterFini(n) \/ DataAck(n)
       \/ ThreadStep
       \/ FiniSetStop \/ FiniStep
       \/ Tick

\* The resend thread, the rest of a fini once begun, senders that have sent,
\* and the clock go on; whether anything is sent, acknowledged or torn down is free.
Fairness ==
    /\ WF_vars(~undefined /\ ThreadStep)
    /\ WF_vars(~undefined /\ FiniStep)
    /\ WF_vars(~undefined /\ Tick)

Spec == Init /\ [][Next]_vars /\ Fairness

-----------------------------------------------------------------------------
TypeOK ==
    /\ packets \in [1 .. Size -> [n : Messages, tries : 0 .. TriesMax, age : 0 .. OldEnough]]
    /\ count \in 0 .. Size
    /\ allotted \in 0 .. MaxSends
    /\ inFlight \subseteq 0 .. allotted - 1
    /\ freed \in [Messages -> Nat]
    /\ pc \in {"top", "beforeSleep", "beforeDoze", "asleep", "dozing", "woken",
               "pass", "scan", "givingUp", "done"}
    /\ index \in 1 .. Size + 1
    /\ stale \in 0 .. MaxStale
    /\ timer \in {0, 1}
    /\ shouldStop \in BOOLEAN /\ undefined \in BOOLEAN
    /\ takion \in {"running", "stopping", "joining", "final"}

\* The buffer of every message is in exactly one place: with its sender, in one
\* slot, or freed once.  Overflow, acknowledgement, giving up (which acknowledges
\* without the mutex held in between) and fini must agree on who frees it.
FreedOnce ==
    \A n \in 0 .. allotted - 1 :
        Cardinality({k \in Live : packets[k].n = n})
          + (IF n \in inFlight THEN 1 ELSE 0) + freed[n] = 1

\* An acknowledgement takes away exactly the packets it covers, wherever they
\* are in the array, and leaves the others in their order: the in-place
\* compaction of ack (takionsendbuffer.c, 146-191) with its runs of gaps agrees
\* with Subsequence on every arrangement of packets up to MaxArranged.  The array
\* may be in any of them, so that the comparison is made once, at the start.
Arrangements ==
    {p \in UNION {[1 .. live -> [n : 0 .. MaxArranged - 1]] : live \in 0 .. MaxArranged} :
        IsInjective(p)}

AckRemovesExactly == allotted = 0 =>
    \A p \in Arrangements, n \in 0 .. MaxArranged - 1 :
        LET done == Compacted(p, Len(p), NumberOf(n))
        IN  SubSeq(done.mem, 1, Len(p) - done.shift) =
                Subsequence(p, {k \in DOMAIN p : ~Covers(NumberOf(n), p[k].n)})

\* Neither a buffer nor an entry of the array is lost or used twice.
BuffersExact == FreedOnce /\ AckRemovesExactly

\* No message stays in the buffer: once the senders are silent it is empty in
\* the end, because every packet is acknowledged, given up after its tries, or
\* freed by fini.  The resend thread must never sleep without timeout over a
\* filled buffer (takionsendbuffer.c, 124-128, 221-226).
EveryPacketRetired == (count > 0) ~> (count = 0 \/ undefined)

\* A fini that finds packets in the buffer returns, although it signals
\* without the mutex: the resend thread is in a timed wait then.
FiniWithPacketsReturns ==
    (takion = "stopping" /\ count > 0) ~> (takion = "final" \/ undefined)

\* Packets leave the buffer, whoever takes them out.
PacketsMoveOn == EveryPacketRetired /\ FiniWithPacketsReturns

\* Not true of this code: the array that ack fills is at least as long as what it stores; the resend
\* thread hands it one entry (takionsendbuffer.c, 259-260; the header, line 53).
AckArrayFits == [][GiveUp => count - count' <= 1]_vars
=============================================================================
