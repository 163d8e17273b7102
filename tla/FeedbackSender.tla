--------------------------- MODULE FeedbackSender ---------------------------
(***************************************************************************)
(* The feedback sender of lib/src/feedbacksender.c with the history buffer *)
(* of lib/src/feedback.c: the application sets the controller state, a     *)
(* thread sends the analog part as a state and every button or touch that  *)
(* changed as an event, each packet with the last events before it.        *)
(*                                                                         *)
(* A packet may be lost.  The console takes from a history packet, for     *)
(* every button in it, the newest event: this is why events are repeated.  *)
(* The thread holds state_mutex from its wait to its next wait.            *)
(***************************************************************************)
EXTENDS Naturals, Sequences

CONSTANTS
    Buttons,        \* buttons, triggers and touches, each down or not
    Sticks,         \* values of the analog part
    HistorySize,    \* FEEDBACK_HISTORY_BUFFER_SIZE
    MaxChanges      \* bound on the changes of the state (TLC only)

FeedbackAssumption == HistorySize \in Nat \ {0} /\ MaxChanges \in Nat

VARIABLES
    down, stick,            \* controller_state
    prevDown, prevStick,    \* controller_state_prev
    changed,                \* controller_state_changed
    quit,                   \* should_stop
    sender,                 \* "waiting", "events", "ended"
    unsent,                 \* buttons send_history has yet to compare
    history,                \* history_buf, newest first: <<button, down>>
    seenDown, seenStick,    \* what the console knows
    missed,                 \* history packets lost since the last that arrived
    changes                 \* changes made

stateVars == <<down, stick, prevDown, prevStick, changed, changes>>
seenVars  == <<seenDown, seenStick, missed>>
vars      == <<stateVars, quit, sender, unsent, history, seenVars>>

\* chiaki_feedback_sender_set_controller_state waits for the mutex.
SetControllerState ==
    /\ sender # "events" /\ ~quit /\ changes < MaxChanges
    /\ down' \in SUBSET Buttons /\ stick' \in Sticks
    /\ <<down, stick>>' # <<down, stick>>
    /\ changed' = TRUE /\ changes' = changes + 1
    /\ UNCHANGED <<prevDown, prevStick, quit, sender, unsent, history, seenVars>>

\* chiaki_feedback_sender_fini
Fini ==
    /\ sender # "events" /\ ~quit
    /\ quit' = TRUE
    /\ UNCHANGED <<stateVars, sender, unsent, history, seenVars>>

\* What the formats of lib/src/feedback.c keep of the controller: of the state its
\* analog part, of an event the button and whether it is down.
StatePacket == stick
Event(b) == <<b, b \in down>>

\* controller_state_equals_for_feedback_state
AnalogChanged == stick # prevStick

\* feedback_sender_send_state; the packet may be lost.
SendState(sent) == seenStick' \in {seenStick} \cup (IF sent THEN {StatePacket} ELSE {})

\* A change wakes the thread: the state is sent if its analog part differs,
\* the history if a button does.
Changed ==
    /\ sender = "waiting" /\ ~quit /\ changed
    /\ changed' = FALSE
    /\ SendState(AnalogChanged)
    /\ IF down # prevDown
       THEN /\ sender' = "events" /\ unsent' = (down \ prevDown) \cup (prevDown \ down)
            /\ UNCHANGED <<prevDown, prevStick>>
       ELSE /\ prevDown' = down /\ prevStick' = stick
            /\ UNCHANGED <<sender, unsent>>
    /\ UNCHANGED <<down, stick, changes, quit, history, seenDown, missed>>

\* Faulty variant: only a change is sent.
TimeoutSilent(arrives) ==
    /\ sender = "waiting" /\ ~quit /\ ~changed
    /\ prevDown' = down /\ prevStick' = stick
    /\ UNCHANGED <<down, stick, changed, changes, quit, sender, unsent, history, seenVars>>

\* The wait of FEEDBACK_STATE_TIMEOUT_MIN_MS ends: the state is sent again.
Timeout(arrives) ==
    /\ sender = "waiting" /\ ~quit /\ ~changed
    /\ seenStick' = IF arrives THEN StatePacket ELSE seenStick
    /\ prevDown' = down /\ prevStick' = stick
    /\ UNCHANGED <<down, stick, changed, changes, quit, sender, unsent, history, seenDown, missed>>

Latest(packet, b) ==
    LET first == CHOOSE i \in DOMAIN packet :
                    packet[i][1] = b /\ \A j \in 1 .. i - 1 : packet[j][1] # b
    IN  packet[first][2]

\* The packet of the whole buffer, which the console gets or not.
Transmit(packet) ==
    \/ /\ seenDown' = {b \in Buttons :
              IF \E i \in DOMAIN packet : packet[i][1] = b THEN Latest(packet, b)
              ELSE b \in seenDown}
       /\ missed' = 0
    \/ /\ UNCHANGED seenDown
       /\ missed' = IF missed < HistorySize THEN missed + 1 ELSE missed

\* Faulty variant: the buffer keeps its oldest events when it is full.
PushOldest(event) == IF Len(history) < HistorySize THEN <<event>> \o history ELSE history

\* chiaki_feedback_history_buffer_push
Push(event) == SubSeq(<<event>> \o history, 1, IF Len(history) < HistorySize
                                                THEN Len(history) + 1 ELSE HistorySize)

\* One round of feedback_sender_send_history: one event, one packet.
SendEvent ==
    /\ sender = "events" /\ unsent # {}
    /\ \E b \in unsent :
          /\ unsent' = unsent \ {b}
          /\ history' = Push(Event(b))
    /\ Transmit(history')
    /\ UNCHANGED <<stateVars, quit, sender, seenStick>>

EventsSent ==
    /\ sender = "events" /\ unsent = {}
    /\ sender' = "waiting"
    /\ prevDown' = down /\ prevStick' = stick
    /\ UNCHANGED <<down, stick, changed, changes, quit, unsent, history, seenVars>>

Ends ==
    /\ sender = "waiting" /\ quit
    /\ sender' = "ended"
    /\ UNCHANGED <<stateVars, quit, unsent, history, seenVars>>

\* chiaki_feedback_sender_init: everything idle; controller_state_changed and
\* should_stop are zero since the session was allocated.
Init ==
    /\ down = {} /\ prevDown = {} /\ seenDown = {}
    /\ stick \in Sticks /\ prevStick = stick /\ seenStick = stick
    /\ changed = FALSE /\ quit = FALSE /\ sender = "waiting"
    /\ unsent = {} /\ history = <<>> /\ missed = 0 /\ changes = 0

Sender == Changed \/ SendEvent \/ EventsSent \/ Ends

Next == SetControllerState \/ Fini \/ Sender \/ \E arrives \in BOOLEAN : Timeout(arrives)

\* The thread runs; of the states it repeats some arrive.
Fairness == WF_vars(Sender) /\ SF_vars(Timeout(TRUE))

Spec == Init /\ [][Next]_vars /\ Fairness

-----------------------------------------------------------------------------
(* Properties *)

TypeOK ==
    /\ {down, prevDown, seenDown, unsent} \subseteq SUBSET Buttons
    /\ {stick, prevStick, seenStick} \subseteq Sticks
    /\ Len(history) <= HistorySize /\ missed \in 0 .. HistorySize
    /\ sender \in {"waiting", "events", "ended"}

\* A button never stays wrong for longer than its packets are lost: when one of
\* the last HistorySize history packets was the first to arrive again, the
\* console knows every button (feedbacksender.c, 171-243; feedback.c, 181-208).
ButtonsRecover ==
    sender = "waiting" /\ missed = 0 =>
        \A b \in Buttons :
            (\E i \in DOMAIN history : history[i][1] = b) => (b \in seenDown <=> b \in prevDown)

\* The sticks the console knows are the ones held, once they are held still:
\* the state is repeated, and a change of buttons alone does not suppress it
\* for good (feedbacksender.c, 253-291).
SticksArrive == <>[](quit \/ seenStick = stick)

\* Every change of a button is sent: the sender does not rest with an event it
\* owes (feedbacksender.c, 265-292).
ChangeIsSent == changed ~> (quit \/ (prevDown = down /\ prevStick = stick))

\* chiaki_feedback_sender_fini returns.
FiniReturns == quit ~> sender = "ended"
=============================================================================
