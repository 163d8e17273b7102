----------------------------- MODULE VitaInput -----------------------------
(***************************************************************************)
(* The input thread of the Vita: vita/src/host_input.c, with the touches   *)
(* of lib/src/controller.c.                                                *)
(*                                                                         *)
(* In every loop the thread reads the fingers on the front screen and      *)
(* makes touches of the console's touchpad of those that lie where the     *)
(* touchpad is mapped.  A table of its own (mapped_touch_slots) says which *)
(* finger is which touch; the touches have ids of their own.  A finger     *)
(* that is lifted without having moved is a click.  L, R and Start held    *)
(* for long end the stream.                                                *)
(*                                                                         *)
(* Positions lie on a line.  The buttons are copied as they are, and left  *)
(* out.  While one finger rests, fewer touches begin than there are ids    *)
(* (128): Loop excludes a touch whose id is still in use (reused).         *)
(***************************************************************************)
EXTENDS Integers, FiniteSets, FiniteSetsExt

CONSTANTS
    Fingers,        \* the number of fingers
    Positions,      \* 1 .. Positions on the screen
    Mapped,         \* the positions mapped to the touchpad
    Touches,        \* CHIAKI_CONTROLLER_TOUCHES_MAX
    Ids,            \* TOUCH_ID_MASK + 1
    TapMove,        \* TOUCHPAD_TAP_MOVE_THRESHOLD
    Pulse,          \* TOUCHPAD_CLICK_PULSE_FRAMES
    ComboLoops      \* EXIT_COMBO_THRESHOLD

InputAssumption ==
    /\ Fingers \in Nat \ {0} /\ Positions \in Nat \ {0} /\ Mapped \subseteq 1 .. Positions
    /\ Touches \in Nat \ {0} /\ Ids \in Nat \ {0} /\ TapMove \in Nat
    /\ Pulse \in Nat \ {0} /\ ComboLoops \in Nat \ {0}

VARIABLES
    fingers,    \* position of each finger in the last loop, 0 when lifted
    slots,      \* mapped_touch_slots
    touches,    \* touches of the controller state
    idNext,     \* touch_id_next
    pulse,      \* pending_touchpad_click_frames
    hold,       \* exit_combo_hold
    gate,       \* controller_gate_open
    stop,       \* stop_requested
    origin,     \* (history) where the touch of a finger began, 0 without a touch
    dragged     \* (history) fingers that have been further away than a tap allows

vars == <<fingers, slots, touches, idNext, pulse, hold, gate, stop, origin, dragged>>

NoTouch == [id |-> -1, at |-> 0]
FreeSlot == [active |-> FALSE, finger |-> 0, id |-> -1, start |-> 0, moved |-> FALSE]
Apart(p, q) == IF p > q THEN p - q ELSE q - p

-----------------------------------------------------------------------------
(* lib/src/controller.c *)

First(places) == IF places = {} THEN 0 ELSE Min(places)      \* 0 if there is none

FreeTouch(s) == First({i \in 1 .. Touches : s.touches[i].id < 0})
TouchOf(s, id) == First({i \in 1 .. Touches : s.touches[i].id = id})

\* chiaki_controller_state_start_touch
StartTouch(s, at) ==
    [s EXCEPT !.touches[FreeTouch(s)] = [id |-> s.next, at |-> at],
              !.next = (s.next + 1) % Ids,
              !.reused = @ \/ TouchOf(s, s.next) # 0]

\* chiaki_controller_state_stop_touch
StopTouch(s, id) == IF TouchOf(s, id) = 0 THEN s ELSE [s EXCEPT !.touches[TouchOf(s, id)] = NoTouch]

\* chiaki_controller_state_set_touch_pos
SetTouchPos(s, id, at) ==
    IF TouchOf(s, id) = 0 THEN s ELSE [s EXCEPT !.touches[TouchOf(s, id)].at = at]

-----------------------------------------------------------------------------
(* One loop of host_input_thread_func *)

\* Faulty variant: the movement is measured from the last position, not from the first.
MoveTouchBySteps(s, slot, at) ==
    SetTouchPos([s EXCEPT !.slots[slot].moved = @ \/ Apart(at, s.slots[slot].start) > TapMove,
                          !.slots[slot].start = at,
                          !.seen = @ \cup {slot}], s.slots[slot].id, at)

MoveTouch(s, slot, at) ==
    SetTouchPos([s EXCEPT !.slots[slot].moved = @ \/ Apart(at, s.slots[slot].start) > TapMove,
                          !.seen = @ \cup {slot}], s.slots[slot].id, at)

ClaimSlot(s, finger, at) ==
    LET slot == First({i \in 1 .. Touches : ~s.slots[i].active}) IN
    IF slot = 0 \/ FreeTouch(s) = 0 THEN s
    ELSE [StartTouch(s, at) EXCEPT
             !.slots[slot] = [active |-> TRUE, finger |-> finger, id |-> s.next,
                              start |-> at, moved |-> FALSE],
             !.seen = @ \cup {slot}]

\* A finger that lies where the touchpad is mapped moves its touch or begins one.
Report(s, finger, at) ==
    LET slot == First({i \in 1 .. Touches : s.slots[i].active /\ s.slots[i].finger = finger}) IN
    IF at \notin Mapped THEN s
    ELSE IF slot # 0 THEN MoveTouch(s, slot, at)
    ELSE ClaimSlot(s, finger, at)

\* A touch whose finger was not seen ends; it was a tap when it had not moved.
Release(s, slot) ==
    IF ~s.slots[slot].active \/ slot \in s.seen THEN s
    ELSE [StopTouch(s, s.slots[slot].id) EXCEPT
             !.slots[slot] = FreeSlot,
             !.pulse = IF ~s.slots[slot].moved /\ @ < Pulse THEN Pulse ELSE @]

\* The fingers that are down are reported one after the other ...
Reports(s, now) ==
    LET after[f \in 0 .. Fingers] ==
            IF f = 0 THEN s
            ELSE IF now[f] = 0 THEN after[f - 1] ELSE Report(after[f - 1], f, now[f])
    IN  after[Fingers]

\* ... and then the slots are looked through.
Releases(s) ==
    LET after[i \in 0 .. Touches] == IF i = 0 THEN s ELSE Release(after[i - 1], i)
    IN  after[Touches]

AfterReports(now) ==
    Releases(Reports([slots |-> slots, touches |-> touches, next |-> idNext, seen |-> {},
                      reused |-> FALSE, pulse |-> IF pulse > 0 THEN pulse - 1 ELSE 0], now))

\* The finger that has a touch afterwards, with the place where the touch began.
Began(after, f) ==
    IF \A i \in 1 .. Touches : after.slots[i].finger # f THEN 0
    ELSE IF origin[f] # 0 THEN origin[f] ELSE fingers'[f]

Loop(now) ==
    /\ gate /\ ~stop
    /\ LET after == AfterReports(now) IN
       /\ ~after.reused
       /\ fingers' = now /\ slots' = after.slots /\ touches' = after.touches
       /\ idNext' = after.next /\ pulse' = after.pulse
       /\ origin' = [f \in 1 .. Fingers |-> Began(after, f)]
       /\ dragged' = {f \in 1 .. Fingers : origin'[f] # 0 /\ (f \in dragged
                                               \/ Apart(now[f], origin'[f]) > TapMove)}
    /\ hold' = 0
    /\ UNCHANGED <<gate, stop>>

\* L, R and Start are held, the fingers rest: request_stream_stop in the end.
ComboLoop ==
    /\ gate /\ ~stop
    /\ stop' = (hold + 1 >= ComboLoops)
    /\ hold' = IF stop' THEN 0 ELSE hold + 1
    /\ pulse' = IF pulse > 0 /\ ~stop' THEN pulse - 1 ELSE pulse
    /\ UNCHANGED <<fingers, slots, touches, idNext, gate, origin, dragged>>

\* The events of the session open and close the gate; the loop idles meanwhile.
Gate ==
    /\ ~stop
    /\ gate' = ~gate
    /\ UNCHANGED <<fingers, slots, touches, idNext, pulse, hold, stop, origin, dragged>>

-----------------------------------------------------------------------------
\* A new stream: the controller state is idle, the table of the thread is empty.
Init ==
    /\ fingers = [f \in 1 .. Fingers |-> 0]
    /\ slots = [i \in 1 .. Touches |-> FreeSlot]
    /\ touches = [i \in 1 .. Touches |-> NoTouch]
    /\ idNext = 0 /\ pulse = 0 /\ hold = 0 /\ gate = TRUE /\ stop = FALSE
    /\ origin = [f \in 1 .. Fingers |-> 0] /\ dragged = {}

Next ==
    \/ \E now \in [1 .. Fingers -> 0 .. Positions] : Loop(now)
    \/ ComboLoop \/ Gate

Spec == Init /\ [][Next]_vars

-----------------------------------------------------------------------------
(* Properties *)

TypeOK ==
    /\ fingers \in [1 .. Fingers -> 0 .. Positions] /\ idNext \in 0 .. Ids - 1
    /\ pulse \in 0 .. Pulse /\ hold \in 0 .. ComboLoops - 1

OnPad(f) == fingers[f] \in Mapped
Active == {i \in 1 .. Touches : slots[i].active}

\* The console sees one touch for each finger on the touchpad, where the finger is, as
\* long as there are touches; none stays when its finger is gone
\* (host_input.c, 344-412; controller.c, 36-76).
TouchesFollowFingers ==
    /\ \A i \in Active : /\ OnPad(slots[i].finger)
                         /\ \E t \in 1 .. Touches : touches[t] = [id |-> slots[i].id,
                                                                at |-> fingers[slots[i].finger]]
    /\ \A i, j \in Active : i # j => slots[i].finger # slots[j].finger
    /\ Cardinality({t \in 1 .. Touches : touches[t].id >= 0}) = Cardinality(Active)

\* A touch counts as a tap exactly when its finger never left the neighbourhood of the
\* place where it came down, however slowly it moved (lines 376-384, 399-401).
TapsAreStill == \A i \in Active : slots[i].moved <=> slots[i].finger \in dragged
=============================================================================
