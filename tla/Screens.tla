------------------------------ MODULE Screens ------------------------------
(***************************************************************************)
(* The screens of the Vita and what lies over them: the loop of ui.c, the  *)
(* focus stack of ui/ui_focus.c, the navigation of ui/ui_navigation.c, the *)
(* popups of ui/ui_components.c, the connection overlay of ui/ui_state.c   *)
(* and the screens of ui/ui_screens.c that start, show or cancel a         *)
(* connection.                                                             *)
(*                                                                         *)
(* The overlay of a connection belongs to four threads: the UI thread      *)
(* raises and cancels it, the worker (host_stream) and the quit handler    *)
(* cancel it, the thread of the video completes it.  Each tests            *)
(* connection_overlay_modal_pushed, pops the focus and only then clears    *)
(* the flag.  The life of the session is StreamLifecycle.tla; here it      *)
(* starts, may ask for a PIN, streams, restarts and quits.                 *)
(*                                                                         *)
(* Layout, animation and text are left out, whether the bar is expanded    *)
(* with them; so is the block of a finger that stays on the panel.         *)
(***************************************************************************)
EXTENDS Naturals, Sequences, FiniteSets

CONSTANTS
    MaxDepth,   \* UI_FOCUS_MAX_STACK_DEPTH - 1
    DebugMenuEnabled,
    Rapid       \* a whole frame may pass between two statements of another thread

ScreensAssumption == MaxDepth \in Nat \ {0} /\ {Rapid, DebugMenuEnabled} \subseteq BOOLEAN

VARIABLES
    screen,     \* the local variable of draw_ui
    focus,      \* the zones of the focus stack; the last is the current one
    owners,     \* who has its ..._modal_pushed flag set
    up,         \* what is shown over the screen
    stage,      \* connection_overlay.stage, "waking" or later
    pin,        \* pin_entry_active
    asleep,     \* the console is known to be in standby
    forced,     \* force_psn_holepunch
    worker,     \* host_stream: "none", "start", "run"
    session,    \* "none", "starting", "streaming", "restarting"
    stopping,   \* chiaki_session_stop was called
    popping,    \* the threads between the pop of the overlay and the clearing of its flag
    waiting,    \* the UI thread waits for the worker in ui_connection_cancel
    chosen,     \* (history) the way the user chose for the attempt under way
    route       \* (history) the way chosen for the last host_stream and the way it went

vars == <<screen, focus, owners, up, stage, pin, asleep, forced, worker, session, stopping,
          popping, waiting, chosen, route>>

Pages    == {"main", "page"}    \* "page": the settings, the profile, the controller
Overlays == {"connection", "error", "debug", "popup"}
Owners   == Overlays \cup {"register"}
Ways     == {"lan", "psn"}

Depth   == Len(focus) - 1
Zone    == focus[Len(focus)]
Focused == Zone \notin {"nav", "modal"}                    \* ui_focus_is_content
HasModal == Depth > 0 /\ Zone = "modal"

SetZone(stack, zone) == [stack EXCEPT ![Len(stack)] = zone]
PushModal(stack) == IF Len(stack) > MaxDepth THEN stack ELSE Append(stack, "modal")
PopModal(stack)  == IF Len(stack) = 1 THEN stack ELSE SubSeq(stack, 1, Len(stack) - 1)

\* A modal is pushed once per owner, and popped by an owner only.
PushOnce(owner) ==
    /\ owners' = owners \cup {owner}
    /\ focus' = IF owner \in owners THEN focus ELSE PushModal(focus)
PopOwned(owner) ==
    /\ owners' = owners \ {owner}
    /\ focus' = IF owner \in owners THEN PopModal(focus) ELSE focus

Init ==
    /\ screen = "main" /\ focus = <<"content">> /\ owners = {} /\ up = {}
    /\ stage = "waking" /\ pin = FALSE /\ asleep \in BOOLEAN
    /\ forced = FALSE /\ worker = "none" /\ session = "none" /\ stopping = FALSE
    /\ popping = {} /\ waiting = FALSE /\ chosen = "none" /\ route = <<>>

-----------------------------------------------------------------------------
(* Frames of the UI thread.  The reconnect overlay takes the screen, and so *)
(* does the PIN, which leaves the screen below as it was.                   *)

Drawing == session # "streaming" /\ ~waiting /\ "ui" \notin popping
Reconnecting == session = "restarting"
Shown == IF Reconnecting THEN "reconnecting"
         ELSE IF screen = "reconnecting" THEN "main" ELSE screen

\* The end of a frame: the registration owns a modal while it is the screen.
Turn(next, stack, own) ==
    /\ screen' = next
    /\ LET left == IF Shown = "register" /\ next # Shown /\ "register" \in own
                   THEN [f |-> PopModal(stack), o |-> own \ {"register"}]
                   ELSE [f |-> stack, o |-> own]
           enters == next = "register" /\ next # Shown /\ "register" \notin left.o
       IN  /\ focus' = IF enters THEN PushModal(left.f) ELSE left.f
           /\ owners' = IF enters THEN left.o \cup {"register"} ELSE left.o

Stay == Turn(Shown, focus, owners)
Buttons == "error" \notin up /\ "debug" \notin up           \* btn_pressed

\* handle_error_popup_input
DismissError ==
    /\ Drawing /\ "error" \in up
    /\ up' = up \ {"error"}
    /\ PopOwned("error")
    /\ UNCHANGED <<screen, stage, pin, asleep, forced, worker, session, stopping, popping,
                   waiting, chosen, route>>

\* handle_debug_menu_input and the combination that opens the menu.  Its first entry
\* shows the error popup, and every entry closes the menu.
DebugMenu ==
    /\ Drawing
    /\ \/ /\ DebugMenuEnabled /\ "debug" \notin up /\ up' = up \cup {"debug"} /\ PushOnce("debug")
       \/ /\ "debug" \in up /\ up' = up \ {"debug"} /\ PopOwned("debug")
       \/ /\ "debug" \in up /\ up' = (up \ {"debug"}) \cup {"error"}
          /\ owners' = (owners \ {"debug"}) \cup {"error"}
          /\ LET shown == IF "error" \in owners THEN focus ELSE PushModal(focus)
             IN  focus' = IF "debug" \in owners THEN PopModal(shown) ELSE shown
    /\ UNCHANGED <<screen, stage, pin, asleep, forced, worker, session, stopping, popping,
                   waiting, chosen, route>>

\* ui_focus_handle_zone_crossing: RIGHT leaves the navigation unless a modal traps it.
ZoneCrossing ==
    /\ Drawing /\ Buttons /\ ~HasModal /\ Zone = "nav"
    /\ Turn(Shown, SetZone(focus, "content"), owners)
    /\ UNCHANGED <<up, stage, pin, asleep, forced, worker, session, stopping, popping, waiting,
                   chosen, route>>

\* ui_nav_handle_shortcuts: Triangle or the pill, a touch of an icon or of the content,
\* UP, DOWN and Cross while the focus is on the bar.
Navigate ==
    /\ Drawing /\ ~pin /\ Shown \in Pages
    /\ \/ Turn(Shown, SetZone(focus, "nav"), owners)
       \/ \E page \in Pages : Turn(page, SetZone(focus, "nav"), owners)
       \/ /\ Buttons /\ Zone = "nav"
          /\ \E page \in Pages : Turn(page, focus, owners)
       \/ /\ Buttons /\ Zone = "nav"
          /\ \E page \in Pages : Turn(page, SetZone(focus, "content"), owners)
    /\ UNCHANGED <<up, stage, pin, asleep, forced, worker, session, stopping, popping, waiting,
                   chosen, route>>

-----------------------------------------------------------------------------
(* Connecting.  The flag of the Internet is captured and cleared, and put   *)
(* back where the thread is started or the console is woken first.          *)

\* (faulty) every begin pushes.
OverlaidAgain(stack) == PushModal(stack)
\* ui_connection_begin, with the modal pushed once.
Overlaid(stack) == IF "connection" \in owners THEN stack ELSE PushModal(stack)

\* ui_connection_start_thread: a worker that runs already will do.
StartThread == worker' = IF worker = "none" THEN "start" ELSE worker

\* (faulty) the captured flag is never put back.
RestoredNever(saved) == FALSE
\* The captured flag, where the attempt goes on.
Restored(saved) == saved

\* main_menu_activate_selected_card and the tap on a card, from a stack and with the flag
\* as the popup left them.
Activate(stack, own, flag, way) ==
    \/ \* the cooldown of the network
       /\ Turn("main", stack, own) /\ forced' = FALSE
       /\ UNCHANGED <<up, stage, worker, chosen>>
    \/ \* not registered
       /\ Turn("register", stack, own) /\ forced' = FALSE
       /\ UNCHANGED <<up, stage, worker, chosen>>
    \/ \* at rest: wake it; the thread is started by the waking screen
       /\ asleep
       /\ Turn("waking", Overlaid(stack), own \cup {"connection"})
       /\ up' = (up \ {"popup"}) \cup {"connection"} /\ stage' = "waking"
       /\ forced' = Restored(flag) /\ chosen' = way
       /\ UNCHANGED worker
    \/ /\ ~asleep
       /\ Turn("waking", Overlaid(stack), own \cup {"connection"})
       /\ up' = (up \ {"popup"}) \cup {"connection"} /\ stage' = "connecting"
       /\ StartThread
       /\ forced' = Restored(flag) /\ chosen' = way
    \/ \* the wake request or the thread fails: the overlay is cancelled at once
       /\ worker = "none"
       /\ Turn("main", IF "connection" \in owners THEN PopModal(stack) ELSE stack,
               own \ {"connection"})
       /\ up' = up \ {"connection", "popup"} /\ forced' = FALSE
       /\ UNCHANGED <<stage, worker, chosen>>

OnMain == Drawing /\ ~pin /\ Shown = "main"
MayConnect == OnMain /\ (Rapid \/ (popping = {} /\ worker # "start"))

\* Cross on a card: the local network.
PressCard ==
    /\ MayConnect /\ Buttons /\ Focused /\ "popup" \notin up
    /\ Activate(focus, owners, forced, "lan")
    /\ UNCHANGED <<pin, asleep, session, stopping, popping, waiting, route>>

\* A tap on a card: always the local network; nothing clears the flag on this way.
TapCard ==
    /\ MayConnect /\ up \cap {"error", "debug", "popup"} = {}
    /\ Activate(focus, owners, forced, "lan")
    /\ UNCHANGED <<pin, asleep, session, stopping, popping, waiting, route>>

\* Cross held on a card of a console that can be reached both ways.
OpenPopup ==
    /\ OnMain /\ Buttons /\ Focused /\ "popup" \notin up
    /\ up' = up \cup {"popup"}
    /\ Turn("main", PushModal(focus), owners \cup {"popup"})
    /\ UNCHANGED <<stage, pin, asleep, forced, worker, session, stopping, popping, waiting,
                   chosen, route>>

\* ui_connect_popup_update: a choice, or Circle.
AnswerPopup ==
    /\ MayConnect /\ Buttons /\ "popup" \in up
    /\ LET closed == owners \ {"popup"} IN
       \/ /\ up' = up \ {"popup"} /\ Turn("main", PopModal(focus), closed)
          /\ UNCHANGED <<stage, worker, forced, chosen>>
       \/ \E way \in Ways : Activate(PopModal(focus), closed, forced \/ way = "psn", way)
    /\ UNCHANGED <<pin, asleep, session, stopping, popping, waiting, route>>

\* Square: pair again.
Repair ==
    /\ OnMain /\ Buttons /\ Focused
    /\ Turn("register", focus, owners)
    /\ UNCHANGED <<up, stage, pin, asleep, forced, worker, session, stopping, popping,
                   waiting, chosen, route>>

\* The registration is confirmed or given up.
LeaveRegistration ==
    /\ Drawing /\ ~pin /\ Buttons /\ Shown = "register"
    /\ Turn("main", focus, owners)
    /\ UNCHANGED <<up, stage, pin, asleep, forced, worker, session, stopping, popping,
                   waiting, chosen, route>>

\* The PIN of the console: submitted, and the main screen comes next.
SubmitPin ==
    /\ Drawing /\ pin /\ Buttons
    /\ pin' = FALSE
    /\ Turn("main", focus, owners)
    /\ UNCHANGED <<up, stage, asleep, forced, worker, session, stopping, popping, waiting,
                   chosen, route>>

\* (faulty) an attempt whose thread fails only leaves the screen.
WakingLeaves ==
    /\ Drawing /\ ~pin /\ Shown = "waking"
    /\ \/ /\ "connection" \notin up
          /\ Turn("main", focus, owners)
          /\ UNCHANGED <<up, stage, worker>>
       \/ /\ "connection" \in up /\ stage = "waking" /\ ~asleep /\ session = "none"
          /\ \/ /\ stage' = "connecting" /\ StartThread /\ Stay /\ UNCHANGED up
             \/ /\ stage' = "connecting" /\ worker = "none" /\ UNCHANGED <<worker, up>>
                /\ Turn("main", focus, owners)
    /\ UNCHANGED <<pin, asleep, forced, session, stopping, popping, waiting, chosen, route>>

\* ui_screen_draw_waking: the overlay has gone, or the console is awake.
Waking ==
    /\ Drawing /\ ~pin /\ Shown = "waking"
    /\ \/ /\ "connection" \notin up
          /\ Turn("main", focus, owners)
          /\ UNCHANGED <<up, stage, worker>>
       \/ /\ "connection" \in up /\ stage = "waking" /\ ~asleep /\ session = "none"
          /\ \/ /\ stage' = "connecting" /\ StartThread /\ Stay /\ UNCHANGED up
             \/ /\ stage' = "connecting" /\ worker = "none" /\ UNCHANGED worker
                /\ up' = up \ {"connection"}
                /\ Turn("main", IF "connection" \in owners THEN PopModal(focus) ELSE focus,
                        owners \ {"connection"})
    /\ UNCHANGED <<pin, asleep, forced, session, stopping, popping, waiting, chosen, route>>

\* Circle on the waking screen: host_cancel_stream_request, then ui_connection_cancel,
\* which waits for the worker.
Cancel ==
    /\ Drawing /\ ~pin /\ Buttons /\ Shown = "waking" /\ "connection" \in up
    /\ stopping' = (session # "none")
    /\ up' = up \ {"connection"}
    /\ waiting' = TRUE
    /\ Turn("main", focus, owners)
    /\ UNCHANGED <<stage, pin, asleep, forced, worker, session, popping, chosen, route>>

CancelWaited ==
    /\ waiting /\ worker = "none"
    /\ waiting' = FALSE
    /\ popping' = popping \cup {"ui"}
    /\ focus' = IF "connection" \in owners THEN PopModal(focus) ELSE focus
    /\ UNCHANGED <<screen, owners, up, stage, pin, asleep, forced, worker, session,
                   stopping, chosen, route>>

-----------------------------------------------------------------------------
(* The other threads *)

\* The end of ui_connection_cancel and ui_connection_complete, on any thread.
FlagCleared ==
    \E t \in popping :
       /\ popping' = popping \ {t}
       /\ owners' = owners \ {"connection"}
       /\ worker' = IF t = "worker" THEN "none" ELSE worker
       /\ UNCHANGED <<screen, focus, up, stage, pin, asleep, forced, session, stopping,
                      waiting, chosen, route>>

OverlayDown(t) ==
    /\ up' = up \ {"connection"}
    /\ popping' = popping \cup {t}
    /\ focus' = IF "connection" \in owners THEN PopModal(focus) ELSE focus

\* host_stream takes the flag of the Internet as it is and clears it.
WorkerEnters ==
    /\ worker = "start"
    /\ worker' = "run"
    /\ route' = <<chosen, IF forced THEN "psn" ELSE "lan">>
    /\ forced' = FALSE /\ chosen' = "none"
    /\ UNCHANGED <<screen, focus, owners, up, stage, pin, asleep, session, stopping, popping,
                   waiting>>

\* It returns early (no host, no credentials, a session already), and the overlay stays;
\* or it starts a session; or it cleans up, which cancels the overlay.
WorkerEnds ==
    /\ worker = "run" /\ "worker" \notin popping
    /\ route' = <<>>
    /\ \/ worker' = "none" /\ UNCHANGED <<session, stopping, up, popping, focus>>
       \/ /\ session = "none" /\ session' = "starting" /\ worker' = "none" /\ stopping' = FALSE
          /\ UNCHANGED <<up, popping, focus>>
       \/ /\ session = "none" /\ OverlayDown("worker") /\ UNCHANGED <<worker, session, stopping>>
    /\ UNCHANGED <<screen, owners, stage, pin, asleep, forced, waiting, chosen>>

\* The console asks for its PIN (again).
PinRequested ==
    /\ session = "starting" /\ pin' = TRUE
    /\ UNCHANGED <<screen, focus, owners, up, stage, asleep, forced, worker, session,
                   stopping, popping, waiting, chosen, route>>

\* The first picture: host_video_cb.
FirstPicture ==
    /\ session \in {"starting", "restarting"} /\ ~stopping /\ "video" \notin popping
    /\ session' = "streaming"
    /\ IF "connection" \in up THEN OverlayDown("video") ELSE UNCHANGED <<up, popping, focus>>
    /\ UNCHANGED <<screen, owners, stage, pin, asleep, forced, worker, stopping, waiting,
                   chosen, route>>

\* A soft restart shows the reconnect overlay.
Restart ==
    /\ session = "streaming" /\ "video" \notin popping
    /\ session' = "restarting"
    /\ UNCHANGED <<screen, focus, owners, up, stage, pin, asleep, forced, worker, stopping,
                   popping, waiting, chosen, route>>

\* The session quits: host_handle_quit_event cancels the overlay, having waited for a worker.
Quit ==
    /\ session # "none" /\ worker = "none" /\ "quit" \notin popping /\ "video" \notin popping
    /\ session' = "none" /\ stopping' = FALSE
    /\ OverlayDown("quit")
    /\ UNCHANGED <<screen, owners, stage, pin, asleep, forced, worker, waiting, chosen,
                   route>>

\* An error hint (host_set_hint) shows the popup without a modal.
ErrorHint ==
    /\ worker = "run" \/ session # "none"
    /\ up' = up \cup {"error"}
    /\ UNCHANGED <<screen, focus, owners, stage, pin, asleep, forced, worker, session,
                   stopping, popping, waiting, chosen, route>>

\* Discovery sees the console wake up or go to rest.
ConsoleChanges ==
    /\ asleep' = ~asleep
    /\ UNCHANGED <<screen, focus, owners, up, stage, pin, forced, worker, session, stopping,
                   popping, waiting, chosen, route>>

UiThread ==
    \/ DismissError \/ DebugMenu \/ ZoneCrossing \/ Navigate \/ PressCard
    \/ TapCard \/ OpenPopup \/ AnswerPopup \/ Repair \/ LeaveRegistration \/ SubmitPin
    \/ Waking \/ Cancel \/ CancelWaited
Others ==
    \/ FlagCleared \/ WorkerEnters \/ WorkerEnds \/ PinRequested \/ FirstPicture \/ Restart
    \/ Quit \/ ErrorHint \/ ConsoleChanges

Next == UiThread \/ Others

Spec == Init /\ [][Next]_vars

-----------------------------------------------------------------------------
TypeOK ==
    /\ screen \in {"main", "page", "register", "waking", "reconnecting"}
    /\ focus \in Seq({"content", "nav", "modal"}) /\ Depth \in 0..MaxDepth
    /\ owners \subseteq Owners /\ up \subseteq Overlays
    /\ worker \in {"none", "start", "run"}
    /\ session \in {"none", "starting", "streaming", "restarting"}
    /\ popping \subseteq {"ui", "worker", "quit", "video"}

\* No modal is left on the stack without an owner that will pop it, whatever the order in
\* which popups, the registration and the overlay come and go on four threads: or the cards
\* would never get the buttons back.
NoOrphanModal == Depth <= Cardinality(owners)

\* While the overlay of a connection is up there is a way out of it: the waking screen with
\* its Circle, a worker, or a session, which ends or shows a picture; the PIN screen and the
\* reconnect overlay may hide it meanwhile.
OverlayHasExit ==
    "connection" \in up =>
        screen \in {"waking", "reconnecting"} \/ worker # "none" \/ session # "none"

\* A connection for which the user chose the Internet is not made over the local network:
\* the choice survives the wake-up of the console and its cooldown.
InternetNotLost == route # <<"psn", "lan">>

\* A connection for which the user chose the local network does not go over the Internet.
LocalStaysLocal == route # <<"lan", "psn">>
=============================================================================
