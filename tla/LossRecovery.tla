---------------------------- MODULE LossRecovery ---------------------------
(***************************************************************************)
(* What the Vita does about a bad stream: vita/src/host_feedback.c,        *)
(* host_metrics.c, host_recovery.c and host_loss_profile.c.                *)
(*                                                                         *)
(* The video callback counts the frames lost, in windows that begin with   *)
(* a loss, and asks the console for a key frame when a window has too      *)
(* many; once a second it also looks at the measured bitrate, and has the  *)
(* stream restarted when that stays low.  Everything runs on the thread of *)
(* Takion.  Time passes in ticks, all spans are given in ticks; an age is  *)
(* Never before the event and is not told apart beyond the spans.          *)
(*                                                                         *)
(* Dead in this code, and left out: the post-reconnect recovery (its       *)
(* window is only ever set to 0), the cooldown after a failed restart.     *)
(***************************************************************************)
EXTENDS Naturals, FiniteSets

CONSTANTS
    Profiles,       \* what host_loss_profile.c can come to: records of thresholds
    Unrecovered,    \* UNRECOVERED_FRAME_THRESHOLD
    GateSpan,       \* LOSS_RECOVERY_WINDOW_US
    MaxReconnects,  \* MAX_AUTO_RECONNECT_ATTEMPTS
    Cooldown,       \* LOSS_RECOVERY_ACTION_COOLDOWN_US
    LowSpan,        \* FIRST_LEVEL_BITRATE_WINDOW_S
    MaxLost         \* bound on the frames lost with one frame

Thresholds == {"window", "minFrames", "events", "frames", "burstWindow", "burst"}

RecoveryAssumption ==
    /\ IsFiniteSet(Profiles) /\ Profiles # {}
    /\ \A p \in Profiles : DOMAIN p = Thresholds /\ \A t \in Thresholds : p[t] \in Nat \ {0}
    /\ Unrecovered \in Nat \ {0} /\ GateSpan \in Nat /\ MaxReconnects \in Nat
    /\ Cooldown \in Nat \ {0} /\ LowSpan \in Nat \ {0} /\ MaxLost \in Nat \ {0}

VARIABLES
    loss,       \* the counters of host_feedback.c
    restart,    \* the state of the restarts in context.stream
    low,        \* age of the window of low bitrate: static, no stream resets it
    measured,   \* the metrics of this second were taken
    lost,       \* (history) frames lost per tick, since the last request for a key frame
    requests,   \* (history) restarts of this stream, and the age of the last one
    lowFor      \* (history) how long every measurement of this stream was low

vars == <<loss, restart, low, measured, lost, requests, lowFor>>

Bigger(a, b) == IF a > b THEN a ELSE b
LongestWindow == CHOOSE n \in {p[t] : p \in Profiles, t \in {"window", "burstWindow"}} :
                     \A p \in Profiles : p.window <= n /\ p.burstWindow <= n
Cap == Bigger(Bigger(LongestWindow, GateSpan), Bigger(Cooldown, LowSpan)) + 1
Never == Cap + 1
Older(age) == IF age = Never \/ age = Cap THEN age ELSE age + 1
Within(age, span) == age # Never /\ age <= span

-----------------------------------------------------------------------------
(* host_handle_loss_event.  The counters stop at 2^32 - 1, beyond any run.  *)

NoLoss == [windowAge |-> Never, frames |-> 0, events |-> 0, burstAge |-> Never, burst |-> 0,
           gateAge |-> Never, streak |-> 0]

\* A window that is over begins again with this loss.
CountWindow(s, p, n) ==
    LET open == Within(s.windowAge, p.window)
        event == IF n >= p.minFrames THEN 1 ELSE 0
    IN  [s EXCEPT !.windowAge = IF open THEN @ ELSE 0,
                  !.frames = IF open THEN @ + n ELSE n,
                  !.events = IF open THEN @ + event ELSE event]

\* Faulty variant: the burst begins again with each loss.
CountBurstAnew(s, p, n) == [s EXCEPT !.burstAge = 0, !.burst = n]

CountBurst(s, p, n) ==
    LET open == Within(s.burstAge, p.burstWindow)
    IN  [s EXCEPT !.burstAge = IF open THEN @ ELSE 0, !.burst = IF open THEN @ + n ELSE n]

Sustained(s, p) == s.burst >= p.burst \/ (s.events >= p.events /\ s.frames >= p.frames)

\* Nothing is done while the stream ends or restarts.
Passive == restart.stopRequested \/ restart.fast

\* The counters after a loss, and whether a key frame is asked for
\* (host_request_decoder_resync): by the first and by each further gate of the window.
LossEvent(s, p, n) ==
    LET counted == CountBurst(CountWindow(s, p, n), p, n)
        emptied == [counted EXCEPT !.windowAge = 0, !.frames = 0, !.events = 0,
                                   !.burstAge = Never, !.burst = 0]
    IN  IF ~Sustained(counted, p) THEN [loss |-> counted, asked |-> FALSE]
        ELSE IF Passive THEN [loss |-> emptied, asked |-> FALSE]
        ELSE [loss |-> [emptied EXCEPT !.gateAge = IF Within(@, GateSpan) THEN @ ELSE 0],
              asked |-> TRUE]

\* host_handle_unrecovered_frame_loss
UnrecoveredLoss(s, n, recovered) ==
    IF recovered THEN [loss |-> [s EXCEPT !.streak = 0], asked |-> FALSE]
    ELSE IF s.streak + n < Unrecovered
         THEN [loss |-> [s EXCEPT !.streak = @ + n], asked |-> FALSE]
    ELSE [loss |-> [s EXCEPT !.streak = 0], asked |-> ~Passive]

-----------------------------------------------------------------------------
(* The metrics, once a second, and the restart for a low bitrate *)

\* request_stream_restart_coordinated and request_stream_restart; the session accepts a
\* request or not.
RestartAllowed ==
    /\ ~restart.stopRequested /\ restart.count < MaxReconnects
    /\ ~restart.fast /\ ~(restart.actionAge # Never /\ restart.actionAge < Cooldown)

Request(accepted) ==
    IF RestartAllowed /\ accepted
    THEN /\ restart' = [restart EXCEPT !.fast = TRUE, !.count = @ + 1, !.actionAge = 0]
         /\ requests' = [n |-> requests.n + 1, age |-> 0,
                         soon |-> requests.soon \/ (requests.age # Never
                                                    /\ requests.age < Cooldown),
                         early |-> requests.early \/ lowFor < LowSpan]
    ELSE UNCHANGED <<restart, requests>>

\* host_metrics_check_first_level_bitrate_trigger
BitrateTrigger(isLow, accepted) ==
    IF restart.fast \/ (restart.actionAge # Never /\ restart.actionAge < Cooldown)
    THEN UNCHANGED <<low, restart, requests>>
    ELSE IF ~isLow THEN low' = Never /\ UNCHANGED <<restart, requests>>
    ELSE IF low = Never THEN low' = 0 /\ UNCHANGED <<restart, requests>>
    ELSE IF low < LowSpan THEN UNCHANGED <<low, restart, requests>>
    ELSE low' = Never /\ Request(accepted)

\* host_metrics_update_latency
Metrics(isLow, accepted) ==
    IF measured THEN UNCHANGED <<low, restart, requests, measured, lowFor>>
    ELSE /\ measured' = TRUE
         /\ BitrateTrigger(isLow, accepted)
         /\ lowFor' = IF ~isLow THEN Never ELSE IF lowFor = Never THEN 0 ELSE lowFor

-----------------------------------------------------------------------------
\* host_video_cb with a frame, after n lost ones.
Frame(p, n, recovered, isLow, accepted) ==
    /\ ~restart.stopRequested
    /\ LET event == IF n = 0 THEN [loss |-> loss, asked |-> FALSE] ELSE LossEvent(loss, p, n)
           whole == IF n = 0 THEN event ELSE UnrecoveredLoss(event.loss, n, recovered)
           asked == event.asked \/ whole.asked
       IN  /\ loss' = whole.loss
           /\ lost' = IF asked \/ Passive THEN [t \in DOMAIN lost |-> 0]
                      ELSE [lost EXCEPT ![0] = @ + n]
    /\ Metrics(isLow, accepted)

\* CHIAKI_EVENT_CONNECTED of the restarted stream
Connected ==
    /\ restart.fast
    /\ restart' = [restart EXCEPT !.fast = FALSE]
    /\ UNCHANGED <<loss, low, measured, lost, requests, lowFor>>

\* request_stream_stop
Stop ==
    /\ ~restart.stopRequested
    /\ restart' = [restart EXCEPT !.stopRequested = TRUE]
    /\ UNCHANGED <<loss, low, measured, lost, requests, lowFor>>

NoRestart == [fast |-> FALSE, count |-> 0, actionAge |-> Never, stopRequested |-> FALSE]
NoRequest(soon, early) == [n |-> 0, age |-> Never, soon |-> soon, early |-> early]

\* The stream quits and another one begins: host_metrics_reset_stream.
NewStream ==
    /\ loss' = NoLoss /\ restart' = NoRestart /\ measured' = FALSE
    /\ lost' = [t \in DOMAIN lost |-> 0]
    /\ requests' = NoRequest(requests.soon, requests.early)
    /\ lowFor' = Never
    /\ UNCHANGED low

Tick ==
    /\ loss' = [loss EXCEPT !.windowAge = Older(@), !.burstAge = Older(@),
                            !.gateAge = Older(@)]
    /\ restart' = [restart EXCEPT !.actionAge = Older(@)]
    /\ low' = Older(low) /\ measured' = FALSE
    /\ lost' = [t \in DOMAIN lost |-> IF t = 0 THEN 0 ELSE lost[t - 1]]
    /\ requests' = [requests EXCEPT !.age = Older(@)]
    /\ lowFor' = Older(lowFor)

-----------------------------------------------------------------------------
BurstSpan == CHOOSE n \in {p.burstWindow : p \in Profiles} :
                 \A p \in Profiles : n <= p.burstWindow
LargestBurst == CHOOSE n \in {p.burst : p \in Profiles} : \A p \in Profiles : n >= p.burst

Init ==
    /\ loss = NoLoss /\ restart = NoRestart /\ low = Never /\ measured = FALSE
    /\ lost = [t \in 0 .. BurstSpan |-> 0]
    /\ requests = NoRequest(FALSE, FALSE) /\ lowFor = Never

Next ==
    \/ \E p \in Profiles, n \in 0 .. MaxLost, recovered, isLow, accepted \in BOOLEAN :
           Frame(p, n, recovered, isLow, accepted)
    \/ Connected \/ Stop \/ NewStream \/ Tick

Spec == Init /\ [][Next]_vars

-----------------------------------------------------------------------------
(* Properties *)

\* Frames lost within the last ticks, up to each.
LostWithin ==
    LET sum[t \in 0 .. BurstSpan] == IF t = 0 THEN lost[0] ELSE sum[t - 1] + lost[t]
    IN  sum

TypeOK ==
    /\ loss.streak < Unrecovered /\ loss.burst < LargestBurst
    /\ restart.count <= MaxReconnects
    /\ low \in 0 .. Cap \cup {Never} /\ measured \in BOOLEAN

\* However the losses fall into the windows, frames lost within the span of a burst lead
\* to a request for a key frame before they are two bursts: what a window that ends takes
\* away from the count is less than one (host_feedback.c, 85-199).
LossAnswered == LostWithin[BurstSpan] <= 2 * (LargestBurst - 1)

\* No storm of restarts: a stream is restarted MAX_AUTO_RECONNECT_ATTEMPTS times at most,
\* never twice within the cooldown (host_recovery.c, 91-144; host_metrics.c, 45-51).
NoRestartStorm == requests.n <= MaxReconnects /\ ~requests.soon

\* "Measured bitrate stays below FIRST_LEVEL_BITRATE_TRIGGER_MBPS for
\* FIRST_LEVEL_BITRATE_WINDOW_S seconds" (host_metrics.c, 25): a restart for the bitrate
\* comes only when all measurements of the stream were low for that long.
LowBitrateLasts == ~requests.early
=============================================================================
