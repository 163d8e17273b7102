-------------------------- MODULE StreamConnection --------------------------
(***************************************************************************)
(* The stream connection of lib/src/streamconnection.c, as built for the   *)
(* PS Vita: chiaki_stream_connection_run on the session thread, the        *)
(* callbacks it gets on the Takion thread, and the stop function, called   *)
(* from any thread.                                                        *)
(*                                                                         *)
(* All of them work under state_mutex, which run releases only while it    *)
(* waits, emits CONNECTED or closes Takion: an action is what happens       *)
(* between two of these points.  state_failed is left out, because the     *)
(* code writes it and never reads it; so are allocations that fail.        *)
(***************************************************************************)
EXTENDS Naturals

CONSTANT MaxRuns    \* how often the session calls run (no code counterpart)

ASSUME StreamConnectionAssumption == MaxRuns \in Nat

VARIABLES
    pc,                 \* where run has released state_mutex; "idle" outside it
    asleep,             \* the wait found its predicate false, so it can time out
    state,              \* StreamConnectionState
    finished,           \* state_finished
    shouldStop,         \* should_stop
    remoteDisconnected,
    fromBang,           \* streaminfo_called_from_bang
    secret,             \* ecdh_secret is allocated
    crypt,              \* both gkcrypts are handed to Takion
    cached,             \* cached_controller_state_valid
    feedback,           \* feedback_sender_active
    congestion,         \* congestion control threads that run
    takion,             \* the Takion thread: "none" outside connect .. close
    result,             \* what the last run returned, or is about to return
    runs,               \* runs begun
    infoSeen,           \* (history) this run handled a STREAMINFO
    touched,            \* (history) the feedback sender was used while inactive
    overwritten         \* (history) a BANG found ecdh_secret allocated

runVars    == <<pc, asleep, result, runs>>
stateVars  == <<state, finished, fromBang>>
endVars    == <<shouldStop, remoteDisconnected>>
cryptVars  == <<secret, crypt>>
threadVars == <<congestion, takion, feedback>>
seenVars   == <<cached, infoSeen, touched, overwritten>>

vars == <<runVars, stateVars, endVars, cryptVars, threadVars, seenVars>>

Handshake == {"connecting", "bang", "info"}

-----------------------------------------------------------------------------
(* Waiting on state_cond *)

\* state_finished_cond_check
Pred == finished \/ shouldStop \/ remoteDisconnected

\* Faulty variant: the flag of the phase before is kept.
EnterWaitKeeping(where) ==
    /\ pc' = where
    /\ finished' = finished
    /\ asleep' = ~Pred

\* A new phase clears state_finished and waits; the predicate is tested first.
EnterWait(where) ==
    /\ pc' = where
    /\ finished' = FALSE
    /\ asleep' = ~(shouldStop \/ remoteDisconnected)

Wakes(where) == pc = where /\ Pred

\* Faulty variant: only the heartbeat wait has a timeout.
TimesOutStreaming(where) == pc = where /\ asleep /\ where = "streaming"

\* A timed wait returns TIMEOUT even if the predicate has just become true.
TimesOut(where) == pc = where /\ asleep

Returns(where) == Wakes(where) \/ TimesOut(where)

-----------------------------------------------------------------------------
(* chiaki_stream_connection_run *)

\* The labels disconnect, err_congestion_control and close_takion
Close(err) == pc' = "closing" /\ result' = err /\ UNCHANGED asleep

\* Faulty variant: two labels stop congestion control.
CloseStoppingTwice(err) == Close(err) /\ congestion' = congestion - 2

CloseStoppingCongestion(err) == Close(err) /\ congestion' = congestion - 1

\* Faulty variant: a disconnect of the remote is not told from a failure.
DisconnectUntold(err) == CloseStoppingCongestion(IF shouldStop THEN "CANCELED" ELSE "DISCONNECTED")

Disconnect(err) ==
    CloseStoppingCongestion(IF shouldStop THEN "CANCELED"
                            ELSE IF remoteDisconnected THEN "DISCONNECTED" ELSE err)

Start ==
    /\ pc = "idle" /\ runs < MaxRuns
    /\ runs' = runs + 1
    /\ state' = "TAKION_CONNECT"
    /\ infoSeen' = FALSE
    /\ EnterWait("connecting")
    /\ takion' = "connecting"
    /\ congestion' = congestion + 1
    /\ UNCHANGED <<fromBang, endVars, cryptVars, feedback, cached, touched, overwritten,
                   result>>

\* chiaki_takion_connect or chiaki_congestion_control_start fails.
StartFails ==
    /\ pc = "idle" /\ runs < MaxRuns
    /\ runs' = runs + 1
    /\ state' = "TAKION_CONNECT"
    /\ finished' = FALSE
    /\ infoSeen' = FALSE
    /\ \/ pc' = "idle" /\ result' = "UNKNOWN" /\ UNCHANGED <<asleep, takion>>
       \/ Close("UNKNOWN") /\ takion' = "connecting"
    /\ UNCHANGED <<fromBang, endVars, cryptVars, congestion, feedback, cached, touched,
                   overwritten>>

\* CHECK_STOP(close_takion) passes by the stop of congestion control.
ConnectStopped ==
    /\ shouldStop
    /\ \/ Wakes("connecting") /\ Close("SUCCESS")
       \/ TimesOut("connecting") /\ Close("TIMEOUT")
    /\ UNCHANGED <<runs, stateVars, endVars, cryptVars, threadVars, seenVars>>

\* Faulty variant: the timeout takes the label of a stop.
ConnectTimedOutToClose ==
    /\ TimesOut("connecting") /\ ~shouldStop
    /\ Close("TIMEOUT")
    /\ UNCHANGED <<runs, stateVars, endVars, cryptVars, threadVars, seenVars>>

ConnectTimedOut ==
    /\ TimesOut("connecting") /\ ~shouldStop
    /\ CloseStoppingCongestion("TIMEOUT")
    /\ UNCHANGED <<runs, stateVars, endVars, cryptVars, takion, feedback, seenVars>>

\* BIG is sent, or fails to be, even after the remote has disconnected.
SendBig ==
    /\ Wakes("connecting") /\ ~shouldStop
    /\ state' = "EXPECT_BANG"
    /\ \/ EnterWait("bang") /\ UNCHANGED <<result, congestion>>
       \/ finished' = FALSE /\ Disconnect("UNKNOWN")
    /\ UNCHANGED <<runs, fromBang, endVars, cryptVars, takion, feedback, seenVars>>

BangReceived ==
    /\ Returns("bang") /\ ~shouldStop /\ ~fromBang /\ finished
    /\ state' = "EXPECT_STREAMINFO"
    /\ EnterWait("info")
    /\ UNCHANGED <<result, runs, fromBang, endVars, cryptVars, threadVars, seenVars>>

BangMissing ==
    /\ Returns("bang")
    /\ shouldStop \/ (~fromBang /\ ~finished)
    /\ Disconnect("UNKNOWN")
    /\ UNCHANGED <<runs, stateVars, endVars, cryptVars, takion, feedback, seenVars>>

\* The wait for STREAMINFO is over, or was skipped because a STREAMINFO came
\* while a BANG was expected.
InfoWaitOver == ~shouldStop /\ (Returns("info") \/ (Returns("bang") /\ fromBang))

InfoStopped ==
    /\ Returns("info") /\ shouldStop
    /\ Disconnect("CANCELED")
    /\ UNCHANGED <<runs, stateVars, endVars, cryptVars, takion, feedback, seenVars>>

\* Also when chiaki_feedback_sender_init fails after a STREAMINFO.
InfoMissing ==
    /\ InfoWaitOver
    /\ fromBang' = FALSE
    /\ Disconnect("UNKNOWN")
    /\ UNCHANGED <<runs, state, finished, endVars, cryptVars, takion, feedback, seenVars>>

\* Faulty variant: the handlers stay in the phase of the handshake.
StateKept == state

StateWhenConnected == "IDLE"

Connected ==
    /\ InfoWaitOver /\ finished
    /\ fromBang' = FALSE
    /\ feedback' = TRUE
    /\ state' = StateWhenConnected
    /\ finished' = FALSE
    /\ pc' = "announcing"
    /\ UNCHANGED <<asleep, result, runs, endVars, cryptVars, congestion, takion, seenVars>>

\* The CONNECTED event was delivered without the mutex.
Announced ==
    /\ pc = "announcing"
    /\ pc' = "streaming"
    /\ asleep' = ~Pred
    /\ UNCHANGED <<result, runs, stateVars, endVars, cryptVars, threadVars, seenVars>>

Heartbeat ==
    /\ TimesOut("streaming")
    /\ asleep' = ~Pred
    /\ UNCHANGED <<pc, result, runs, stateVars, endVars, cryptVars, threadVars, seenVars>>

StreamEnds ==
    /\ Wakes("streaming")
    /\ feedback' = FALSE
    /\ Disconnect("SUCCESS")
    /\ UNCHANGED <<runs, stateVars, endVars, cryptVars, takion, seenVars>>

\* chiaki_takion_close has joined the Takion thread.
TakionClosed ==
    /\ pc = "closing" /\ takion = "down"
    /\ takion' = "none"
    /\ pc' = "idle"
    /\ UNCHANGED <<asleep, result, runs, stateVars, endVars, cryptVars, congestion, feedback,
                   seenVars>>

-----------------------------------------------------------------------------
(* chiaki_stream_connection_stop: should_stop is never cleared again *)

Stop ==
    /\ shouldStop' = TRUE
    /\ UNCHANGED <<runVars, stateVars, remoteDisconnected, cryptVars, threadVars, seenVars>>

-----------------------------------------------------------------------------
(* The Takion thread: stream_connection_takion_cb *)

\* External: the handshake succeeds, or the thread ends for any reason.
TakionEvent(becomes, connected) ==
    /\ takion' = becomes
    /\ finished' = IF state = "TAKION_CONNECT" THEN connected ELSE finished
    /\ UNCHANGED <<runVars, state, fromBang, endVars, cryptVars, congestion, feedback, seenVars>>

TakionConnected == takion = "connecting" /\ TakionEvent("up", TRUE)

TakionEnds == takion \in {"connecting", "up"} /\ TakionEvent("down", FALSE)

\* A DISCONNECT is handled in every state.
RemoteDisconnects ==
    /\ takion = "up"
    /\ remoteDisconnected' = TRUE
    /\ UNCHANGED <<runVars, stateVars, shouldStop, cryptVars, threadVars, seenVars>>

\* What becomes of a BANG that the remote has not refused: no secret is derived
\* from it, no gkcrypt is made, or all is well.
BangOutcomes == {"underivable", "cryptless", "good"}

Bang(outcome) ==
    /\ takion = "up" /\ state = "EXPECT_BANG"
    /\ overwritten' = (overwritten \/ secret)
    /\ secret' = (outcome # "underivable")
    /\ crypt' = (crypt \/ outcome = "good")
    /\ finished' = (finished \/ outcome = "good")
    /\ UNCHANGED <<runVars, state, fromBang, endVars, threadVars, cached, infoSeen, touched>>

\* What becomes of a STREAMINFO: the header is invalid, the message about the
\* controller or the one about the microphone is not sent, or all is well.
InfoOutcomes == {"badHeader", "noController", "noMicrophone", "good"}

\* The cached controller state goes to a feedback sender that is not initialised.
StreamInfo(outcome) ==
    LET passesOn == cached /\ outcome \in {"noMicrophone", "good"}
    IN  /\ takion = "up" /\ state \in {"EXPECT_BANG", "EXPECT_STREAMINFO"}
        /\ fromBang' = (fromBang \/ state = "EXPECT_BANG")
        /\ infoSeen' = TRUE
        /\ touched' = (touched \/ (passesOn /\ ~feedback))
        /\ cached' = (cached /\ ~passesOn)
        /\ finished' = (finished \/ outcome = "good")
        /\ UNCHANGED <<runVars, state, endVars, cryptVars, threadVars, overwritten>>

-----------------------------------------------------------------------------
Init ==
    /\ pc = "idle" /\ asleep = FALSE /\ result = "none" /\ runs = 0
    /\ state = "IDLE" /\ finished = FALSE /\ fromBang = FALSE
    /\ shouldStop = FALSE /\ remoteDisconnected = FALSE
    /\ secret = FALSE /\ crypt = FALSE
    /\ congestion = 0 /\ takion = "none" /\ feedback = FALSE
    /\ cached \in BOOLEAN
    /\ infoSeen = FALSE /\ touched = FALSE /\ overwritten = FALSE

RunWakes ==
    \/ ConnectStopped \/ SendBig
    \/ BangReceived \/ BangMissing
    \/ InfoStopped \/ InfoMissing \/ Connected
    \/ StreamEnds

TakionThread ==
    \/ TakionConnected \/ TakionEnds \/ RemoteDisconnects
    \/ \E outcome \in BangOutcomes : Bang(outcome)
    \/ \E outcome \in InfoOutcomes : StreamInfo(outcome)

Running ==
    \/ RunWakes \/ ConnectTimedOut \/ Announced \/ Heartbeat \/ TakionClosed
    \/ TakionThread

\* The session runs the connection again only after it has asked it to stop.
Next ==
    \/ (runs = 0 \/ shouldStop) /\ (Start \/ StartFails)
    \/ Stop
    \/ Running

\* The run thread is scheduled, the clock ends a timed wait, the event callback
\* returns, and the Takion thread ends once its stop pipe is set.
Fairness ==
    /\ WF_vars(RunWakes \/ ConnectTimedOut)
    /\ WF_vars(Announced) /\ WF_vars(TakionClosed)
    /\ WF_vars(pc = "closing" /\ TakionEnds)

Spec == Init /\ [][Next]_vars /\ Fairness

-----------------------------------------------------------------------------
(* Properties *)

Flags ==
    /\ asleep \in BOOLEAN /\ finished \in BOOLEAN /\ fromBang \in BOOLEAN
    /\ shouldStop \in BOOLEAN /\ remoteDisconnected \in BOOLEAN
    /\ secret \in BOOLEAN /\ crypt \in BOOLEAN /\ cached \in BOOLEAN
    /\ feedback \in BOOLEAN /\ infoSeen \in BOOLEAN
    /\ touched \in BOOLEAN /\ overwritten \in BOOLEAN

Places ==
    /\ pc \in Handshake \cup {"idle", "announcing", "streaming", "closing"}
    /\ state \in {"IDLE", "TAKION_CONNECT", "EXPECT_BANG", "EXPECT_STREAMINFO"}
    /\ takion \in {"none", "connecting", "up", "down"}
    /\ result \in {"none", "SUCCESS", "TIMEOUT", "UNKNOWN", "CANCELED", "DISCONNECTED"}
    /\ runs \in 0 .. MaxRuns /\ congestion \in 0 .. MaxRuns

TypeOK == Flags /\ Places

\* CONNECTED is announced only in a run in which a STREAMINFO was handled: the
\* flag state_finished, which three phases share, and the flag
\* streaminfo_called_from_bang, which skips a wait, never stand for an earlier
\* phase or an earlier run (streamconnection.c, lines 288-328).
AnnouncedAfterStreamInfo == pc \in {"announcing", "streaming"} => infoSeen

\* A run ends with SUCCESS or CANCELED, which the session takes for a wanted
\* end, only if somebody has called stop: no late message of the handshake can
\* end the heartbeat loop (lines 345, 356-375).
QuietEndWasAsked == pc = "idle" /\ result \in {"SUCCESS", "CANCELED"} => shouldStop

\* The congestion control thread, which sends through Takion, outlives the
\* Takion of a run only when stop was called (lines 268, 392-399).
CongestionStopsWithTakion == takion = "none" /\ congestion > 0 => shouldStop

\* The handshake comes to an end, whatever the remote sends or leaves out (the
\* waits of lines 266, 288 and 311).
HandshakeEnds == pc \in Handshake ~> pc \in {"idle", "streaming"}

Promise == INSTANCE StreamRun WITH
    running <- pc # "idle",
    stopped <- shouldStop,
    gone    <- remoteDisconnected,
    outcome <- IF pc = "idle" THEN result ELSE "none"

\* The connection does what StreamRun promises the session: the result of a run
\* names its reason, and a run with a reason to end ends (lines 178-425).
KeepsPromise == Promise!Spec

\* Not true of this code: streamconnection.h, line 43: "only if this is true, feedback_sender may be
\* accessed!"
FeedbackSenderOnlyWhenActive == ~touched

\* streamconnection.c, line 705: assert(!stream_connection->ecdh_secret)
BangAssert == ~overwritten
=============================================================================
