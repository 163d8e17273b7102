------------------------------ MODULE Session ------------------------------
(***************************************************************************)
(* The session of lib/src/session.c: the session thread, the ctrl thread   *)
(* that it starts (Ctrl), the stream connection that it runs (as the       *)
(* promise StreamRun, which StreamConnection keeps), the registration over *)
(* PSN, and the calls of the application.                                  *)
(*                                                                         *)
(* The session thread holds state_mutex except while it waits, connects,   *)
(* receives or runs the stream: an action is what it does between two of   *)
(* these.  Where it blocks with the mutex held for a bounded time (RUDP    *)
(* exchanges, punching a hole, Senkusha) the others are only delayed, and  *)
(* the call is part of the action; where it waits for a thread that may    *)
(* need the mutex itself, it waits in a state of Holding.                  *)
(* Allocations and thread creations do not fail here.                      *)
(***************************************************************************)
EXTENDS Naturals

CONSTANTS
    Psn,            \* the session goes over PSN: session.rudp is set
    MaxAddresses,   \* addresses of the console
    MaxRestarts,    \* bound on restart requests (no code counterpart)
    Kinds, MaxBuffered, MaxMessages     \* see Ctrl

SessionAssumption ==
    Psn \in BOOLEAN /\ MaxAddresses \in Nat \ {0} /\ MaxRestarts \in Nat

VARIABLES
    spc,            \* where the session thread has released the mutex, or blocks
    request,        \* which session request this is, 1 to 3
    address,        \* which address it connects to
    regist,         \* the PSN registration: "none", "running", "reported"
    registered,     \* psn_regist_succeeded
    sessionStop,    \* should_stop
    userStop,       \* (history) chiaki_session_stop was called
    pin,            \* login_pin_entered
    restart,        \* stream_restart_requested
    restarting,     \* a restart request has yet to stop the stream connection
    restarts,       \* restart requests made
    running, stopped, gone, outcome,                        \* see StreamRun
    cpc, msg, buffered, wake, ctrlStop, pinEntered, consolePin, queued, signals, sent,
    notif, ctrlFailed, sessionId, pinRequested, switchReceived, quitReason  \* see Ctrl

requestVars == <<request, address, regist, registered>>
askedVars   == <<sessionStop, userStop, pin, restart, restarting, restarts>>
runVars     == <<running, stopped, gone, outcome>>
sharedVars  == <<ctrlFailed, sessionId, pinRequested, switchReceived>>
ctrlOwnVars == <<cpc, msg, buffered, wake, ctrlStop, pinEntered, consolePin, queued, signals,
                 sent, notif>>
ctrlVars    == <<ctrlOwnVars, sharedVars, quitReason>>
vars        == <<spc, requestVars, askedVars, runVars, ctrlVars>>

\* The session thread blocks with state_mutex held.
Holding == {"registJoin", "pinForward"}

\* pinTaken belongs to the properties of Ctrl, which this module does not use.
C == INSTANCE Ctrl WITH stateLocked <- spc \in Holding, pinTaken <- FALSE
R == INSTANCE StreamRun

MutexFree == spc \notin Holding

Goto(where) == spc' = where

Quit(where, reason) == Goto(where) /\ quitReason' = reason

\* Faulty variant: a quit after ctrl has started takes the label of one before.
QuitCtrlEarly(reason) == Quit("quit", reason)

\* The label quit_ctrl
QuitCtrl(reason) == Quit("ctrlStop", reason)

\* The label ctrl_failed
CtrlHasFailed == QuitCtrl(IF quitReason = "NONE" THEN "CTRL_UNKNOWN" ELSE quitReason)

-----------------------------------------------------------------------------
(* Calls of the application *)

\* Faulty variant: the stream connection is not told.
SessionStopOnly ==
    /\ MutexFree
    /\ sessionStop' = TRUE /\ userStop' = TRUE
    /\ restart' = FALSE
    /\ UNCHANGED <<spc, requestVars, pin, restarting, restarts, runVars, ctrlVars>>

\* chiaki_session_stop; the stop pipe is signalled from then on.
SessionStop ==
    /\ MutexFree
    /\ sessionStop' = TRUE /\ userStop' = TRUE
    /\ restart' = FALSE
    /\ R!Stop
    /\ UNCHANGED <<spc, requestVars, pin, restarting, restarts, ctrlVars>>

\* chiaki_session_request_stream_restart releases the mutex before it stops the
\* stream connection.
RequestRestart ==
    /\ MutexFree /\ running
    /\ ~sessionStop /\ ~ctrlFailed /\ ~restart /\ ~restarting
    /\ restarts < MaxRestarts /\ restarts' = restarts + 1
    /\ restart' = TRUE /\ restarting' = TRUE
    /\ UNCHANGED <<spc, requestVars, sessionStop, userStop, pin, runVars, ctrlVars>>

RestartStops ==
    /\ restarting /\ restarting' = FALSE
    /\ R!Stop
    /\ UNCHANGED <<spc, requestVars, sessionStop, userStop, pin, restart, restarts, ctrlVars>>

\* chiaki_session_set_login_pin, after the event that asks for it
EnterPin ==
    /\ MutexFree /\ spc = "pin"
    /\ pin' = TRUE
    /\ UNCHANGED <<spc, requestVars, sessionStop, userStop, restart, restarting, restarts,
                   runVars, ctrlVars>>

-----------------------------------------------------------------------------
(* PSN registration *)

Begin ==
    /\ spc = "created"
    /\ \/ sessionStop /\ Quit("quit", "STOPPED") /\ UNCHANGED regist
       \/ ~sessionStop /\ Psn /\ Goto("regist") /\ regist' = "running" /\ UNCHANGED quitReason
       \/ ~sessionStop /\ ~Psn /\ Goto("connect") /\ UNCHANGED <<regist, quitReason>>
    /\ UNCHANGED <<request, address, registered, askedVars, runVars, ctrlOwnVars, sharedVars>>

\* Faulty variant: a failure is not taken for a stop.
RegistReportsOnly ==
    /\ regist = "running" /\ MutexFree
    /\ regist' = "reported"
    /\ \/ registered' = TRUE /\ UNCHANGED quitReason
       \/ quitReason' = "PSN_REGIST_FAILED" /\ UNCHANGED registered
    /\ UNCHANGED <<spc, request, address, askedVars, runVars, ctrlOwnVars, sharedVars>>

\* regist_cb on the registration thread
RegistReports ==
    /\ regist = "running" /\ MutexFree
    /\ regist' = "reported"
    /\ \/ registered' = TRUE /\ UNCHANGED <<sessionStop, quitReason>>
       \/ sessionStop' = TRUE /\ quitReason' = "PSN_REGIST_FAILED" /\ UNCHANGED registered
    /\ UNCHANGED <<spc, request, address, userStop, pin, restart, restarting, restarts, runVars,
                   ctrlOwnVars, sharedVars>>

\* A stop, the report or the timeout ends the wait.  The registration thread is
\* joined with the mutex held.
RegistWaitEnds ==
    /\ spc = "regist"
    /\ Goto("registJoin")
    /\ UNCHANGED <<requestVars, askedVars, runVars, ctrlVars>>

RegistJoined ==
    /\ spc = "registJoin" /\ regist = "reported"
    /\ \/ sessionStop /\ Quit("quit", "STOPPED")
       \/ ~sessionStop /\ Goto("connect") /\ UNCHANGED quitReason
    /\ UNCHANGED <<requestVars, askedVars, runVars, ctrlOwnVars, sharedVars>>

-----------------------------------------------------------------------------
(* session_thread_request_session *)

RequestUnchanged ==
    UNCHANGED <<regist, registered, askedVars, runVars, ctrlOwnVars, sharedVars>>

\* The stop pipe is signalled by chiaki_session_stop only.
ConnectCanceled ==
    /\ spc = "connect" /\ ~Psn /\ userStop
    /\ Quit("quit", "STOPPED")
    /\ UNCHANGED <<request, address>> /\ RequestUnchanged

ConnectFails ==
    /\ spc = "connect" /\ ~Psn
    /\ \E reason \in {"NONE", "SESSION_REQUEST_CONNECTION_REFUSED"} :
          \/ /\ address < MaxAddresses /\ address' = address + 1
             /\ Quit("connect", reason)
          \/ /\ address = MaxAddresses /\ UNCHANGED address
             /\ Quit("quit", IF reason = "NONE" THEN "SESSION_REQUEST_UNKNOWN" ELSE reason)
    /\ UNCHANGED request /\ RequestUnchanged

\* The RUDP exchanges before and after the request fail without a reason.
RudpFails ==
    /\ spc \in {"connect", "response"} /\ Psn
    /\ Goto("quit")
    /\ UNCHANGED <<request, address, quitReason>> /\ RequestUnchanged

RequestSent ==
    /\ spc = "connect"
    /\ Goto("response")
    /\ UNCHANGED <<request, address, quitReason>> /\ RequestUnchanged

\* The receiving of the response looks at the stop pipe.
ResponseCanceled ==
    /\ spc = "response" /\ ~Psn /\ userStop
    /\ Quit("quit", "STOPPED")
    /\ UNCHANGED <<request, address>> /\ RequestUnchanged

ResponseReasons == {"SESSION_REQUEST_UNKNOWN", "SESSION_REQUEST_RP_IN_USE",
                    "SESSION_REQUEST_RP_CRASH", "SESSION_REQUEST_RP_VERSION_MISMATCH"}

ResponseRefuses ==
    /\ spc = "response"
    /\ \E reason \in ResponseReasons : Quit("quit", reason)
    /\ UNCHANGED <<request, address>> /\ RequestUnchanged

\* Faulty variant: the third request may report another version, too.
TryAnyVersion ==
    /\ spc = "response"
    /\ request' = request + 1 /\ address' = 1
    /\ UNCHANGED quitReason
    /\ Goto("connect")
    /\ RequestUnchanged

\* Another version is asked for; in the second request the version of the first
\* answer is used again if this one offers none, and the reason stays.
TryOtherVersion ==
    /\ spc = "response" /\ request < 3
    /\ request' = request + 1 /\ address' = 1
    /\ \/ UNCHANGED quitReason
       \/ request = 2 /\ quitReason' = "SESSION_REQUEST_RP_VERSION_MISMATCH"
    /\ Goto("connect")
    /\ RequestUnchanged

\* From here on it makes no difference which request it was: both counters are forgotten.
ResponseAccepts ==
    /\ spc = "response"
    /\ Goto("settle")
    /\ request' = 1 /\ address' = 1
    /\ UNCHANGED quitReason /\ RequestUnchanged

-----------------------------------------------------------------------------
(* Ctrl, the PIN and the session id *)

\* The wait of 10 ms before it can be stopped, but is not checked for it.
StartCtrl ==
    /\ spc = "settle"
    /\ C!StartCtrl
    /\ Goto("ctrlStart")
    /\ UNCHANGED <<requestVars, askedVars, runVars>>

StartupUnchanged == UNCHANGED <<requestVars, askedVars, runVars, ctrlOwnVars>>

\* What every wait for ctrl may find
StopSeen ==
    /\ sessionStop
    /\ QuitCtrl("STOPPED")
    /\ UNCHANGED sharedVars

FailureSeen ==
    /\ ~sessionStop /\ ctrlFailed
    /\ CtrlHasFailed
    /\ UNCHANGED sharedVars

\* The LOGIN_PIN_REQUEST event
AskPin ==
    /\ pinRequested
    /\ pinRequested' = FALSE
    /\ Goto("pin")
    /\ UNCHANGED <<ctrlFailed, sessionId, switchReceived, quitReason>>

Continue == ~pinRequested /\ Goto("head") /\ UNCHANGED <<sharedVars, quitReason>>

\* Faulty variant: the wait has no timeout.
CtrlStartedUntimed ==
    /\ spc = "ctrlStart"
    /\ \/ StopSeen \/ FailureSeen
       \/ ~sessionStop /\ ~ctrlFailed /\ (AskPin \/ (sessionId /\ Continue))
    /\ StartupUnchanged

\* The wait ends by its predicate or by its timeout.
CtrlStarted ==
    /\ spc = "ctrlStart"
    /\ StopSeen \/ FailureSeen \/ (~sessionStop /\ ~ctrlFailed /\ (AskPin \/ Continue))
    /\ StartupUnchanged

\* UINT64_MAX ms is about 71 minutes on the Vita; then the assertion fails.
PinEntered ==
    /\ spc = "pin"
    /\ \/ StopSeen \/ FailureSeen
       \/ /\ ~sessionStop /\ ~ctrlFailed
          /\ Goto(IF pin THEN "pinForward" ELSE "crashed")
          /\ UNCHANGED <<sharedVars, quitReason>>
    /\ StartupUnchanged

ForwardPin ==
    /\ spc = "pinForward"
    /\ C!SetLoginPin
    /\ pin' = FALSE
    /\ Goto("pinReply")
    /\ UNCHANGED <<requestVars, sessionStop, userStop, restart, restarting, restarts, runVars>>

\* A failure of ctrl is not checked here.
PinReplied ==
    /\ spc = "pinReply"
    /\ StopSeen \/ (~sessionStop /\ (AskPin \/ Continue))
    /\ StartupUnchanged

\* The head of the loop.  A hole that cannot be punched leaves the reason.
PunchHole ==
    /\ spc = "head" /\ Psn
    /\ spc' \in {"punched", "ctrlStop"}
    /\ UNCHANGED <<requestVars, askedVars, runVars, ctrlVars>>

\* After the session id, Senkusha, with any result; then the switch message,
\* sent or not.
Switch ==
    \/ ~Psn /\ Goto("run") /\ UNCHANGED switchReceived
    \/ Psn /\ Goto("switch") /\ switchReceived' = FALSE
    \/ Psn /\ Goto("ctrlStop") /\ UNCHANGED switchReceived

SessionIdReady == (~Psn /\ spc = "head") \/ (spc = "punched" /\ ~sessionStop)

PunchStopped ==
    /\ spc = "punched" /\ StopSeen
    /\ StartupUnchanged

WithSessionId ==
    /\ SessionIdReady /\ sessionId
    /\ Switch
    /\ UNCHANGED <<ctrlFailed, sessionId, pinRequested, quitReason>> /\ StartupUnchanged

\* ctrl_message_set_fallback_session_id is called without the mutex.
WithoutSessionId ==
    /\ SessionIdReady /\ ~sessionId
    /\ Goto("fallback")
    /\ UNCHANGED <<sharedVars, quitReason>> /\ StartupUnchanged

FallBack ==
    /\ spc = "fallback"
    /\ sessionId' = TRUE
    /\ Switch
    /\ UNCHANGED <<ctrlFailed, pinRequested, quitReason>> /\ StartupUnchanged

\* A missing acknowledgement is noticed before a stop.
Switched ==
    /\ spc = "switch"
    /\ \/ ~switchReceived /\ Goto("ctrlStop") /\ UNCHANGED <<sharedVars, quitReason>>
       \/ switchReceived /\ StopSeen
       \/ switchReceived /\ ~sessionStop /\ Goto("run") /\ UNCHANGED <<sharedVars, quitReason>>
    /\ StartupUnchanged

-----------------------------------------------------------------------------
(* The stream and the end *)

Run ==
    /\ spc = "run"
    /\ \/ R!Begin /\ Goto("stream")
       \/ R!FailAtOnce /\ Goto("returned")
    /\ UNCHANGED <<requestVars, askedVars, ctrlVars>>

RunReturns ==
    /\ spc = "stream"
    /\ R!Return
    /\ Goto("returned")
    /\ UNCHANGED <<requestVars, askedVars, ctrlVars>>

RemoteDisconnects ==
    /\ R!RemoteDisconnects
    /\ UNCHANGED <<spc, requestVars, askedVars, ctrlVars>>

RestartWanted == restart /\ ~sessionStop

Restart ==
    /\ spc = "returned" /\ RestartWanted
    /\ restart' = FALSE
    /\ Goto("head")
    /\ UNCHANGED <<requestVars, sessionStop, userStop, pin, restarting, restarts, runVars,
                   ctrlVars>>

\* Faulty variant: the reason is left to whoever wrote it first.
ReasonKept == quitReason

ReasonOfOutcome ==
    CASE outcome = "DISCONNECTED"             -> "REMOTE_DISCONNECTED"
      [] outcome \in {"SUCCESS", "CANCELED"}  -> "STOPPED"
      [] OTHER                                -> "STREAM_UNKNOWN"

StreamOver ==
    /\ spc = "returned" /\ ~RestartWanted
    /\ QuitCtrl(ReasonOfOutcome)
    /\ UNCHANGED sharedVars /\ StartupUnchanged

StopCtrl ==
    /\ spc = "ctrlStop"
    /\ C!StopCtrl
    /\ Goto("ctrlJoin")
    /\ UNCHANGED <<requestVars, askedVars, runVars>>

JoinCtrl ==
    /\ spc = "ctrlJoin" /\ cpc = "ended"
    /\ Goto("quit")
    /\ UNCHANGED <<requestVars, askedVars, runVars, ctrlVars>>

\* The QUIT event
SendQuit ==
    /\ spc = "quit"
    /\ Goto("done")
    /\ UNCHANGED <<requestVars, askedVars, runVars, ctrlVars>>

-----------------------------------------------------------------------------
Init ==
    /\ spc = "created" /\ request = 1 /\ address = 1
    /\ regist = "none" /\ registered = FALSE
    /\ sessionStop = FALSE /\ userStop = FALSE /\ pin = FALSE
    /\ restart = FALSE /\ restarting = FALSE /\ restarts = 0
    /\ R!Init /\ C!CtrlInit

Request ==
    \/ ConnectCanceled \/ ConnectFails \/ RudpFails \/ RequestSent
    \/ ResponseCanceled \/ ResponseRefuses \/ TryOtherVersion \/ ResponseAccepts

Startup ==
    \/ StartCtrl \/ CtrlStarted \/ PinEntered \/ ForwardPin \/ PinReplied
    \/ PunchHole \/ PunchStopped \/ WithSessionId \/ WithoutSessionId \/ FallBack \/ Switched

SessionThread ==
    \/ Begin \/ RegistWaitEnds \/ RegistJoined \/ Request \/ Startup
    \/ Run \/ Restart \/ StreamOver \/ StopCtrl \/ JoinCtrl \/ SendQuit

CtrlThread == C!CtrlThread /\ UNCHANGED <<spc, requestVars, askedVars, runVars>>

Messages ==
    /\ C!SendMessage \/ C!Signal
    /\ UNCHANGED <<spc, requestVars, askedVars, runVars>>

\* Once QUIT is delivered the application joins the session thread.
Next ==
    \/ SessionThread \/ RunReturns \/ RemoteDisconnects \/ CtrlThread \/ RegistReports
    \/ /\ spc # "done"
       /\ SessionStop \/ RequestRestart \/ RestartStops \/ EnterPin \/ Messages

\* Threads are scheduled, timed waits time out, connects and receives come to an end
\* and the stream connection keeps its promise.  The ctrl thread releases
\* notif_mutex whenever it selects: who waits for it gets it in the end.  Its
\* select has no timeout, and the console need not send anything.
Fairness ==
    /\ WF_vars(SessionThread) /\ SF_vars(ForwardPin) /\ SF_vars(StopCtrl)
    /\ WF_vars(C!Awake /\ CtrlThread) /\ WF_vars(RegistReports)
    /\ WF_vars(RestartStops) /\ WF_vars(R!Due /\ RunReturns)

Spec == Init /\ [][Next]_vars /\ Fairness

-----------------------------------------------------------------------------
(* Properties *)

Places == Holding \cup
    {"created", "regist", "connect", "response", "settle", "ctrlStart", "pin", "crashed",
     "pinReply", "head", "punched", "fallback", "switch", "run", "stream", "returned",
     "ctrlStop", "ctrlJoin", "quit", "done"}

TypeOK ==
    /\ spc \in Places
    /\ request \in 1 .. 3 /\ address \in 1 .. MaxAddresses
    /\ regist \in {"none", "running", "reported"} /\ restarts \in 0 .. MaxRestarts
    /\ {registered, sessionStop, userStop, pin, restart, restarting} \subseteq BOOLEAN
    /\ R!TypeOK

\* After chiaki_session_stop the QUIT event is sent, wherever the session
\* thread and the ctrl thread are, unless an assertion has ended the program
\* (session.c, 326-341, 469-772).
StopReachesQuit == userStop ~> spc \in {"done", "crashed"}

\* A session that is started comes to a stream or to an end, also if the console
\* never answers (the timed waits of lines 515, 552, 560, 600 and 689).
StartupEnds == spc = "created" ~> spc \in {"stream", "done"}

\* The QUIT event comes last: the ctrl thread does not run any more and no run
\* of the stream connection is left (lines 759-772).
QuitLast == spc = "done" => cpc \in {"none", "ended"} /\ ~running

\* STOPPED is reported only when a stop or a restart was requested: the
\* application takes it for a wanted end (lines 475-480, 752-756).
StoppedOnlyIfAsked == spc = "done" /\ quitReason = "STOPPED" => userStop \/ restarts > 0

\* Every QUIT gives a reason, although ctrl, the request and the stream all
\* write the same field, and the label ctrl_failed is reached from three places
\* (lines 645-649).
QuitHasReason == spc = "done" => quitReason # "NONE"

\* The application is told that the remote has disconnected when the stream
\* ended for it, unless ctrl has failed too and overwritten it (lines 734-741).
DisconnectReported ==
    spc = "done" /\ ~ctrlFailed =>
        (quitReason = "REMOTE_DISCONNECTED" <=> outcome = "DISCONNECTED")

\* A stream runs only after ctrl gave, or the session made up, a session id, and
\* over PSN only after the registration has succeeded and the switch to the
\* stream connection was acknowledged for this very run (lines 515-518, 632-697).
StreamWhenReady == running => sessionId /\ (Psn => registered /\ switchReceived)

\* A stream that was asked to restart reconnects: the session does not report a
\* stop that nobody asked for (line 729).
RestartReconnects == spc = "done" /\ quitReason = "STOPPED" => userStop
=============================================================================
