-------------------------------- MODULE Ctrl --------------------------------
(***************************************************************************)
(* The control connection of lib/src/ctrl.c: the ctrl thread, the calls    *)
(* that reach it through its queue, its PIN and its notification pipe, and *)
(* the fields of the session it writes.                                    *)
(*                                                                         *)
(* The ctrl thread holds notif_mutex whenever it does not connect or       *)
(* select, also while it waits for the session's state_mutex; the session  *)
(* thread holds state_mutex while it waits for notif_mutex to hand over a  *)
(* PIN.  stateLocked says that it does so, or holds it for another reason. *)
(***************************************************************************)
EXTENDS Naturals

CONSTANTS
    Kinds,          \* the messages the console may send
    MaxBuffered,    \* messages that fit into recv_buf
    MaxMessages     \* bound on chiaki_ctrl_send_message (no code counterpart)

PinKinds == {"pinRequest", "pinIncorrect", "loginOk"}
AllKinds == PinKinds \cup {"sessionId", "switch", "other", "oversized"}

CtrlAssumption ==
    Kinds \subseteq AllKinds /\ MaxBuffered \in Nat \ {0} /\ MaxMessages \in Nat

VARIABLES
    cpc,            \* where the ctrl thread is
    msg,            \* the message it handles
    buffered,       \* complete messages behind it in recv_buf
    wake,           \* what select returned
    ctrlStop,       \* should_stop
    pinEntered,     \* login_pin_entered
    consolePin,     \* login_pin_requested
    queued,         \* length of msg_queue
    signals,        \* senders that have appended but not yet signalled
    sent,           \* calls of chiaki_ctrl_send_message
    notif,          \* notif_pipe is signalled
    ctrlFailed,     \* session: ctrl_failed
    sessionId,      \* session: ctrl_session_id_received
    pinRequested,   \* session: ctrl_login_pin_requested
    switchReceived, \* session: stream_connection_switch_received
    quitReason,     \* session: quit_reason
    stateLocked,    \* session: state_mutex is held by a thread that blocks
    pinTaken        \* (history) the session thread has taken a PIN request

threadVars  == <<cpc, msg, buffered, wake>>
pipeVars    == <<ctrlStop, pinEntered, queued, signals, sent, notif>>
sessionVars == <<ctrlFailed, sessionId, pinRequested, switchReceived, quitReason>>
ctrlVars    == <<threadVars, pipeVars, consolePin, sessionVars>>
vars        == <<ctrlVars, stateLocked, pinTaken>>

NotifFree == cpc \in {"none", "connecting", "selecting", "woken", "ended"}

Goto(where) == cpc' = where /\ UNCHANGED <<msg, buffered, wake>>

-----------------------------------------------------------------------------
(* Calls from other threads *)

\* chiaki_ctrl_start, and the thread up to chiaki_stop_pipe_connect
StartCtrl ==
    /\ cpc = "none"
    /\ Goto("connecting")
    /\ UNCHANGED <<pipeVars, consolePin, sessionVars>>

\* chiaki_ctrl_stop
StopCtrl ==
    /\ NotifFree
    /\ ctrlStop' = TRUE
    /\ notif' = TRUE
    /\ UNCHANGED <<threadVars, pinEntered, queued, signals, sent, consolePin, sessionVars>>

\* chiaki_ctrl_set_login_pin; the session thread calls it with state_mutex.
SetLoginPin ==
    /\ NotifFree
    /\ pinEntered' = TRUE
    /\ notif' = TRUE
    /\ UNCHANGED <<threadVars, ctrlStop, queued, signals, sent, consolePin, sessionVars>>

\* chiaki_ctrl_send_message appends with notif_mutex and signals without it.
SendMessage ==
    /\ sent < MaxMessages /\ NotifFree
    /\ queued' = queued + 1 /\ sent' = sent + 1
    /\ signals' = signals + 1
    /\ UNCHANGED <<threadVars, ctrlStop, pinEntered, notif, consolePin, sessionVars>>

Signal ==
    /\ signals > 0
    /\ signals' = signals - 1
    /\ notif' = TRUE
    /\ UNCHANGED <<threadVars, ctrlStop, pinEntered, queued, sent, consolePin, sessionVars>>

-----------------------------------------------------------------------------
(* ctrl_connect *)

\* Faulty variant: a connection that is canceled ends without a word.
ConnectCanceledQuietly ==
    /\ cpc = "connecting" /\ notif
    /\ Goto("ended")
    /\ UNCHANGED <<pipeVars, consolePin, sessionVars>>

\* Any notification cancels the connect, a stop, a PIN or a message.
ConnectCanceled ==
    /\ cpc = "connecting" /\ notif
    /\ Goto("connectFailed")
    /\ UNCHANGED <<pipeVars, consolePin, sessionVars>>

\* ctrl_failed is called here and again by the caller.
ConnectFails ==
    /\ cpc = "connecting" /\ ~notif
    /\ cpc' \in {"refused", "unreachable"}
    /\ UNCHANGED <<msg, buffered, wake, pipeVars, consolePin, sessionVars>>

Connects ==
    /\ cpc = "connecting" /\ ~notif
    /\ Goto("requesting")
    /\ UNCHANGED <<pipeVars, consolePin, sessionVars>>

\* chiaki_recv_http_header times out, is canceled, or the answer is bad.
RequestFails ==
    /\ cpc = "requesting"
    /\ Goto("connectFailed")
    /\ UNCHANGED <<pipeVars, consolePin, sessionVars>>

\* The loop over the complete messages in recv_buf, then select.
Proceed(messages) ==
    /\ \/ messages = 0 /\ cpc' = "selecting" /\ UNCHANGED <<msg, buffered>>
       \/ /\ messages > 0
          /\ cpc' = "handling" /\ msg' \in Kinds
          /\ buffered' = messages - 1
    /\ UNCHANGED wake

NextMessage == Proceed(buffered)

NewMessages == \E messages \in 0 .. MaxBuffered : Proceed(messages)

RequestAnswered ==
    /\ cpc = "requesting"
    /\ NewMessages
    /\ UNCHANGED <<pipeVars, consolePin, sessionVars>>

\* ctrl_failed, with notif_mutex held, at each place that calls it
Failing == {"refused", "unreachable", "connectFailed", "broken"}

ReasonOf(where) ==
    CASE where = "refused"       -> "CTRL_CONNECTION_REFUSED"
      [] where = "connectFailed" -> "CTRL_CONNECT_FAILED"
      [] OTHER                   -> "CTRL_UNKNOWN"

Fail ==
    /\ cpc \in Failing /\ ~stateLocked
    /\ quitReason' = ReasonOf(cpc)
    /\ ctrlFailed' = TRUE
    /\ Goto(IF cpc \in {"refused", "unreachable"} THEN "connectFailed" ELSE "ended")
    /\ UNCHANGED <<pipeVars, consolePin, sessionId, pinRequested, switchReceived>>

-----------------------------------------------------------------------------
(* The loop of ctrl_thread_func *)

\* chiaki_stop_pipe_select_single looks at the pipe first.
Select ==
    /\ cpc = "selecting"
    /\ cpc' = "woken"
    /\ wake' \in (IF notif THEN {"CANCELED"} ELSE {"SUCCESS", "ERROR"})
    /\ UNCHANGED <<msg, buffered, pipeVars, consolePin, sessionVars>>

Flush == queued' = 0

\* The queue is flushed, then the PIN sent and the pipe reset without a look at
\* should_stop; the pipe stays signalled when there was nothing to do.
Notified ==
    /\ cpc = "woken" /\ wake = "CANCELED"
    /\ Flush
    /\ \/ /\ pinEntered
          /\ pinEntered' = FALSE
          /\ notif' = FALSE
          /\ Goto("selecting")
       \/ /\ ~pinEntered
          /\ notif' = (notif /\ (ctrlStop \/ queued = 0))
          /\ Goto(IF ctrlStop THEN "ended" ELSE "selecting")
          /\ UNCHANGED pinEntered
    /\ UNCHANGED <<ctrlStop, signals, sent, consolePin, sessionVars>>

\* A select error and a connection closed by the console end the thread
\* without ctrl_failed.
EndsQuietly ==
    /\ cpc = "woken" /\ wake \in {"ERROR", "SUCCESS"}
    /\ Goto("ended")
    /\ UNCHANGED <<pipeVars, consolePin, sessionVars>>

ReceiveFails ==
    /\ cpc = "woken" /\ wake = "SUCCESS"
    /\ Goto("broken")
    /\ UNCHANGED <<pipeVars, consolePin, sessionVars>>

Receive ==
    /\ cpc = "woken" /\ wake = "SUCCESS"
    /\ NewMessages
    /\ UNCHANGED <<pipeVars, consolePin, sessionVars>>

-----------------------------------------------------------------------------
(* Message handlers *)

\* No need of the session's mutex.
HandleLocally ==
    /\ cpc = "handling"
    /\ \/ msg = "other" /\ UNCHANGED consolePin
       \/ msg = "loginOk" /\ consolePin' = FALSE
       \/ msg = "sessionId" /\ sessionId /\ UNCHANGED consolePin
       \/ msg = "pinIncorrect" /\ ~consolePin /\ UNCHANGED consolePin
       \/ msg = "switch" /\ switchReceived /\ UNCHANGED consolePin
    /\ NextMessage
    /\ UNCHANGED <<pipeVars, sessionVars>>

\* An invalid session id is replaced by the fallback one.
HandleSessionId ==
    /\ cpc = "handling" /\ msg = "sessionId" /\ ~sessionId /\ ~stateLocked
    /\ sessionId' = TRUE
    /\ NextMessage
    /\ UNCHANGED <<pipeVars, consolePin, ctrlFailed, pinRequested, switchReceived, quitReason>>

HandlePinRequest ==
    /\ cpc = "handling" /\ ~stateLocked
    /\ \/ msg = "pinRequest" /\ consolePin' = TRUE
       \/ msg = "pinIncorrect" /\ consolePin /\ UNCHANGED consolePin
    /\ pinRequested' = TRUE
    /\ NextMessage
    /\ UNCHANGED <<pipeVars, ctrlFailed, sessionId, switchReceived, quitReason>>

HandleSwitch ==
    /\ cpc = "handling" /\ msg = "switch" /\ ~switchReceived /\ ~stateLocked
    /\ switchReceived' = TRUE
    /\ NextMessage
    /\ UNCHANGED <<pipeVars, consolePin, ctrlFailed, sessionId, pinRequested, quitReason>>

\* The message does not fit into recv_buf.
HandleOversized ==
    /\ cpc = "handling" /\ msg = "oversized"
    /\ Goto("broken")
    /\ UNCHANGED <<pipeVars, consolePin, sessionVars>>

-----------------------------------------------------------------------------
CtrlInit ==
    /\ cpc = "none" /\ msg = "other" /\ buffered = 0 /\ wake = "CANCELED"
    /\ ctrlStop = FALSE /\ pinEntered = FALSE /\ consolePin = FALSE
    /\ queued = 0 /\ signals = 0 /\ sent = 0 /\ notif = FALSE
    /\ ctrlFailed = FALSE /\ sessionId = FALSE /\ pinRequested = FALSE
    /\ switchReceived = FALSE /\ quitReason = "NONE"

CtrlThread ==
    \/ ConnectCanceled \/ ConnectFails \/ Connects \/ RequestFails \/ RequestAnswered
    \/ Fail \/ Select \/ Notified \/ EndsQuietly \/ ReceiveFails \/ Receive
    \/ HandleLocally \/ HandleSessionId \/ HandlePinRequest \/ HandleSwitch
    \/ HandleOversized

(* The session thread, as far as ctrl sees it: it takes a PIN request, holds *)
(* state_mutex until the PIN is handed over, and stops ctrl in the end.     *)
TakePinRequest ==
    /\ pinRequested /\ ~ctrlStop /\ ~stateLocked
    /\ pinRequested' = FALSE
    /\ stateLocked' = TRUE /\ pinTaken' = TRUE
    /\ UNCHANGED <<threadVars, pipeVars, consolePin, ctrlFailed, sessionId, switchReceived,
                   quitReason>>

HandOverPin ==
    /\ stateLocked /\ SetLoginPin
    /\ stateLocked' = FALSE /\ UNCHANGED pinTaken

EndOfSession ==
    /\ cpc # "none" /\ ~stateLocked /\ StopCtrl
    /\ UNCHANGED <<stateLocked, pinTaken>>

Init == CtrlInit /\ stateLocked = FALSE /\ pinTaken = FALSE

Next ==
    \/ (StartCtrl \/ CtrlThread \/ SendMessage \/ Signal) /\ UNCHANGED <<stateLocked, pinTaken>>
    \/ TakePinRequest \/ HandOverPin \/ EndOfSession

\* The select has no timeout, and the console need not send anything.
Awake == cpc = "selecting" => notif

\* The ctrl thread is scheduled, its connect and the response to its request
\* come to an end, a sender that has appended goes on to signal.
Fairness ==
    /\ WF_vars(Awake /\ CtrlThread /\ UNCHANGED <<stateLocked, pinTaken>>)
    /\ WF_vars(Signal /\ UNCHANGED <<stateLocked, pinTaken>>)

Spec == Init /\ [][Next]_vars /\ Fairness

-----------------------------------------------------------------------------
(* Properties *)

Reasons == {"NONE", "CTRL_CONNECTION_REFUSED", "CTRL_CONNECT_FAILED", "CTRL_UNKNOWN"}

TypeOK ==
    /\ cpc \in Failing \cup {"none", "connecting", "requesting", "handling", "selecting",
                             "woken", "ended"}
    /\ msg \in AllKinds /\ wake \in {"CANCELED", "SUCCESS", "ERROR"}
    /\ {queued, signals, sent} \subseteq 0 .. MaxMessages
    /\ buffered \in 0 .. MaxBuffered /\ quitReason \in Reasons
    /\ {ctrlStop, pinEntered, consolePin, notif, ctrlFailed, sessionId, pinRequested,
        switchReceived, stateLocked, pinTaken} \subseteq BOOLEAN

\* After chiaki_ctrl_stop the thread ends, so that chiaki_ctrl_join returns: the
\* stop may come while the thread connects, while it is woken by other things or
\* while it handles messages (ctrl.c, 170-177, 378-397).  It does not hold once
\* the session has taken a PIN request, see StopReachesQuit of Session.
StopEndsCtrl == ctrlStop ~> (cpc = "ended" \/ pinTaken)

\* A queued message does not wait for something else to wake the thread, also
\* one that was queued before the thread was started: it is sent, or the thread
\* ends (ctrl.c, 218-232, 365-374).  Again as long as the session thread does
\* not wait for notif_mutex with a PIN.
QueueFlushed == (queued > 0 /\ cpc # "none") ~> (queued = 0 \/ cpc = "ended" \/ pinTaken)

\* The thread ends without chiaki_ctrl_stop and without ctrl_failed only after
\* the console has closed the connection or select has failed: the session,
\* which waits for ctrl_failed, is told of every connect that fails, of every
\* canceled one and of every message that is too long (ctrl.c, 313-319, 352-356).
SilentEndOnlyAfterClose ==
    cpc = "ended" => ctrlStop \/ ctrlFailed \/ wake \in {"SUCCESS", "ERROR"}
=============================================================================
