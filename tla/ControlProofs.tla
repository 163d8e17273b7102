---------------------------- MODULE ControlProofs ----------------------------
(***************************************************************************)
(* Theorems about the bench of MCControl: sessions, ctrl, the host, the    *)
(* connection over the Internet and the registration. Each component has   *)
(* an inductive invariant for its bench, of which the property follows.    *)
(***************************************************************************)
EXTENDS MCControl, Integers, Sequences, FiniteSetTheorems, TLAPS

Sub == INSTANCE SubsequenceProofs

-----------------------------------------------------------------------------
(* Sessions *)

\* Before the session thread starts ctrl.
BeforeCtrl == {"created", "regist", "registJoin", "connect", "response", "settle"}

\* Once it is known how the session ends.
Ending == {"ctrlStop", "ctrlJoin", "quit", "done"}

\* Somebody wanted the stream to end.
Asked == userStop \/ restarts > 0

\* The thread of ctrl and the stream run where the session thread lets them.
ThreadsInOrder ==
    /\ running <=> spc = "stream"
    /\ spc \in BeforeCtrl => cpc = "none"
    /\ spc \in {"quit", "done"} => cpc \in {"none", "ended"}
    /\ spc \in {"switch", "run", "stream"} => sessionId

\* The stop of the session came from the user, and STOPPED is said only after a stop or a
\* restart.
StopsWereAsked ==
    /\ sessionStop => userStop
    /\ stopped \/ restarting => Asked
    /\ outcome \in {"SUCCESS", "CANCELED"} => stopped
    /\ quitReason = "STOPPED" => Asked

\* The reason to quit is set when the session begins to end, and then it stays.
ReasonsAreKept ==
    /\ regist = "none" /\ spc # "switch"
    /\ spc \in Ending => quitReason # "NONE"
    /\ spc \notin Ending => quitReason # "REMOTE_DISCONNECTED"
    /\ spc \notin Ending \cup {"stream", "returned", "head", "fallback", "run"} => outcome = "none"
    /\ spc \in Ending /\ ~ctrlFailed =>
          (quitReason = "REMOTE_DISCONNECTED" <=> outcome = "DISCONNECTED")

\* The inductive invariant of a session in the local network ...
LanInv == restarts \in Nat /\ ThreadsInOrder /\ StopsWereAsked /\ ReasonsAreKept

\* ... and of one over PSN.
PsnInv ==
    /\ ThreadsInOrder
    /\ spc \in {"run", "stream"} => switchReceived
    /\ regist = "reported" => registered \/ sessionStop
    /\ registered \/ spc \in {"created", "regist", "registJoin", "quit", "done"}

\* What a step of the ctrl thread may change for the session.
CtrlMoves ==
    /\ cpc \notin {"none", "ended"} /\ cpc' # "none"
    /\ sessionId => sessionId'
    /\ switchReceived => switchReceived'
    /\ \/ UNCHANGED <<quitReason, ctrlFailed>>
       \/ quitReason' \in {"CTRL_CONNECTION_REFUSED", "CTRL_CONNECT_FAILED", "CTRL_UNKNOWN"}
          /\ ctrlFailed'
    /\ UNCHANGED <<spc, request, address, regist, registered, sessionStop, userStop, pin, restart,
                   restarting, restarts, running, stopped, gone, outcome>>

\* The ctrl thread changes nothing but that.
LEMMA LanCtrlMoves == L!CtrlThread => CtrlMoves
  <1> SUFFICES ASSUME L!CtrlThread PROVE CtrlMoves
    OBVIOUS
  <1> USE DEF CtrlMoves, L!requestVars, L!askedVars, L!runVars, L!C!Goto, L!C!pipeVars,
              L!C!sessionVars, L!C!NextMessage, L!C!NewMessages, L!C!Proceed
  <1>0. /\ UNCHANGED <<spc, request, address, regist, registered, sessionStop, userStop, pin,
                       restart, restarting, restarts, running, stopped, gone, outcome>>
        /\ L!C!CtrlThread
    BY DEF L!CtrlThread
  <1>1. CASE L!C!ConnectCanceled
    BY <1>0, <1>1 DEF L!C!ConnectCanceled
  <1>2. CASE L!C!ConnectFails
    BY <1>0, <1>2 DEF L!C!ConnectFails
  <1>3. CASE L!C!Connects
    BY <1>0, <1>3 DEF L!C!Connects
  <1>4. CASE L!C!RequestFails
    BY <1>0, <1>4 DEF L!C!RequestFails
  <1>5. CASE L!C!RequestAnswered
    BY <1>0, <1>5 DEF L!C!RequestAnswered
  <1>6. CASE L!C!Fail
    BY <1>0, <1>6 DEF L!C!Fail, L!C!ReasonOf, L!C!Failing
  <1>7. CASE L!C!Select
    BY <1>0, <1>7 DEF L!C!Select
  <1>8. CASE L!C!Notified
    BY <1>0, <1>8 DEF L!C!Notified
  <1>9. CASE L!C!EndsQuietly \/ L!C!ReceiveFails \/ L!C!Receive
    BY <1>0, <1>9 DEF L!C!EndsQuietly, L!C!ReceiveFails, L!C!Receive
  <1>10. CASE L!C!HandleLocally \/ L!C!HandleSessionId
    BY <1>0, <1>10 DEF L!C!HandleLocally, L!C!HandleSessionId
  <1>11. CASE L!C!HandlePinRequest \/ L!C!HandleSwitch \/ L!C!HandleOversized
    BY <1>0, <1>11 DEF L!C!HandlePinRequest, L!C!HandleSwitch, L!C!HandleOversized
  <1> QED
    BY <1>0, <1>1, <1>2, <1>3, <1>4, <1>5, <1>6, <1>7, <1>8, <1>9, <1>10, <1>11
       DEF L!C!CtrlThread

\* The session thread.
LEMMA LanThread == LanInv /\ L!SessionThread => LanInv'
  <1> SUFFICES ASSUME LanInv, L!SessionThread PROVE LanInv'
    OBVIOUS
  <1> USE DEF LanInv, ThreadsInOrder, StopsWereAsked, ReasonsAreKept, BeforeCtrl, Ending, Asked,
              L!requestVars, L!askedVars, L!runVars, L!sharedVars, L!ctrlOwnVars,
              L!ctrlVars, L!Goto, L!Quit, L!QuitCtrl, L!StartupUnchanged,
              L!RequestUnchanged, L!StopSeen, L!FailureSeen, L!CtrlHasFailed
  <1>1. CASE L!Begin
    BY <1>1 DEF L!Begin
  <1>2. CASE L!RegistWaitEnds
    BY <1>2 DEF L!RegistWaitEnds
  <1>3. CASE L!RegistJoined
    BY <1>3 DEF L!RegistJoined
  <1>4. CASE L!ConnectCanceled
    BY <1>4 DEF L!ConnectCanceled
  <1>5. CASE L!ConnectFails
    BY <1>5 DEF L!ConnectFails
  <1>6. CASE L!RudpFails
    BY <1>6 DEF L!RudpFails
  <1>7. CASE L!RequestSent
    BY <1>7 DEF L!RequestSent
  <1>8. CASE L!ResponseCanceled
    BY <1>8 DEF L!ResponseCanceled
  <1>9. CASE L!ResponseRefuses
    BY <1>9 DEF L!ResponseRefuses, L!ResponseReasons
  <1>10. CASE L!TryOtherVersion
    BY <1>10 DEF L!TryOtherVersion
  <1>11. CASE L!ResponseAccepts
    BY <1>11 DEF L!ResponseAccepts
  <1>12. CASE L!StartCtrl
    BY <1>12 DEF L!StartCtrl, L!C!StartCtrl, L!C!Goto, L!C!pipeVars, L!C!sessionVars
  <1>13. CASE L!CtrlStarted
    BY <1>13 DEF L!CtrlStarted, L!AskPin, L!Continue
  <1>14. CASE L!PinEntered
    BY <1>14 DEF L!PinEntered
  <1>15. CASE L!ForwardPin
    BY <1>15 DEF L!ForwardPin, L!C!SetLoginPin, L!C!threadVars, L!C!sessionVars
  <1>16. CASE L!PinReplied
    BY <1>16 DEF L!PinReplied, L!AskPin, L!Continue
  <1>17. CASE L!PunchHole
    BY <1>17 DEF L!PunchHole
  <1>18. CASE L!PunchStopped
    BY <1>18 DEF L!PunchStopped
  <1>19. CASE L!WithSessionId
    BY <1>19 DEF L!WithSessionId, L!Switch, L!SessionIdReady
  <1>20. CASE L!WithoutSessionId
    BY <1>20 DEF L!WithoutSessionId, L!SessionIdReady
  <1>21. CASE L!FallBack
    BY <1>21 DEF L!FallBack, L!Switch
  <1>22. CASE L!Switched
    BY <1>22 DEF L!Switched
  <1>23. CASE L!Run
    BY <1>23 DEF L!Run, L!R!Begin, L!R!FailAtOnce
  <1>24. CASE L!Restart
    BY <1>24 DEF L!Restart, L!RestartWanted
  <1>25. CASE L!StreamOver
    BY <1>25 DEF L!StreamOver, L!ReasonOfOutcome, L!RestartWanted
  <1>26. CASE L!StopCtrl
    BY <1>26 DEF L!StopCtrl, L!C!StopCtrl, L!C!threadVars, L!C!sessionVars
  <1>27. CASE L!JoinCtrl
    BY <1>27 DEF L!JoinCtrl
  <1>28. CASE L!SendQuit
    BY <1>28 DEF L!SendQuit
  <1> QED
    BY <1>1, <1>2, <1>3, <1>4, <1>5, <1>6, <1>7, <1>8, <1>9, <1>10, <1>11, <1>12, <1>13, <1>14,
       <1>15, <1>16, <1>17, <1>18, <1>19, <1>20, <1>21, <1>22, <1>23, <1>24, <1>25, <1>26,
       <1>27, <1>28
       DEF L!SessionThread, L!Request, L!Startup

\* A step of the session, its ctrl thread, the stream or the user.
LEMMA LanStep == LanInv /\ L!Next => LanInv'
  <1> SUFFICES ASSUME LanInv, L!Next PROVE LanInv'
    OBVIOUS
  <1> USE DEF LanInv, ThreadsInOrder, StopsWereAsked, ReasonsAreKept, BeforeCtrl, Ending, Asked,
              L!requestVars, L!askedVars, L!runVars, L!sharedVars, L!ctrlOwnVars,
              L!ctrlVars
  <1>1. CASE L!SessionThread
    BY <1>1, LanThread
  <1>2. CASE L!RunReturns
    BY <1>2 DEF L!RunReturns, L!Goto, L!R!Return, L!R!Failures
  <1>3. CASE L!RemoteDisconnects
    BY <1>3 DEF L!RemoteDisconnects, L!R!RemoteDisconnects
  <1>4. CASE L!CtrlThread
    BY <1>4, LanCtrlMoves DEF CtrlMoves
  <1>5. CASE L!RegistReports
    BY <1>5 DEF L!RegistReports
  <1>6. CASE L!SessionStop
    BY <1>6 DEF L!SessionStop, L!R!Stop
  <1>7. CASE L!RequestRestart
    BY <1>7 DEF L!RequestRestart
  <1>8. CASE L!RestartStops
    BY <1>8 DEF L!RestartStops, L!R!Stop
  <1>9. CASE L!EnterPin
    BY <1>9 DEF L!EnterPin
  <1>10. CASE L!Messages
    BY <1>10 DEF L!Messages, L!C!SendMessage, L!C!Signal, L!C!threadVars, L!C!sessionVars
  <1> QED
    BY <1>1, <1>2, <1>3, <1>4, <1>5, <1>6, <1>7, <1>8, <1>9, <1>10 DEF L!Next

\* The same for a session over PSN.
LEMMA PsnCtrlMoves == P!CtrlThread => CtrlMoves
  <1> SUFFICES ASSUME P!CtrlThread PROVE CtrlMoves
    OBVIOUS
  <1> USE DEF CtrlMoves, P!requestVars, P!askedVars, P!runVars, P!C!Goto, P!C!pipeVars,
              P!C!sessionVars, P!C!NextMessage, P!C!NewMessages, P!C!Proceed
  <1>0. /\ UNCHANGED <<spc, request, address, regist, registered, sessionStop, userStop, pin,
                       restart, restarting, restarts, running, stopped, gone, outcome>>
        /\ P!C!CtrlThread
    BY DEF P!CtrlThread
  <1>1. CASE P!C!ConnectCanceled
    BY <1>0, <1>1 DEF P!C!ConnectCanceled
  <1>2. CASE P!C!ConnectFails
    BY <1>0, <1>2 DEF P!C!ConnectFails
  <1>3. CASE P!C!Connects
    BY <1>0, <1>3 DEF P!C!Connects
  <1>4. CASE P!C!RequestFails
    BY <1>0, <1>4 DEF P!C!RequestFails
  <1>5. CASE P!C!RequestAnswered
    BY <1>0, <1>5 DEF P!C!RequestAnswered
  <1>6. CASE P!C!Fail
    BY <1>0, <1>6 DEF P!C!Fail, P!C!ReasonOf, P!C!Failing
  <1>7. CASE P!C!Select
    BY <1>0, <1>7 DEF P!C!Select
  <1>8. CASE P!C!Notified
    BY <1>0, <1>8 DEF P!C!Notified
  <1>9. CASE P!C!EndsQuietly \/ P!C!ReceiveFails \/ P!C!Receive
    BY <1>0, <1>9 DEF P!C!EndsQuietly, P!C!ReceiveFails, P!C!Receive
  <1>10. CASE P!C!HandleLocally \/ P!C!HandleSessionId
    BY <1>0, <1>10 DEF P!C!HandleLocally, P!C!HandleSessionId
  <1>11. CASE P!C!HandlePinRequest \/ P!C!HandleSwitch \/ P!C!HandleOversized
    BY <1>0, <1>11 DEF P!C!HandlePinRequest, P!C!HandleSwitch, P!C!HandleOversized
  <1> QED
    BY <1>0, <1>1, <1>2, <1>3, <1>4, <1>5, <1>6, <1>7, <1>8, <1>9, <1>10, <1>11
       DEF P!C!CtrlThread

\* The session thread.
LEMMA PsnThread == PsnInv /\ P!SessionThread => PsnInv'
  <1> SUFFICES ASSUME PsnInv, P!SessionThread PROVE PsnInv'
    OBVIOUS
  <1> USE DEF PsnInv, ThreadsInOrder, BeforeCtrl, Ending, Asked,
              P!requestVars, P!askedVars, P!runVars, P!sharedVars, P!ctrlOwnVars,
              P!ctrlVars, P!Goto, P!Quit, P!QuitCtrl, P!StartupUnchanged,
              P!RequestUnchanged, P!StopSeen, P!FailureSeen, P!CtrlHasFailed
  <1>1. CASE P!Begin
    BY <1>1 DEF P!Begin
  <1>2. CASE P!RegistWaitEnds
    BY <1>2 DEF P!RegistWaitEnds
  <1>3. CASE P!RegistJoined
    BY <1>3 DEF P!RegistJoined
  <1>4. CASE P!ConnectCanceled
    BY <1>4 DEF P!ConnectCanceled
  <1>5. CASE P!ConnectFails
    BY <1>5 DEF P!ConnectFails
  <1>6. CASE P!RudpFails
    BY <1>6 DEF P!RudpFails
  <1>7. CASE P!RequestSent
    BY <1>7 DEF P!RequestSent
  <1>8. CASE P!ResponseCanceled
    BY <1>8 DEF P!ResponseCanceled
  <1>9. CASE P!ResponseRefuses
    BY <1>9 DEF P!ResponseRefuses, P!ResponseReasons
  <1>10. CASE P!TryOtherVersion
    BY <1>10 DEF P!TryOtherVersion
  <1>11. CASE P!ResponseAccepts
    BY <1>11 DEF P!ResponseAccepts
  <1>12. CASE P!StartCtrl
    BY <1>12 DEF P!StartCtrl, P!C!StartCtrl, P!C!Goto, P!C!pipeVars, P!C!sessionVars
  <1>13. CASE P!CtrlStarted
    BY <1>13 DEF P!CtrlStarted, P!AskPin, P!Continue
  <1>14. CASE P!PinEntered
    BY <1>14 DEF P!PinEntered
  <1>15. CASE P!ForwardPin
    BY <1>15 DEF P!ForwardPin, P!C!SetLoginPin, P!C!threadVars, P!C!sessionVars
  <1>16. CASE P!PinReplied
    BY <1>16 DEF P!PinReplied, P!AskPin, P!Continue
  <1>17. CASE P!PunchHole
    BY <1>17 DEF P!PunchHole
  <1>18. CASE P!PunchStopped
    BY <1>18 DEF P!PunchStopped
  <1>19. CASE P!WithSessionId
    BY <1>19 DEF P!WithSessionId, P!Switch, P!SessionIdReady
  <1>20. CASE P!WithoutSessionId
    BY <1>20 DEF P!WithoutSessionId, P!SessionIdReady
  <1>21. CASE P!FallBack
    BY <1>21 DEF P!FallBack, P!Switch
  <1>22. CASE P!Switched
    BY <1>22 DEF P!Switched
  <1>23. CASE P!Run
    BY <1>23 DEF P!Run, P!R!Begin, P!R!FailAtOnce
  <1>24. CASE P!Restart
    BY <1>24 DEF P!Restart, P!RestartWanted
  <1>25. CASE P!StreamOver
    BY <1>25 DEF P!StreamOver, P!ReasonOfOutcome, P!RestartWanted
  <1>26. CASE P!StopCtrl
    BY <1>26 DEF P!StopCtrl, P!C!StopCtrl, P!C!threadVars, P!C!sessionVars
  <1>27. CASE P!JoinCtrl
    BY <1>27 DEF P!JoinCtrl
  <1>28. CASE P!SendQuit
    BY <1>28 DEF P!SendQuit
  <1> QED
    BY <1>1, <1>2, <1>3, <1>4, <1>5, <1>6, <1>7, <1>8, <1>9, <1>10, <1>11, <1>12, <1>13, <1>14,
       <1>15, <1>16, <1>17, <1>18, <1>19, <1>20, <1>21, <1>22, <1>23, <1>24, <1>25, <1>26,
       <1>27, <1>28
       DEF P!SessionThread, P!Request, P!Startup

\* A step of a session over PSN.
LEMMA PsnStep == PsnInv /\ P!Next => PsnInv'
  <1> SUFFICES ASSUME PsnInv, P!Next PROVE PsnInv'
    OBVIOUS
  <1> USE DEF PsnInv, ThreadsInOrder, BeforeCtrl, Ending, Asked,
              P!requestVars, P!askedVars, P!runVars, P!sharedVars, P!ctrlOwnVars,
              P!ctrlVars
  <1>1. CASE P!SessionThread
    BY <1>1, PsnThread
  <1>2. CASE P!RunReturns
    BY <1>2 DEF P!RunReturns, P!Goto, P!R!Return, P!R!Failures
  <1>3. CASE P!RemoteDisconnects
    BY <1>3 DEF P!RemoteDisconnects, P!R!RemoteDisconnects
  <1>4. CASE P!CtrlThread
    BY <1>4, PsnCtrlMoves DEF CtrlMoves
  <1>5. CASE P!RegistReports
    BY <1>5 DEF P!RegistReports
  <1>6. CASE P!SessionStop
    BY <1>6 DEF P!SessionStop, P!R!Stop
  <1>7. CASE P!RequestRestart
    BY <1>7 DEF P!RequestRestart
  <1>8. CASE P!RestartStops
    BY <1>8 DEF P!RestartStops, P!R!Stop
  <1>9. CASE P!EnterPin
    BY <1>9 DEF P!EnterPin
  <1>10. CASE P!Messages
    BY <1>10 DEF P!Messages, P!C!SendMessage, P!C!Signal, P!C!threadVars, P!C!sessionVars
  <1> QED
    BY <1>1, <1>2, <1>3, <1>4, <1>5, <1>6, <1>7, <1>8, <1>9, <1>10 DEF P!Next

\* The sessions at first ...
LEMMA LanInit == L!Init => LanInv
  BY DEF L!Init, L!R!Init, L!C!CtrlInit, LanInv, ThreadsInOrder, StopsWereAsked, ReasonsAreKept,
         BeforeCtrl, Ending, Asked

\* ... over PSN as well ...
LEMMA PsnInit == P!Init => PsnInv
  BY DEF P!Init, P!R!Init, P!C!CtrlInit, PsnInv, ThreadsInOrder, BeforeCtrl

\* ... and while another component runs ...
LEMMA LanStutter == LanInv /\ UNCHANGED <<ownVars, ctrlVars>> => LanInv'
  BY DEF LanInv, ThreadsInOrder, StopsWereAsked, ReasonsAreKept, BeforeCtrl, Ending, Asked,
         ownVars, ctrlVars

\* ... over PSN as well.
LEMMA PsnStutter == PsnInv /\ UNCHANGED <<ownVars, ctrlVars>> => PsnInv'
  BY DEF PsnInv, ThreadsInOrder, BeforeCtrl, ownVars, ctrlVars

-----------------------------------------------------------------------------
(* The benches *)

\* The component that runs takes a step, or it stays as it is.
LEMMA BenchStep ==
    ASSUME [Next]_vars
    PROVE  /\ bench' = bench
           /\ bench = "lan" => L!Next \/ UNCHANGED <<ownVars, ctrlVars>>
           /\ bench = "psn" => P!Next \/ UNCHANGED <<ownVars, ctrlVars>>
           /\ bench = "ctrl" => C!Next \/ UNCHANGED <<ctrlVars, stateLocked, pinTaken>>
           /\ bench = "host" => H!Next \/ UNCHANGED hostVars
           /\ bench = "punch" => N!Next \/ UNCHANGED punchVars
           /\ bench = "regist" => R!Next \/ UNCHANGED registVars
  BY DEF Next, vars, Lan, Internet, Ctrl, Host, Punch, Regist, OfLan, OfCtrl, OfHost, OfPunch,
         OfRegist

\* Each session keeps its invariant on its bench.
SessionsInv == (bench = "lan" => LanInv) /\ (bench = "psn" => PsnInv)

\* Always so.
LEMMA SessionsInvariant == Spec => []SessionsInv
  <1>1. Init => SessionsInv
    BY LanInit, PsnInit DEF Init, SessionsInv
  <1>2. SessionsInv /\ [Next]_vars => SessionsInv'
    BY BenchStep, LanStep, PsnStep, LanStutter, PsnStutter DEF SessionsInv
  <1> QED
    BY <1>1, <1>2, PTL DEF Spec

\* For every set of messages and addresses: QUIT comes last and with a reason, STOPPED is
\* said only of a session that was asked to stop or restart, REMOTE_DISCONNECTED exactly
\* when the console ended the stream (session.c, 475-486, 643-650, 734-772).
THEOREM QuitTellsTheTruth == Spec => []QuitIsTruthful
  <1>1. SessionsInv => QuitIsTruthful
    BY DEF SessionsInv, LanInv, PsnInv, ThreadsInOrder, StopsWereAsked, ReasonsAreKept, Ending,
           Asked, QuitIsTruthful, L!QuitLast, L!QuitHasReason, L!StoppedOnlyIfAsked,
           L!DisconnectReported
  <1> QED
    BY <1>1, SessionsInvariant, PTL

\* A stream runs only when ctrl has the session id, and over PSN when the switch was
\* received and the registration has succeeded (session.c, 500-730).
THEOREM StreamsOnlyWhenReady == Spec => []StreamWhenReady
  <1>1. SessionsInv => StreamWhenReady
    BY DEF SessionsInv, LanInv, PsnInv, ThreadsInOrder, StreamWhenReady, L!StreamWhenReady,
           P!StreamWhenReady
  <1> QED
    BY <1>1, SessionsInvariant, PTL

-----------------------------------------------------------------------------
(* Ctrl *)

\* No step of ctrl ends its thread in silence but after a close of the console.
LEMMA CtrlStep == C!SilentEndOnlyAfterClose /\ C!Next => C!SilentEndOnlyAfterClose'
  <1> SUFFICES ASSUME C!SilentEndOnlyAfterClose, C!Next PROVE C!SilentEndOnlyAfterClose'
    OBVIOUS
  <1> USE DEF C!SilentEndOnlyAfterClose, C!Goto, C!pipeVars, C!threadVars, C!sessionVars,
              C!NextMessage, C!NewMessages, C!Proceed
  <1>1. CASE C!StartCtrl \/ C!SendMessage \/ C!Signal
    BY <1>1 DEF C!StartCtrl, C!SendMessage, C!Signal
  <1>2. CASE C!ConnectCanceled \/ C!ConnectFails \/ C!Connects \/ C!RequestFails
    BY <1>2 DEF C!ConnectCanceled, C!ConnectFails, C!Connects, C!RequestFails
  <1>3. CASE C!RequestAnswered \/ C!Receive
    BY <1>3 DEF C!RequestAnswered, C!Receive
  <1>4. CASE C!Fail
    BY <1>4 DEF C!Fail
  <1>5. CASE C!Select \/ C!Notified
    BY <1>5 DEF C!Select, C!Notified
  <1>6. CASE C!EndsQuietly \/ C!ReceiveFails
    BY <1>6 DEF C!EndsQuietly, C!ReceiveFails
  <1>7. CASE C!HandleLocally \/ C!HandleSessionId
    BY <1>7 DEF C!HandleLocally, C!HandleSessionId
  <1>8. CASE C!HandlePinRequest \/ C!HandleSwitch \/ C!HandleOversized
    BY <1>8 DEF C!HandlePinRequest, C!HandleSwitch, C!HandleOversized
  <1>9. CASE C!TakePinRequest \/ C!HandOverPin \/ C!EndOfSession
    BY <1>9 DEF C!TakePinRequest, C!HandOverPin, C!EndOfSession, C!SetLoginPin, C!StopCtrl
  <1> QED
    BY <1>1, <1>2, <1>3, <1>4, <1>5, <1>6, <1>7, <1>8, <1>9 DEF C!Next, C!CtrlThread

\* The ctrl thread ends behind the session's back only after a close of the console
\* (ctrl.c, 313-319, 352-356).
THEOREM CtrlEndsAreTold == Spec => []SilentEndOnlyAfterClose
  <1>1. Init => SilentEndOnlyAfterClose
    BY DEF Init, C!Init, C!CtrlInit, SilentEndOnlyAfterClose, C!SilentEndOnlyAfterClose
  <1>2. C!SilentEndOnlyAfterClose /\ UNCHANGED <<ctrlVars, stateLocked, pinTaken>>
            => C!SilentEndOnlyAfterClose'
    BY DEF C!SilentEndOnlyAfterClose, ctrlVars
  <1>3. SilentEndOnlyAfterClose /\ [Next]_vars => SilentEndOnlyAfterClose'
    BY <1>2, BenchStep, CtrlStep DEF SilentEndOnlyAfterClose
  <1> QED
    BY <1>1, <1>3, PTL DEF Spec

-----------------------------------------------------------------------------
(* The host *)

\* Where the session struct is, for each place of the worker; without a worker it may also
\* wait for its finalisation.
StructFollowsWorker ==
    /\ worker \notin {"join session", "join input", "fini"}
    /\ worker \in {"init", "clean flags"} => session = "free"
    /\ worker \in {"suspend", "own", "media", "start", "clean session"} => session = "inited"
    /\ worker \in {"input", "spawn"} => session = "running"
    /\ worker = "cleanup" => (session = "inited" <=> H!On("session_init"))
    /\ worker \in {"suspend", "own", "clean session"} => ~H!On("session_init")
    /\ worker \in {"media", "start"} => H!On("session_init")
    /\ worker # "none" => H!On("thread_id") \/ worker = "leave"
    /\ worker = "leave" /\ ~H!On("thread_id") => session = "free"

\* Which thread has the session struct in its hands.
StructHasOwner ==
    /\ session \in {"free", "inited", "running", "ended"}
    /\ session = "inited" =>
          worker \in {"suspend", "own", "media", "start", "cleanup", "clean session"}
    /\ session = "running" =>
          /\ worker \in {"input", "spawn", "leave", "none", "enter", "pending", "check"}
          /\ H!On("session_init") \/ quit \in {"defer", "wrap up"}
    /\ session = "ended" =>
          H!On("finalize_pending") /\ quit = "none" /\ ~H!On("session_init")
    /\ H!On("session_init") => session \in {"inited", "running"}
    /\ quit # "none" => session = "running"
    /\ quit \notin {"none", "wait worker"} => worker = "none"
    /\ quit \in {"defer", "wrap up"} => ~H!On("session_init")
    /\ quit = "wrap up" => H!On("finalize_pending")

\* What has quit is finalised by the UI thread, and nobody works meanwhile.
PendingIsKept ==
    /\ H!On("finalize_pending") =>
          /\ worker = "none" /\ session \in {"running", "ended"}
          /\ session = "running" => quit = "wrap up"
    /\ ui = "join session" => H!On("finalize_pending")
    /\ ui \in {"join input", "fini"} => session = "ended"
    /\ ui = "fini" => input = "none"

\* The discovery is on as wanted, or it will be: resume_discovery remembers.
DiscoveryRemembered ==
    /\ discovery \/ H!On("resume_discovery") => wanted
    /\ wanted => discovery \/ H!On("resume_discovery")
    /\ worker \in {"init", "suspend"} => (H!On("was_running") <=> discovery)
    /\ (session = "free" /\ worker # "clean flags") \/ worker = "suspend" =>
           (discovery <=> wanted)

\* The inductive invariant of the host.
HostInv ==
    /\ faults = {}
    /\ StructFollowsWorker /\ StructHasOwner /\ PendingIsKept /\ DiscoveryRemembered

\* No step of the UI thread, the worker, the input thread or the handlers breaks it.
LEMMA HostStep ==
    ASSUME Rapid = FALSE, HostInv, H!Next
    PROVE  HostInv'
  <1> USE DEF HostInv, StructFollowsWorker, StructHasOwner, PendingIsKept, DiscoveryRemembered
  <1>1. CASE H!LoopTop
    BY <1>1 DEF H!LoopTop, H!On, H!Switch
  <1>2. CASE H!DrainJoins
    BY <1>2 DEF H!DrainJoins, H!JoinSession, H!JoinInput, H!On, H!Switch
  <1>3. CASE H!DrainFini
    BY <1>3 DEF H!DrainFini, H!FiniSession, H!ResumeDiscovery, H!Fault, H!On, H!Switch
  <1>4. CASE H!Frame
    BY <1>4 DEF H!Frame, H!On, H!Switch
  <1>5. CASE H!CancelOverlay
    BY <1>5 DEF H!CancelOverlay, H!On, H!Switch
  <1>6. CASE H!CancelWaited
    BY <1>6 DEF H!CancelWaited, H!On, H!Switch
  <1>7. CASE H!Connect
    BY <1>7, Rapid = FALSE DEF H!Connect, H!On, H!Switch
  <1>8. CASE H!Cancel
    <2>1. /\ ui' = "cancel"
          /\ UNCHANGED <<worker, quit, session, input, discovery, wanted, faults>>
          /\ \A f \in {"session_init", "finalize_pending", "thread_id",
                       "resume_discovery", "was_running"} :
                 H!On(f)' <=> H!On(f)
      BY <1>8 DEF H!Cancel, H!RequestStop, H!On, H!Switch
    <2> QED
      BY <2>1, <1>8
  <1>9. CASE H!ExitCombo
    <2>1. /\ UNCHANGED <<ui, worker, quit, session, input, discovery, wanted, faults>>
          /\ \A f \in {"session_init", "finalize_pending", "thread_id",
                       "resume_discovery", "was_running"} :
                 H!On(f)' <=> H!On(f)
      BY <1>9 DEF H!ExitCombo, H!RequestStop, H!On, H!Switch
    <2> QED
      BY <2>1, <1>9
  <1>10. CASE H!Enter
    BY <1>10 DEF H!Enter, H!Goes, H!On, H!Switch
  <1>11. CASE H!CheckPending
    BY <1>11 DEF H!CheckPending, H!Goes, H!On, H!Switch
  <1>12. CASE H!WorkerDrainJoins
    BY <1>12 DEF H!WorkerDrainJoins, H!Goes, H!On, H!Switch
  <1>13. CASE H!WorkerDrainFini
    BY <1>13 DEF H!WorkerDrainFini, H!Goes, H!On, H!Switch
  <1>14. CASE H!CheckInit
    <2>1. CASE H!On("session_init")
      <3>1. /\ worker = "check" /\ worker' = "leave"
            /\ UNCHANGED <<ui, quit, session, input, discovery, wanted, faults>>
            /\ \A f \in {"session_init", "finalize_pending", "thread_id",
                         "resume_discovery", "was_running"} :
                   H!On(f)' <=> H!On(f)
        BY <1>14, <2>1 DEF H!CheckInit, H!Goes, H!On, H!Switch
      <3> QED
        BY <3>1, <2>1, <1>14
    <2>2. CASE ~H!On("session_init")
      <3>1. /\ worker = "check" /\ worker' \in {"cleanup", "init"}
            /\ UNCHANGED <<ui, quit, session, input, discovery, wanted, faults>>
            /\ \A f \in {"session_init", "finalize_pending", "thread_id"} : H!On(f)' <=> H!On(f)
            /\ ~H!On("resume_discovery")'
            /\ H!On("was_running")' <=> discovery
        BY <1>14, <2>2 DEF H!CheckInit, H!Goes, H!On, H!Switch
      <3> QED
        BY <3>1, <2>2, <1>14
    <2> QED
      BY <2>1, <2>2
  <1>15. CASE H!InitSession
    BY <1>15 DEF H!InitSession, H!Goes, H!Fault, H!On, H!Switch
  <1>16. CASE H!SuspendDiscovery
    BY <1>16 DEF H!SuspendDiscovery, H!Goes, H!On, H!Switch
  <1>17. CASE H!Own
    BY <1>17 DEF H!Own, H!Goes, H!On, H!Switch
  <1>18. CASE H!SetUpMedia
    BY <1>18 DEF H!SetUpMedia, H!Goes, H!On, H!Switch
  <1>19. CASE H!StartSession
    BY <1>19 DEF H!StartSession, H!Goes, H!On, H!Switch
  <1>20. CASE H!AllowInput
    BY <1>20 DEF H!AllowInput, H!Goes, H!On, H!Switch
  <1>21. CASE H!SpawnInput
    BY <1>21 DEF H!SpawnInput, H!Goes, H!On, H!Switch
  <1>22. CASE H!Cleanup
    <2>1. CASE H!On("session_init")
      <3>1. /\ worker = "cleanup" /\ worker' = "clean session"
            /\ UNCHANGED <<ui, quit, session, input, discovery, wanted, faults>>
            /\ \A f \in {"finalize_pending", "thread_id", "resume_discovery", "was_running"} :
                   H!On(f)' <=> H!On(f)
            /\ ~H!On("session_init")'
        BY <1>22, <2>1 DEF H!Cleanup, H!Goes, H!On, H!Switch
      <3> QED
        BY <3>1, <2>1, <1>22
    <2>2. CASE ~H!On("session_init")
      <3>1. /\ worker = "cleanup" /\ worker' = "clean flags"
            /\ UNCHANGED <<ui, quit, session, input, discovery, wanted, faults>>
            /\ \A f \in {"session_init", "finalize_pending", "thread_id",
                         "resume_discovery", "was_running"} :
                   H!On(f)' <=> H!On(f)
        BY <1>22, <2>2 DEF H!Cleanup, H!Goes, H!On, H!Switch
      <3> QED
        BY <3>1, <2>2, <1>22
    <2> QED
      BY <2>1, <2>2
  <1>23. CASE H!CleanSession
    <2>1. /\ worker = "clean session" /\ worker' = "clean flags"
          /\ session' = "free" /\ input' = "none"
          /\ UNCHANGED <<ui, quit, discovery, wanted>>
          /\ \A f \in {"session_init", "finalize_pending", "thread_id",
                       "resume_discovery", "was_running"} :
                 H!On(f)' <=> H!On(f)
          /\ faults' = {}
      BY <1>23 DEF H!CleanSession, H!Goes, H!JoinInput, H!FiniSession, H!Fault, H!On, H!Switch
    <2> QED
      BY <2>1, <1>23
  <1>24. CASE H!CleanFlags
    BY <1>24 DEF H!CleanFlags, H!Goes, H!ResumeDiscovery, H!On, H!Switch
  <1>25. CASE H!Leave
    BY <1>25 DEF H!Leave, H!Goes, H!On, H!Switch
  <1>26. CASE H!QuitWaited
    BY <1>26 DEF H!QuitWaited, H!On, H!Switch
  <1>27. CASE H!QuitMedia
    BY <1>27 DEF H!QuitMedia, H!ShutDownMedia, H!On, H!Switch
  <1>28. CASE H!QuitDisown
    BY <1>28 DEF H!QuitDisown, H!On, H!Switch
  <1>29. CASE H!QuitDefer
    BY <1>29 DEF H!QuitDefer, H!On, H!Switch
  <1>30. CASE H!QuitWrapUp
    <2>1. /\ quit = "wrap up" /\ quit' = "none" /\ session' = "ended"
          /\ UNCHANGED <<ui, worker, input, wanted, faults>>
          /\ \A f \in {"session_init", "finalize_pending", "thread_id", "was_running"} :
                 H!On(f)' <=> H!On(f)
          /\ ~H!On("resume_discovery")'
          /\ discovery' <=> discovery \/ H!On("resume_discovery")
      BY <1>30 DEF H!QuitWrapUp, H!ResumeDiscovery, H!On, H!Switch
    <2> QED
      BY <2>1, <1>30
  <1>31. CASE H!Connected
    BY <1>31 DEF H!Connected, H!Streaming, H!On, H!Switch
  <1>32. CASE H!Video
    BY <1>32 DEF H!Video, H!Streaming, H!On, H!Switch
  <1>33. CASE H!QuitEvent
    BY <1>33 DEF H!QuitEvent, H!Streaming, H!On, H!Switch
  <1>34. CASE H!InputExits
    BY <1>34 DEF H!InputExits, H!On, H!Switch
  <1>35. CASE H!CooldownOver
    BY <1>35 DEF H!CooldownOver, H!On, H!Switch
  <1> QED
    BY <1>1, <1>2, <1>3, <1>4, <1>5, <1>6, <1>7, <1>8, <1>9, <1>10, <1>11, <1>12, <1>13, <1>14,
       <1>15, <1>16, <1>17, <1>18, <1>19, <1>20, <1>21, <1>22, <1>23, <1>24, <1>25, <1>26,
       <1>27, <1>28, <1>29, <1>30, <1>31, <1>32, <1>33, <1>34, <1>35
       DEF H!Next, H!UILoop, H!User, H!Worker, H!QuitHandler, H!Console

\* The switches of the discovery have two positions.
DiscoveryTypes == discovery \in BOOLEAN /\ wanted \in BOOLEAN

\* They are only turned.
LEMMA DiscoveryStep == DiscoveryTypes /\ H!Next => DiscoveryTypes'
  <1> SUFFICES ASSUME DiscoveryTypes, H!Next PROVE DiscoveryTypes'
    OBVIOUS
  <1>1. wanted' = wanted
    BY DEF H!Next, H!UILoop, H!User, H!Worker, H!QuitHandler, H!Console, H!LoopTop,
           H!DrainJoins, H!DrainFini, H!Frame, H!CancelOverlay, H!CancelWaited, H!Connect,
           H!Cancel, H!ExitCombo, H!Enter, H!CheckPending, H!WorkerDrainJoins,
           H!WorkerDrainFini, H!CheckInit, H!InitSession, H!SuspendDiscovery, H!Own,
           H!SetUpMedia, H!StartSession, H!AllowInput, H!SpawnInput, H!Cleanup, H!CleanSession,
           H!CleanFlags, H!Leave, H!QuitWaited, H!QuitMedia, H!QuitDisown, H!QuitDefer,
           H!QuitWrapUp, H!Connected, H!Video, H!QuitEvent, H!InputExits, H!CooldownOver
  <1>2. \/ discovery' = discovery
        \/ H!SuspendDiscovery \/ H!DrainFini \/ H!CleanFlags \/ H!QuitWrapUp
        \/ H!WorkerDrainFini
    BY DEF H!Next, H!UILoop, H!User, H!Worker, H!QuitHandler, H!Console, H!LoopTop,
           H!DrainJoins, H!Frame, H!CancelOverlay, H!CancelWaited, H!Connect, H!Cancel,
           H!ExitCombo, H!Enter, H!CheckPending, H!WorkerDrainJoins, H!CheckInit, H!InitSession,
           H!Own, H!SetUpMedia, H!StartSession, H!AllowInput, H!SpawnInput, H!Cleanup,
           H!CleanSession, H!Leave, H!QuitWaited, H!QuitMedia, H!QuitDisown, H!QuitDefer,
           H!Connected, H!Video, H!QuitEvent, H!InputExits, H!CooldownOver
  <1>3. ASSUME H!SuspendDiscovery \/ H!DrainFini \/ H!CleanFlags \/ H!QuitWrapUp
               \/ H!WorkerDrainFini
        PROVE  discovery' \in BOOLEAN
    BY <1>3, Zenon DEF H!SuspendDiscovery, H!DrainFini, H!CleanFlags, H!QuitWrapUp,
                       H!WorkerDrainFini, H!ResumeDiscovery
  <1> QED
    BY <1>1, <1>2, <1>3 DEF DiscoveryTypes

\* The host at first ...
LEMMA HostInit == H!Init => HostInv
  BY DEF H!Init, HostInv, StructFollowsWorker, StructHasOwner, PendingIsKept,
         DiscoveryRemembered, H!On

\* ... and while another component runs.
LEMMA HostStutter == HostInv /\ UNCHANGED hostVars => HostInv'
  <1> SUFFICES ASSUME HostInv, UNCHANGED hostVars PROVE HostInv'
    OBVIOUS
  <1> USE DEF HostInv, hostVars, H!On
  <1>1. faults' = {}
    OBVIOUS
  <1>2. StructFollowsWorker'
    BY DEF StructFollowsWorker
  <1>3. StructHasOwner'
    BY DEF StructHasOwner
  <1>4. PendingIsKept'
    BY DEF PendingIsKept
  <1>5. DiscoveryRemembered'
    BY DEF DiscoveryRemembered
  <1> QED
    BY <1>1, <1>2, <1>3, <1>4, <1>5

\* No session of the host is overwritten, finalised twice or finalised while it is used,
\* and the discovery comes back with the last of them, unless the user connects again in
\* the very frame in which a stream quits (host.c, 151-460; host_quit.c, 21-77;
\* host_lifecycle.c, 10-98).
THEOREM SessionIsOwned ==
    ASSUME Rapid = FALSE
    PROVE  Spec => []SessionOwned
  <1> DEFINE Inv == bench = "host" => HostInv /\ DiscoveryTypes
  <1>1. Init => Inv
    BY HostInit DEF Init, H!Init, DiscoveryTypes
  <1>2. DiscoveryTypes /\ UNCHANGED hostVars => DiscoveryTypes'
    BY DEF DiscoveryTypes, hostVars
  <1>3. Inv /\ [Next]_vars => Inv'
    BY <1>2, BenchStep, HostStep, HostStutter, DiscoveryStep, Rapid = FALSE
  <1>4. Inv => SessionOwned
    <2> SUFFICES ASSUME Inv, bench = "host" PROVE SessionOwned
      BY DEF SessionOwned
    <2>1. session = "free" /\ worker = "none" => (discovery <=> wanted)
      BY DEF HostInv, DiscoveryRemembered
    <2>2. (discovery <=> wanted) => discovery = wanted
      BY DEF DiscoveryTypes
    <2>3. faults = {}
      BY DEF HostInv
    <2> QED
      BY <2>1, <2>2, <2>3
         DEF SessionOwned, H!NeverOverwritten, H!FinalisedOnce, H!DiscoveryRestored
  <1> QED
    BY <1>1, <1>3, <1>4, PTL DEF Spec

-----------------------------------------------------------------------------
(* The connection over the Internet *)

\* The records of the state have their fields.
PunchFields ==
    /\ DOMAIN main = {"pc", "port"} /\ DOMAIN push = {"at", "note"}
    /\ DOMAIN socket = {"open", "stop"}

\* The websocket thread has the socket open while it receives, opens it only while the
\* other thread waits for that, and has ended when the session is left.
ThreadInv ==
    /\ PunchFields
    /\ push.at \in {"loop", "got", "queued"} => socket.open
    /\ push.at \in {"none", "connecting"} =>
          <<"session", "WS_OPEN">> \notin punched /\ <<"session", "WS_FAILED">> \notin punched
    /\ push.at = "none" => main.pc \in {"create", "leaving", "freed"}
    /\ push.at = "connecting" => main.pc = "opening"
    /\ main.pc = "create" => push.at = "none"
    /\ main.pc \in {"leaving", "freed"} => push.at \in {"none", "dead"}
    /\ push.at \in {"none", "connecting", "loop", "got", "queued", "dead"}

\* No step breaks it, if the messages of the console can be read.
LEMMA ThreadStep ==
    ASSUME "malformed" \notin Flaws, ThreadInv, N!Next
    PROVE  ThreadInv'
  <1> USE DEF ThreadInv, PunchFields, N!Go, N!Mark, N!Ended
  <1>1. CASE N!CreateBegins
    BY <1>1 DEF N!CreateBegins
  <1>2. CASE N!SocketOpened
    BY <1>2 DEF N!SocketOpened
  <1>3. CASE N!HttpCreateSession
    BY <1>3 DEF N!HttpCreateSession
  <1>4. CASE N!CreateHears
    BY <1>4, "malformed" \notin Flaws DEF N!CreateHears
  <1>5. CASE N!CreateGoesOn
    BY <1>5 DEF N!CreateGoesOn
  <1>6. CASE N!CreateJoins
    BY <1>6 DEF N!CreateJoins, N!Joined
  <1>7. CASE N!Discard
    BY <1>7 DEF N!Discard
  <1>8. CASE N!CreateOffer \/ N!HttpStartSession
    BY <1>8 DEF N!CreateOffer, N!HttpStartSession
  <1>9. CASE N!StartHears
    BY <1>9 DEF N!StartHears
  <1>10. CASE N!OfferReceived \/ N!OfferAcked \/ N!OfferSent
    BY <1>10 DEF N!OfferReceived, N!OfferAcked, N!OfferSent, N!Raise, N!Flag, N!SkipMessage
  <1>11. CASE N!AckReceived \/ N!Probed \/ N!AcceptSent
    BY <1>11 DEF N!AckReceived, N!Probed, N!AcceptSent, N!SkipMessage
  <1>12. CASE N!AcceptReceived \/ N!Established
    BY <1>12 DEF N!AcceptReceived, N!Established, N!Raise, N!Flag, N!SkipMessage
  <1>13. CASE N!SessionGoesOn
    BY <1>13 DEF N!SessionGoesOn
  <1>14. CASE N!FiniBegins
    BY <1>14 DEF N!FiniBegins
  <1>15. CASE N!FiniHears
    BY <1>15 DEF N!FiniHears
  <1>16. CASE N!FiniJoins
    BY <1>16 DEF N!FiniJoins, N!Joined
  <1>17. CASE N!WaitTimesOut
    BY <1>17 DEF N!WaitTimesOut, N!Awaited
  <1>18. CASE N!PushConnects
    BY <1>18 DEF N!PushConnects, N!Fails
  <1>19. CASE N!PushReceives
    BY <1>19 DEF N!PushReceives
  <1>20. CASE N!PushQueues
    BY <1>20 DEF N!PushQueues
  <1>21. CASE N!PushChecks
    BY <1>21 DEF N!PushChecks
  <1>22. CASE N!PushEnds
    BY <1>22 DEF N!PushEnds
  <1>23. CASE N!ConsoleAnswers \/ N!ConsoleAccepts \/ N!ConsoleOffers \/ N!ConsoleRepeats
    <2>1. UNCHANGED <<main, push, punched, socket>>
      BY <1>23 DEF N!ConsoleAnswers, N!ConsoleAccepts, N!ConsoleOffers, N!ConsoleRepeats
    <2> QED
      BY <2>1
  <1> QED
    BY <1>1, <1>2, <1>3, <1>4, <1>5, <1>6, <1>7, <1>8, <1>9, <1>10, <1>11, <1>12, <1>13, <1>14,
       <1>15, <1>16, <1>17, <1>18, <1>19, <1>20, <1>21, <1>22, <1>23
       DEF N!Next, N!MainSteps, N!PushSteps

\* What a notification can be.
NoteTypes == {"none", "CREATED", "MEMBER", "CUSTOM_DATA1", "MEMBER_DELETED", "DELETED", "OFFER",
              "RESULT", "ACCEPT"}
\* A notification, with the request it answers.
Notes == [type : NoteTypes, id : Nat]

\* The queues hold notifications.
NotesTyped ==
    /\ PunchFields
    /\ DOMAIN servers = {"session", "events"}
    /\ DOMAIN console = {"heard", "sent", "accepted", "pending"}
    /\ queue \in Seq(Notes) /\ servers.events \in Seq(Notes) /\ console.pending \in Seq(Notes)
    /\ push.note \in Notes
    /\ ids \in [next : Nat, ours : Nat]
    /\ \A h \in console.heard :
          h \in [kind : {"OFFER", "RESULT", "ACCEPT", "agreed", "done", "repeated"}, id : Nat]

\* The requests that acknowledgements among these notifications are for.
Acked(notes) == {notes[i].id : i \in {j \in DOMAIN notes : notes[j].type = "RESULT"}}

\* The requests of ours the console has answered.
Answered == {h.id : h \in {k \in console.heard : k.kind \in {"agreed", "done"}}}

\* Every acknowledgement on its way is of a request that the console has answered.
AcksAreAnswers ==
    /\ Acked(servers.events) = {}
    /\ Acked(queue) \cup Acked(console.pending) \subseteq Answered
    /\ push.note.type = "RESULT" => push.note.id \in Answered

\* Every request has an id of its own.
IdsAreOwn ==
    /\ ids.ours < ids.next
    /\ \A h \in console.heard : h.kind # "RESULT" => h.id < ids.next
    /\ \A h \in console.heard : h.kind \in {"ACCEPT", "done"} => h.id # ids.ours
    /\ \A h, k \in console.heard :
          h.kind \in {"OFFER", "agreed"} /\ k.kind \in {"ACCEPT", "done"} => h.id # k.id

\* The inductive invariant of the acknowledgements.
AckInv == NotesTyped /\ AcksAreAnswers /\ IdsAreOwn /\ N!AckIsOurs

\* One notification more ...
LEMMA AckedAppend ==
    ASSUME NEW s \in Seq(Notes), NEW n \in Notes
    PROVE  /\ Append(s, n) \in Seq(Notes)
           /\ n.type # "RESULT" => Acked(Append(s, n)) = Acked(s)
           /\ Acked(Append(s, n)) \subseteq Acked(s) \cup {n.id}
  BY DEF Acked

\* ... one less ...
LEMMA AckedHeadTail ==
    ASSUME NEW s \in Seq(Notes), s # << >>
    PROVE  /\ Tail(s) \in Seq(Notes) /\ Head(s) \in Notes
           /\ Acked(Tail(s)) \subseteq Acked(s)
           /\ Head(s).type = "RESULT" => Head(s).id \in Acked(s)
  BY DEF Acked

\* ... and two queues after each other.
LEMMA AckedConcat ==
    ASSUME NEW s \in Seq(Notes), NEW t \in Seq(Notes)
    PROVE  s \o t \in Seq(Notes) /\ Acked(s \o t) \subseteq Acked(s) \cup Acked(t)
  BY DEF Acked

\* The first notification of these types has a place in the queue.
LEMMA FirstIsIndex ==
    ASSUME NEW types, queue \in Seq(Notes)
    PROVE  /\ N!First(types) \in 0 .. Len(queue)
           /\ N!Arrived(types) =>
                 N!First(types) \in DOMAIN queue /\ queue[N!First(types)].type \in types
  <1> DEFINE I == {i \in 1 .. Len(queue) : queue[i].type \in types}
  <1>1. N!First(types) = IF I # {} THEN N!Min(I) ELSE 0
    BY DEF N!First, N!SelectInSeq
  <1>2. I \in SUBSET Nat
    OBVIOUS
  <1>3. I # {} => N!Min(I) \in I
    <2> HIDE DEF I
    <2> QED
      BY <1>2, Sub!LeastElement DEF N!Min
  <1> QED
    BY <1>1, <1>3 DEF N!Arrived

\* Clearing one from the queue adds none.
LEMMA AckedCleared ==
    ASSUME NEW types, queue \in Seq(Notes)
    PROVE  /\ N!Cleared(N!First(types)) \in Seq(Notes)
           /\ Acked(N!Cleared(N!First(types))) \subseteq Acked(queue)
  <1> DEFINE i == N!First(types)
  <1>1. i \in 0 .. Len(queue)
    BY FirstIsIndex
  <1> HIDE DEF i
  <1>2. SubSeq(queue, i + 1, Len(queue)) \in Seq(Notes)
        /\ Acked(SubSeq(queue, i + 1, Len(queue))) \subseteq Acked(queue)
    BY <1>1 DEF Acked
  <1> QED
    BY <1>2 DEF i, N!Cleared

\* Steps that take nothing but acknowledgements from the queue.
LEMMA AckStays ==
    ASSUME AckInv, PunchFields', UNCHANGED <<servers, console, ids>>,
           push'.note = push.note \/ push'.note = N!Event("none"),
           queue' \in Seq(Notes), Acked(queue') \subseteq Acked(queue), N!AckIsOurs'
    PROVE  AckInv'
  <1>1. NotesTyped'
    BY DEF AckInv, NotesTyped, Notes, NoteTypes, N!Event
  <1>2. AcksAreAnswers'
    <2>1. Answered' = Answered /\ (servers.events)' = servers.events
          /\ (console.pending)' = console.pending
      BY DEF Answered
    <2>2. push'.note.type = "RESULT" => push'.note.id \in Answered
      BY DEF AckInv, AcksAreAnswers, N!Event
    <2> QED
      BY <2>1, <2>2 DEF AckInv, AcksAreAnswers
  <1>3. IdsAreOwn'
    BY DEF AckInv, IdsAreOwn
  <1> QED
    BY <1>1, <1>2, <1>3 DEF AckInv

\* Where nobody probes.
LEMMA NotProbing == main'.pc # "probing" => N!AckIsOurs'
  BY DEF N!AckIsOurs

\* The main thread goes on without the queue.
LEMMA MainQuietStep ==
    ASSUME AckInv, PunchFields',
           \/ N!SocketOpened \/ N!CreateHears \/ N!CreateJoins \/ N!Probed \/ N!Established
           \/ N!SessionGoesOn \/ N!WaitTimesOut
    PROVE  AckInv'
  <1> USE DEF AckInv, NotesTyped, PunchFields, N!Go
  <1>1. UNCHANGED <<servers, console, ids, queue, push>> /\ main'.pc # "probing"
    <2>1. CASE N!SocketOpened \/ N!CreateHears \/ N!CreateJoins
      BY <2>1 DEF N!SocketOpened, N!CreateHears, N!CreateJoins
    <2>2. CASE N!Probed
      BY <2>2 DEF N!Probed
    <2>3. CASE N!Established \/ N!SessionGoesOn
      BY <2>3 DEF N!Established, N!SessionGoesOn
    <2>4. CASE N!WaitTimesOut
      BY <2>4 DEF N!WaitTimesOut, N!Awaited
    <2> QED
      BY <2>1, <2>2, <2>3, <2>4
  <1> QED
    BY <1>1, NotProbing, AckStays

\* The main thread takes a notification that is no acknowledgement.
LEMMA MainTakesStep ==
    ASSUME AckInv, PunchFields',
           \/ N!CreateGoesOn \/ N!Discard \/ N!StartHears \/ N!OfferReceived \/ N!AcceptReceived
           \/ N!FiniHears \/ N!FiniJoins
    PROVE  AckInv'
  <1> USE DEF AckInv, NotesTyped, PunchFields, N!Go
  <1>1. UNCHANGED <<servers, console, ids, push>>
    BY DEF N!CreateGoesOn, N!Discard, N!StartHears, N!OfferReceived, N!AcceptReceived,
           N!FiniHears, N!FiniJoins
  <1>2. main'.pc # "probing"
    <2>1. CASE N!CreateGoesOn \/ N!Discard \/ N!FiniJoins \/ N!FiniHears
      BY <2>1 DEF N!CreateGoesOn, N!Discard, N!FiniJoins, N!FiniHears
    <2>2. CASE N!StartHears
      BY <2>2 DEF N!StartHears
    <2>3. CASE N!OfferReceived \/ N!AcceptReceived
      BY <2>3 DEF N!OfferReceived, N!AcceptReceived
    <2> QED
      BY <2>1, <2>2, <2>3
  <1>3. \/ queue' = queue \/ queue' = << >>
        \/ \E types : queue' = N!Cleared(N!First(types))
    <2>1. CASE N!CreateGoesOn \/ N!Discard \/ N!FiniJoins
      BY <2>1 DEF N!CreateGoesOn, N!Discard, N!FiniJoins
    <2>2. CASE N!StartHears \/ N!FiniHears
      BY <2>2 DEF N!StartHears, N!FiniHears
    <2>3. CASE N!OfferReceived \/ N!AcceptReceived
      BY <2>3 DEF N!OfferReceived, N!AcceptReceived, N!SkipMessage
    <2> QED
      BY <2>1, <2>2, <2>3
  <1>4. queue' \in Seq(Notes) /\ Acked(queue') \subseteq Acked(queue)
    <2>1. Acked(<< >>) = {} /\ << >> \in Seq(Notes)
      BY DEF Acked
    <2>2. ASSUME NEW types, queue' = N!Cleared(N!First(types))
          PROVE  queue' \in Seq(Notes) /\ Acked(queue') \subseteq Acked(queue)
      BY <2>2, AckedCleared
    <2> QED
      BY <1>3, <2>1, <2>2
  <1> QED
    BY <1>1, <1>2, <1>4, NotProbing, AckStays

\* The acknowledgement of our offer has come.
LEMMA AckReceivedStep ==
    ASSUME AckInv, PunchFields', N!AckReceived
    PROVE  AckInv'
  <1> USE DEF AckInv, NotesTyped, PunchFields, N!Go
  <1>1. UNCHANGED <<servers, console, ids, push>> /\ main.pc = "waitAck"
    BY DEF N!AckReceived
  <1>2. CASE N!SkipMessage("RESULT") /\ UNCHANGED main
    <2>1. \E types : queue' = N!Cleared(N!First(types))
      BY <1>2 DEF N!SkipMessage
    <2>2. queue' \in Seq(Notes) /\ Acked(queue') \subseteq Acked(queue)
      BY <2>1, AckedCleared
    <2> QED
      BY <1>1, <1>2, <2>2, NotProbing, AckStays
  <1>3. CASE N!MessageNext("RESULT") /\ queue[N!First({"RESULT"})].id = ids.ours
             /\ UNCHANGED queue
    <2>1. N!First({"RESULT"}) \in DOMAIN queue /\ queue[N!First({"RESULT"})].type = "RESULT"
      BY <1>3, FirstIsIndex DEF N!MessageNext
    <2>2. ids.ours \in Answered
      BY <1>3, <2>1 DEF AcksAreAnswers, Acked
    <2>3. PICK h \in console.heard : h.kind \in {"agreed", "done"} /\ h.id = ids.ours
      BY <2>2 DEF Answered
    <2>4. h.kind = "agreed"
      BY <2>3 DEF IdsAreOwn
    <2>5. h = [kind |-> "agreed", id |-> ids.ours]
      BY <2>3, <2>4
    <2>6. N!AckIsOurs'
      BY <1>1, <2>5 DEF N!AckIsOurs
    <2> QED
      BY <1>1, <1>3, <2>6, AckStays
  <1> QED
    BY <1>2, <1>3 DEF N!AckReceived

\* The websocket thread goes on without the queue.
LEMMA PushQuietStep ==
    ASSUME AckInv, PunchFields',
           N!CreateBegins \/ N!PushConnects \/ N!PushEnds \/ N!PushChecks
    PROVE  AckInv'
  <1> USE DEF AckInv, NotesTyped, PunchFields, N!Go
  <1>1. UNCHANGED <<servers, console, ids, queue>>
    BY DEF N!CreateBegins, N!PushConnects, N!PushEnds, N!PushChecks
  <1>2. push'.note = push.note \/ push'.note = N!Event("none")
    <2>1. CASE N!CreateBegins \/ N!PushConnects \/ N!PushEnds
      BY <2>1 DEF N!CreateBegins, N!PushConnects, N!PushEnds
    <2>2. CASE N!PushChecks
      BY <2>2 DEF N!PushChecks
    <2> QED
      BY <2>1, <2>2
  <1>3. N!AckIsOurs'
    <2>1. CASE N!CreateBegins
      BY <2>1 DEF N!CreateBegins, N!AckIsOurs
    <2>2. CASE N!PushConnects \/ N!PushEnds \/ N!PushChecks
      BY <2>2 DEF N!PushConnects, N!PushEnds, N!PushChecks, N!AckIsOurs
    <2> QED
      BY <2>1, <2>2
  <1> QED
    BY <1>1, <1>2, <1>3, AckStays

\* What the servers and the console say are notifications.
LEMMA EventsAreNotes ==
    /\ \A t \in NoteTypes \ {"RESULT"} : N!Event(t) \in Notes /\ N!Event(t).type # "RESULT"
    /\ \A t \in NoteTypes, id \in Nat :
          N!Message(t, id) \in Notes /\ N!Message(t, id).type = t /\ N!Message(t, id).id = id
  BY DEF N!Event, N!Message, Notes

\* The servers say no acknowledgements.
LEMMA ServersMoreEvents ==
    ASSUME AckInv, NEW s \in Seq(Notes), Acked(s) = {},
           servers'.events = servers.events \o s, DOMAIN servers' = {"session", "events"}
    PROVE  servers'.events \in Seq(Notes) /\ Acked(servers'.events) = {}
  <1>1. servers.events \in Seq(Notes) /\ Acked(servers.events) = {}
    BY DEF AckInv, NotesTyped, AcksAreAnswers
  <1> QED
    BY <1>1, AckedConcat

\* Nor do they when they say two things at once.
LEMMA TwoEvents ==
    ASSUME NEW t \in NoteTypes \ {"RESULT"}, NEW u \in NoteTypes \ {"RESULT"}
    PROVE  /\ <<N!Event(t), N!Event(u)>> \in Seq(Notes)
           /\ Acked(<<N!Event(t), N!Event(u)>>) = {}
  <1> DEFINE s == <<N!Event(t), N!Event(u)>>
  <1>1. s \in Seq(Notes) /\ DOMAIN s = {1, 2}
    BY EventsAreNotes
  <1>2. s[1].type # "RESULT" /\ s[2].type # "RESULT"
    BY EventsAreNotes
  <1> HIDE DEF s
  <1>3. Acked(s) = {}
    BY <1>1, <1>2 DEF Acked
  <1> QED
    BY <1>1, <1>3 DEF s

\* A request that makes the servers say something.
LEMMA ServersStep ==
    ASSUME AckInv, PunchFields', N!HttpCreateSession \/ N!FiniBegins
    PROVE  AckInv'
  <1> USE DEF AckInv, NotesTyped, PunchFields, N!Go
  <1>1. UNCHANGED <<console, ids, push>> /\ main'.pc # "probing"
    <2>1. CASE N!HttpCreateSession
      BY <2>1 DEF N!HttpCreateSession
    <2>2. CASE N!FiniBegins
      BY <2>2 DEF N!FiniBegins
    <2> QED
      BY <2>1, <2>2
  <1>2. queue' = queue \/ queue' = << >>
    BY DEF N!HttpCreateSession, N!FiniBegins
  <1>3. DOMAIN servers' = {"session", "events"}
        /\ servers'.events \in Seq(Notes) /\ Acked(servers'.events) = {}
    <2>1. CASE UNCHANGED servers
      BY <2>1 DEF AcksAreAnswers
    <2>2. CASE N!HttpCreateSession /\ ~UNCHANGED servers
      <3>1. PICK t, u \in NoteTypes \ {"RESULT"} :
                servers' = [session |-> "open",
                            events |-> servers.events \o <<N!Event(t), N!Event(u)>>]
        BY <2>2 DEF N!HttpCreateSession, NoteTypes
      <3> QED
        BY <3>1, TwoEvents, ServersMoreEvents
    <2>3. CASE N!FiniBegins /\ ~UNCHANGED servers
      <3>1. servers' = [session |-> "deleted",
                        events |-> Append(servers.events, N!Event("DELETED"))]
        BY <2>3 DEF N!FiniBegins
      <3>2. N!Event("DELETED") \in Notes /\ N!Event("DELETED").type # "RESULT"
        BY EventsAreNotes DEF NoteTypes
      <3> QED
        BY <3>1, <3>2, AckedAppend DEF AcksAreAnswers
    <2> QED
      BY <2>1, <2>2, <2>3
  <1>4. queue' \in Seq(Notes) /\ Acked(queue') \subseteq Acked(queue)
    <2>1. Acked(<< >>) = {} /\ << >> \in Seq(Notes)
      BY DEF Acked
    <2> QED
      BY <1>2, <2>1
  <1>5. NotesTyped'
    BY <1>1, <1>3, <1>4
  <1>6. Answered' = Answered
    BY <1>1 DEF Answered
  <1>7. AcksAreAnswers'
    BY <1>1, <1>3, <1>4, <1>6 DEF AcksAreAnswers
  <1>8. IdsAreOwn'
    BY <1>1 DEF IdsAreOwn
  <1> QED
    BY <1>1, <1>5, <1>7, <1>8, NotProbing

\* The session is started, or an offer gets its id.
LEMMA StartSessionStep ==
    ASSUME AckInv, PunchFields', N!HttpStartSession \/ N!CreateOffer
    PROVE  AckInv'
  <1> USE DEF AckInv, NotesTyped, PunchFields, N!Go
  <1>1. CASE UNCHANGED <<servers, console>>
    <2>1. UNCHANGED <<queue, push>> /\ main'.pc # "probing"
      BY DEF N!HttpStartSession, N!CreateOffer
    <2>2. ids' = ids \/ ids' = [ids EXCEPT !.next = @ + 1]
      BY DEF N!HttpStartSession, N!CreateOffer, N!NextId
    <2>3. ids' \in [next : Nat, ours : Nat] /\ ids'.ours = ids.ours /\ ids.next <= ids'.next
      BY <2>2
    <2>4. NotesTyped'
      BY <1>1, <2>1, <2>3
    <2>5. AcksAreAnswers'
      BY <1>1, <2>1 DEF AcksAreAnswers, Answered
    <2>6. IdsAreOwn'
      BY <1>1, <2>3 DEF IdsAreOwn
    <2> QED
      BY <2>1, <2>4, <2>5, <2>6, NotProbing
  <1>2. CASE N!HttpStartSession /\ ~UNCHANGED <<servers, console>>
    <2>1. UNCHANGED <<queue, push, ids>> /\ main'.pc # "probing"
      BY <1>2 DEF N!HttpStartSession
    <2>2. /\ servers' = [servers EXCEPT !.events =
                             @ \o <<N!Event("MEMBER"), N!Event("CUSTOM_DATA1")>>]
          /\ console' = [console EXCEPT !.sent = 1,
                             !.pending = Append(@, N!Message("OFFER", 0))]
      BY <1>2 DEF N!HttpStartSession
    <2>3. DOMAIN servers' = {"session", "events"}
          /\ servers'.events = servers.events \o <<N!Event("MEMBER"), N!Event("CUSTOM_DATA1")>>
      BY <2>2
    <2>4. servers'.events \in Seq(Notes) /\ Acked(servers'.events) = {}
      <3>1. "MEMBER" \in NoteTypes \ {"RESULT"} /\ "CUSTOM_DATA1" \in NoteTypes \ {"RESULT"}
        BY DEF NoteTypes
      <3> QED
        BY <2>3, <3>1, TwoEvents, ServersMoreEvents
    <2>5. /\ DOMAIN console' = {"heard", "sent", "accepted", "pending"}
          /\ console'.heard = console.heard
          /\ console'.pending = Append(console.pending, N!Message("OFFER", 0))
      BY <2>2
    <2>6. console'.pending \in Seq(Notes) /\ Acked(console'.pending) = Acked(console.pending)
      <3>1. N!Message("OFFER", 0) \in Notes /\ N!Message("OFFER", 0).type # "RESULT"
        BY EventsAreNotes DEF NoteTypes
      <3> QED
        BY <2>5, <3>1, AckedAppend
    <2>7. NotesTyped'
      BY <2>1, <2>3, <2>4, <2>5, <2>6
    <2>8. AcksAreAnswers'
      BY <2>1, <2>4, <2>5, <2>6 DEF AcksAreAnswers, Answered
    <2>9. IdsAreOwn'
      BY <2>1, <2>5 DEF IdsAreOwn
    <2> QED
      BY <2>1, <2>7, <2>8, <2>9, NotProbing
  <1> QED
    BY <1>1, <1>2 DEF N!CreateOffer

\* What the console has heard of us after a session message that may not have reached it.
LEMMA SendsMoves ==
    ASSUME NotesTyped, NEW kind, NEW id, N!Sends(kind, id)
    PROVE  /\ DOMAIN console' = {"heard", "sent", "accepted", "pending"}
           /\ console'.pending = console.pending
           /\ console.heard \subseteq console'.heard
           /\ console'.heard \subseteq console.heard \cup {[kind |-> kind, id |-> id]}
  BY DEF NotesTyped, N!Sends, N!Said

\* A message of ours to the console, which may not reach it.
LEMMA SentStep ==
    ASSUME AckInv, PunchFields', N!OfferAcked \/ N!OfferSent \/ N!AcceptSent
    PROVE  AckInv'
  <1> USE DEF AckInv, NotesTyped, PunchFields, N!Go
  <1>1. UNCHANGED <<servers, queue, push>>
    BY DEF N!OfferAcked, N!OfferSent, N!AcceptSent
  <1>2. main'.pc # "probing"
    <2>1. CASE N!OfferAcked
      BY <2>1 DEF N!OfferAcked
    <2>2. CASE N!OfferSent
      BY <2>2 DEF N!OfferSent
    <2>3. CASE N!AcceptSent
      BY <2>3 DEF N!AcceptSent
    <2> QED
      BY <2>1, <2>2, <2>3
  <1>3. PICK kind \in {"OFFER", "RESULT", "ACCEPT"}, id \in Nat :
            /\ N!Sends(kind, id)
            /\ \/ kind = "RESULT" /\ ids' = ids
               \/ kind = "OFFER" /\ id = ids.next /\ ids' = [next |-> id + 1, ours |-> id]
               \/ kind = "ACCEPT" /\ id = ids.next /\ ids' = [ids EXCEPT !.next = id + 1]
               \/ ids' = ids /\ console' = console
               \/ ids' = [next |-> ids.next + 1, ours |-> ids.next] /\ console' = console
    <2>1. CASE N!OfferAcked
      BY <2>1 DEF N!OfferAcked, N!Sends
    <2>2. CASE N!OfferSent
      BY <2>2 DEF N!OfferSent, N!Sends
    <2>3. CASE N!AcceptSent
      BY <2>3 DEF N!AcceptSent, N!NextId, N!Sends
    <2> QED
      BY <2>1, <2>2, <2>3
  <1>4. /\ DOMAIN console' = {"heard", "sent", "accepted", "pending"}
        /\ console'.pending = console.pending
        /\ console.heard \subseteq console'.heard
        /\ console'.heard \subseteq console.heard \cup {[kind |-> kind, id |-> id]}
    BY <1>3, SendsMoves
  <1>5. ids' \in [next : Nat, ours : Nat]
    BY <1>3
  <1>6. NotesTyped'
    BY <1>1, <1>4, <1>5
  <1>7. AcksAreAnswers'
    <2>1. Answered \subseteq Answered'
      BY <1>4 DEF Answered
    <2> QED
      BY <1>1, <1>4, <2>1 DEF AcksAreAnswers
  <1>8. IdsAreOwn'
    <2>1. CASE kind = "RESULT" /\ ids' = ids
      BY <1>4, <2>1 DEF IdsAreOwn
    <2>2. CASE kind = "OFFER" /\ id = ids.next /\ ids' = [next |-> id + 1, ours |-> id]
      <3>1. ids'.ours = ids.next /\ ids'.next = ids.next + 1
        BY <2>2
      <3>2. \A h \in console.heard : h.kind # "RESULT" => h.id < ids.next
        BY DEF IdsAreOwn
      <3>3. \A h \in console'.heard :
               h \in console.heard \/ (h.kind = "OFFER" /\ h.id = ids.next)
        BY <1>4, <2>2
      <3>4. \A h \in console'.heard : h.kind # "RESULT" => h.id < ids'.next
        BY <3>1, <3>2, <3>3
      <3>5. \A h \in console'.heard : h.kind \in {"ACCEPT", "done"} => h.id # ids'.ours
        BY <3>1, <3>2, <3>3
      <3>6. \A h, k \in console'.heard :
               h.kind \in {"OFFER", "agreed"} /\ k.kind \in {"ACCEPT", "done"} => h.id # k.id
        BY <3>2, <3>3 DEF IdsAreOwn
      <3> QED
        BY <3>1, <3>4, <3>5, <3>6 DEF IdsAreOwn
    <2>3. CASE kind = "ACCEPT" /\ id = ids.next /\ ids' = [ids EXCEPT !.next = id + 1]
      <3>1. ids'.ours = ids.ours /\ ids'.next = ids.next + 1
        BY <2>3
      <3>2. /\ ids.ours < ids.next
            /\ \A h \in console.heard : h.kind # "RESULT" => h.id < ids.next
        BY DEF IdsAreOwn
      <3>3. \A h \in console'.heard :
               h \in console.heard \/ (h.kind = "ACCEPT" /\ h.id = ids.next)
        BY <1>4, <2>3
      <3>4. \A h \in console'.heard : h.kind # "RESULT" => h.id < ids'.next
        BY <3>1, <3>2, <3>3
      <3>5. \A h \in console'.heard : h.kind \in {"ACCEPT", "done"} => h.id # ids'.ours
        BY <3>1, <3>2, <3>3 DEF IdsAreOwn
      <3>6. \A h, k \in console'.heard :
               h.kind \in {"OFFER", "agreed"} /\ k.kind \in {"ACCEPT", "done"} => h.id # k.id
        BY <3>2, <3>3 DEF IdsAreOwn
      <3> QED
        BY <3>1, <3>2, <3>4, <3>5, <3>6 DEF IdsAreOwn
    <2>4. CASE ids' = ids /\ console' = console
      BY <2>4 DEF IdsAreOwn
    <2>5. CASE ids' = [next |-> ids.next + 1, ours |-> ids.next] /\ console' = console
      BY <2>5 DEF IdsAreOwn
    <2> QED
      BY <1>3, <2>1, <2>2, <2>3, <2>4, <2>5
  <1> QED
    BY <1>2, <1>6, <1>7, <1>8, NotProbing

\* A notification is received.
LEMMA PushReceivesStep ==
    ASSUME AckInv, PunchFields', N!PushReceives
    PROVE  AckInv'
  <1> USE DEF AckInv, NotesTyped, PunchFields
  <1>1. UNCHANGED <<main, queue, ids>>
    BY DEF N!PushReceives
  <1>2. N!AckIsOurs'
    BY <1>1 DEF N!AckIsOurs, N!PushReceives
  <1>3. console'.heard = console.heard /\ Answered' = Answered
    BY DEF N!PushReceives, Answered
  <1>4. IdsAreOwn'
    BY <1>1, <1>3 DEF IdsAreOwn
  <1>5. CASE /\ servers.events # << >>
             /\ push' = [at |-> "got", note |-> Head(servers.events)]
             /\ servers' = [servers EXCEPT !.events = Tail(@)] /\ UNCHANGED console
    <2>1. /\ Tail(servers.events) \in Seq(Notes) /\ Head(servers.events) \in Notes
          /\ Acked(Tail(servers.events)) \subseteq Acked(servers.events)
          /\ Head(servers.events).type = "RESULT" =>
                Head(servers.events).id \in Acked(servers.events)
      BY <1>5, AckedHeadTail
    <2>2. DOMAIN servers' = {"session", "events"} /\ servers'.events = Tail(servers.events)
          /\ push'.note = Head(servers.events)
      BY <1>5
    <2>3. NotesTyped'
      BY <1>1, <1>5, <2>1, <2>2
    <2>4. AcksAreAnswers'
      BY <1>1, <1>3, <1>5, <2>1, <2>2 DEF AcksAreAnswers
    <2> QED
      BY <1>2, <1>4, <2>3, <2>4
  <1>6. CASE /\ console.pending # << >>
             /\ push' = [at |-> "got", note |-> Head(console.pending)]
             /\ console' = [console EXCEPT !.pending = Tail(@)] /\ UNCHANGED servers
    <2>1. /\ Tail(console.pending) \in Seq(Notes) /\ Head(console.pending) \in Notes
          /\ Acked(Tail(console.pending)) \subseteq Acked(console.pending)
          /\ Head(console.pending).type = "RESULT" =>
                Head(console.pending).id \in Acked(console.pending)
      BY <1>6, AckedHeadTail
    <2>2. /\ DOMAIN console' = {"heard", "sent", "accepted", "pending"}
          /\ console'.pending = Tail(console.pending)
          /\ push'.note = Head(console.pending)
      BY <1>6
    <2>3. NotesTyped'
      BY <1>1, <1>3, <1>6, <2>1, <2>2
    <2>4. AcksAreAnswers'
      BY <1>1, <1>3, <1>6, <2>1, <2>2 DEF AcksAreAnswers
    <2> QED
      BY <1>2, <1>4, <2>3, <2>4
  <1> QED
    BY <1>5, <1>6 DEF N!PushReceives

\* A notification is put into the queue.
LEMMA PushQueuesStep ==
    ASSUME AckInv, PunchFields', N!PushQueues
    PROVE  AckInv'
  <1> USE DEF AckInv, NotesTyped, PunchFields
  <1>1. UNCHANGED <<main, servers, ids>> /\ queue' = Append(queue, push.note)
        /\ push'.note = push.note
    BY DEF N!PushQueues
  <1>2. N!Sends("RESULT", 0)
    BY DEF N!PushQueues, N!Sends
  <1>3. /\ DOMAIN console' = {"heard", "sent", "accepted", "pending"}
        /\ console'.pending = console.pending
        /\ console.heard \subseteq console'.heard
        /\ console'.heard \subseteq console.heard \cup {[kind |-> "RESULT", id |-> 0]}
    BY <1>2, SendsMoves
  <1>4. /\ queue' \in Seq(Notes)
        /\ push.note.type # "RESULT" => Acked(queue') = Acked(queue)
        /\ Acked(queue') \subseteq Acked(queue) \cup {push.note.id}
    BY <1>1, AckedAppend
  <1>5. NotesTyped'
    BY <1>1, <1>3, <1>4
  <1>6. AcksAreAnswers'
    <2>1. Answered \subseteq Answered'
      BY <1>3 DEF Answered
    <2> QED
      BY <1>1, <1>3, <1>4, <2>1 DEF AcksAreAnswers
  <1>7. IdsAreOwn'
    BY <1>1, <1>3 DEF IdsAreOwn
  <1>8. N!AckIsOurs'
    BY <1>1, <1>3 DEF N!AckIsOurs
  <1> QED
    BY <1>5, <1>6, <1>7, <1>8

\* The console sends something to us.
LEMMA ConsoleSays ==
    ASSUME AckInv, PunchFields', UNCHANGED <<main, push, queue, ids, servers>>,
           NEW n \in Notes, DOMAIN console' = {"heard", "sent", "accepted", "pending"},
           console'.pending = Append(console.pending, n),
           n.type = "RESULT" => n.id \in Answered', Answered \subseteq Answered',
           \A h \in console'.heard :
              h \in [kind : {"OFFER", "RESULT", "ACCEPT", "agreed", "done", "repeated"}, id : Nat],
           IdsAreOwn', N!AckIsOurs'
    PROVE  AckInv'
  <1> USE DEF AckInv, NotesTyped, PunchFields
  <1>1. /\ console'.pending \in Seq(Notes)
        /\ n.type # "RESULT" => Acked(console'.pending) = Acked(console.pending)
        /\ Acked(console'.pending) \subseteq Acked(console.pending) \cup {n.id}
    BY AckedAppend
  <1>2. NotesTyped'
    BY <1>1
  <1>3. AcksAreAnswers'
    BY <1>1 DEF AcksAreAnswers
  <1> QED
    BY <1>2, <1>3

\* The console accepts, offers, or repeats an acknowledgement.
LEMMA ConsoleSpeaksStep ==
    ASSUME AckInv, PunchFields', N!ConsoleAccepts \/ N!ConsoleOffers \/ N!ConsoleRepeats
    PROVE  AckInv'
  <1> USE DEF AckInv, NotesTyped, PunchFields
  <1>1. UNCHANGED <<main, push, queue, ids, servers>>
    BY DEF N!ConsoleAccepts, N!ConsoleOffers, N!ConsoleRepeats
  <1>2. PICK n \in Notes :
            /\ DOMAIN console' = {"heard", "sent", "accepted", "pending"}
            /\ console.heard \subseteq console'.heard
            /\ \A h \in console'.heard :
                  \/ h \in console.heard
                  \/ /\ h \in [kind : {"repeated"}, id : Nat]
                     /\ \E k \in console.heard : k.kind # "RESULT" /\ k.id = h.id
            /\ console'.pending = Append(console.pending, n)
            /\ n.type = "RESULT" => n.id \in Answered
    <2>1. CASE N!ConsoleAccepts
      <3>1. N!Message("ACCEPT", 0) \in Notes /\ N!Message("ACCEPT", 0).type # "RESULT"
        BY EventsAreNotes DEF NoteTypes
      <3> QED
        BY <2>1, <3>1 DEF N!ConsoleAccepts
    <2>2. CASE N!ConsoleOffers
      <3>1. N!Message("OFFER", 0) \in Notes /\ N!Message("OFFER", 0).type # "RESULT"
        BY EventsAreNotes DEF NoteTypes
      <3> QED
        BY <2>2, <3>1 DEF N!ConsoleOffers
    <2>3. CASE N!ConsoleRepeats
      <3>1. PICK h \in N!Heard("agreed") \cup N!Heard("done") :
                console' = [console EXCEPT
                                !.heard = @ \cup {[kind |-> "repeated", id |-> h.id]},
                                !.pending = Append(@, N!Message("RESULT", h.id))]
        BY <2>3 DEF N!ConsoleRepeats
      <3>2. h \in console.heard /\ h.id \in Answered /\ h.id \in Nat /\ h.kind # "RESULT"
        BY DEF N!Heard, Answered
      <3>3. N!Message("RESULT", h.id) \in Notes /\ N!Message("RESULT", h.id).id = h.id
        BY <3>2, EventsAreNotes DEF NoteTypes
      <3> QED
        BY <3>1, <3>2, <3>3
    <2> QED
      BY <2>1, <2>2, <2>3
  <1>3. Answered \subseteq Answered'
    BY <1>2 DEF Answered
  <1>4. IdsAreOwn'
    BY <1>1, <1>2 DEF IdsAreOwn
  <1>5. N!AckIsOurs'
    BY <1>1, <1>2 DEF N!AckIsOurs
  <1>6. \A h \in console'.heard :
           h \in [kind : {"OFFER", "RESULT", "ACCEPT", "agreed", "done", "repeated"}, id : Nat]
    BY <1>2
  <1> QED
    BY <1>1, <1>2, <1>3, <1>4, <1>5, <1>6, ConsoleSays

\* The console answers a request of ours.
LEMMA ConsoleAnswersStep ==
    ASSUME AckInv, PunchFields', N!ConsoleAnswers
    PROVE  AckInv'
  <1> USE DEF AckInv, NotesTyped, PunchFields
  <1>1. UNCHANGED <<main, push, queue, ids, servers>>
    BY DEF N!ConsoleAnswers
  <1>2. PICK h \in N!Heard("OFFER") \cup N!Heard("ACCEPT") :
            console' = [console EXCEPT !.heard = (@ \ {h}) \cup
                            {[kind |-> IF h.kind = "OFFER" THEN "agreed" ELSE "done", id |-> h.id]},
                                       !.pending = Append(@, N!Message("RESULT", h.id))]
    BY DEF N!ConsoleAnswers
  <1> DEFINE g == [kind |-> IF h.kind = "OFFER" THEN "agreed" ELSE "done", id |-> h.id]
             n == N!Message("RESULT", h.id)
  <1>3. /\ h \in console.heard /\ h.kind \in {"OFFER", "ACCEPT"} /\ h.id \in Nat
    BY DEF N!Heard
  <1>4. /\ g.id = h.id
        /\ h.kind = "OFFER" => g.kind = "agreed"
        /\ h.kind = "ACCEPT" => g.kind = "done"
        /\ g \in [kind : {"OFFER", "RESULT", "ACCEPT", "agreed", "done", "repeated"}, id : Nat]
    BY <1>3
  <1>5. n \in Notes /\ n.id = h.id
    BY <1>3, EventsAreNotes DEF NoteTypes
  <1>6. /\ DOMAIN console' = {"heard", "sent", "accepted", "pending"}
        /\ console'.heard = (console.heard \ {h}) \cup {g}
        /\ console'.pending = Append(console.pending, n)
    BY <1>2
  <1> HIDE DEF g, n
  <1>7. Answered \subseteq Answered' /\ n.id \in Answered'
    <2>1. h.kind \notin {"agreed", "done"} /\ g.kind \in {"agreed", "done"}
      BY <1>3, <1>4
    <2> QED
      BY <1>4, <1>5, <1>6, <2>1, SMTT(40) DEF Answered
  <1>8. \A k \in console'.heard :
           k \in [kind : {"OFFER", "RESULT", "ACCEPT", "agreed", "done", "repeated"}, id : Nat]
    BY <1>4, <1>6
  <1>9. IdsAreOwn'
    <2>1. \A k \in console'.heard : \E j \in console.heard :
             /\ k.id = j.id
             /\ k.kind # "RESULT" => j.kind # "RESULT"
             /\ k.kind \in {"OFFER", "agreed"} => j.kind \in {"OFFER", "agreed"}
             /\ k.kind \in {"ACCEPT", "done"} => j.kind \in {"ACCEPT", "done"}
      BY <1>3, <1>4, <1>6
    <2> QED
      BY <1>1, <2>1 DEF IdsAreOwn
  <1>10. N!AckIsOurs'
    BY <1>1, <1>3, <1>6 DEF N!AckIsOurs
  <1> QED
    BY <1>1, <1>5, <1>6, <1>7, <1>8, <1>9, <1>10, ConsoleSays

\* No step lets an acknowledgement count that the console did not give.
LEMMA AckStep ==
    ASSUME AckInv, PunchFields', N!Next
    PROVE  AckInv'
  BY MainQuietStep, MainTakesStep, AckReceivedStep, PushQuietStep, ServersStep,
     StartSessionStep,
     SentStep, PushReceivesStep, PushQueuesStep, ConsoleSpeaksStep, ConsoleAnswersStep
     DEF N!Next, N!MainSteps, N!PushSteps

\* The connection at first ...
LEMMA PunchInit == N!Init => ThreadInv /\ AckInv
  <1> SUFFICES ASSUME N!Init PROVE ThreadInv /\ AckInv
    OBVIOUS
  <1> USE DEF N!Init, PunchFields
  <1>1. ThreadInv
    BY DEF ThreadInv
  <1>2. Acked(<< >>) = {} /\ << >> \in Seq(Notes)
    BY DEF Acked
  <1>3. NotesTyped
    BY <1>2 DEF NotesTyped, Notes, NoteTypes, N!Event
  <1>4. AcksAreAnswers
    BY <1>2 DEF AcksAreAnswers, N!Event
  <1>5. IdsAreOwn
    BY DEF IdsAreOwn
  <1>6. N!AckIsOurs
    BY DEF N!AckIsOurs
  <1> QED
    BY <1>1, <1>3, <1>4, <1>5, <1>6 DEF AckInv

\* ... and while another component runs.
LEMMA PunchStutter == ThreadInv /\ AckInv /\ UNCHANGED punchVars => ThreadInv' /\ AckInv'
  <1> SUFFICES ASSUME ThreadInv, AckInv, UNCHANGED punchVars PROVE ThreadInv' /\ AckInv'
    OBVIOUS
  <1> USE DEF punchVars
  <1>1. ThreadInv'
    BY DEF ThreadInv, PunchFields
  <1>2. N!AckIsOurs'
    BY DEF AckInv, N!AckIsOurs
  <1>3. PunchFields' /\ queue' \in Seq(Notes) /\ Acked(queue') \subseteq Acked(queue)
    BY DEF AckInv, NotesTyped, PunchFields
  <1> QED
    BY <1>1, <1>2, <1>3, AckStays

\* For every number of offers, whatever fails and in whatever order the servers and the
\* console speak, if their messages can be read: no thread outlives the session it works
\* on, and the acknowledgement that ends the wait is of the offer that was sent
\* (holepunch.c, 996-1157, 1546-1963, 2305-2666).
THEOREM PunchingIsSound ==
    ASSUME "malformed" \notin Flaws
    PROVE  Spec => []PunchIsSound
  <1> DEFINE Inv == bench = "punch" => ThreadInv /\ AckInv
  <1>1. Init => Inv
    BY PunchInit DEF Init
  <1>2. ThreadInv' => PunchFields'
    BY DEF ThreadInv
  <1>3. Inv /\ [Next]_vars => Inv'
    BY <1>2, BenchStep, ThreadStep, AckStep, PunchStutter, "malformed" \notin Flaws
  <1>4. Inv => PunchIsSound
    BY DEF PunchIsSound, ThreadInv, AckInv, N!NoThreadAfterFree, N!Ended
  <1> QED
    BY <1>1, <1>3, <1>4, PTL DEF Spec

-----------------------------------------------------------------------------
(* Registration *)

\* A console with its keys, an entry of the list, and what a thread knows.
HostRecords == [mac : Nat, keys : [of : Nat, number : Nat]]
EntryRecords == [card : Consoles \cup {0}, host : HostRecords]
ThreadRecords ==
    [pc : {"none", "begin", "search", "pause", "connect", "response", "answered", "succeeded",
           "stopping", "joining"},
     console : Nat, got : HostRecords, joins : Nat]

\* The fields of the registration.
RegistTyped ==
    /\ cards \in [Consoles -> HostRecords]
    /\ entries \in Seq(EntryRecords)
    /\ threads \in [Threads -> ThreadRecords]
    /\ issued \in [Consoles -> Nat]
    /\ latest \in Nat /\ info \in Nat

\* The keys are of the console whose address they are stored under.
OwnKeys(h) == R!REGISTERED(h) /\ h.keys.of = h.mac

\* What is saved is what the list has, and that has keys.
ListIsSaved ==
    /\ saved = R!Serialized(entries, cards)
    /\ \A c \in Consoles : R!REGISTERED(cards[c]) => OwnKeys(cards[c])
    /\ \A i \in DOMAIN entries : OwnKeys(R!Value(entries[i], cards))

\* A registration has a console to talk to, and a card to give the result to.
ThreadFits(t) ==
    /\ threads[t].pc # "none" => active \in Consoles /\ info \in Consoles
    /\ threads[t].pc \notin {"none", "begin"} => threads[t].console \in Consoles
    /\ threads[t].pc = "succeeded" =>
          OwnKeys(threads[t].got) /\ threads[t].got.mac = threads[t].console

\* The same of all threads, and of the screen that asks for the PIN.
ThreadsFit ==
    /\ screen = "register" => active \in Consoles
    /\ \A t \in Threads : ThreadFits(t)

\* While the user waits for each registration, there is one, and it is for the active host.
OneAtATime ==
    /\ \A t, u \in Threads : threads[t].pc # "none" /\ threads[u].pc # "none" => t = u
    /\ \A t \in Threads :
          /\ threads[t].pc # "none" => info = active
          /\ threads[t].pc \notin {"none", "begin"} => threads[t].console = active

\* A card never gets the address of another console.
CardsKeepAddress == \A c \in Consoles : cards[c].mac = c

\* The inductive invariant of the registration; disturbed are the runs in which the user
\* has not waited.
RegistInv ==
    /\ RegistTyped /\ ListIsSaved /\ ThreadsFit
    /\ ~disturbed => OneAtATime /\ CardsKeepAddress
    /\ R!EntriesAreKept

\* A console is a number other than 0, which is none.
LEMMA ConsolesAreNumbers == Consoles \subseteq Nat \ {0} /\ IsFiniteSet(Consoles)
  <1>1. R!IsFiniteSet(Consoles) /\ Consoles = 1 .. R!Cardinality(Consoles)
    BY MCControlAssumption DEF MCControlAssumption, R!RegistrationAssumption
  <1>2. IsFiniteSet(Consoles)
    BY <1>1 DEF IsFiniteSet, R!IsFiniteSet
  <1>3. R!Cardinality(Consoles) = Cardinality(Consoles)
    BY DEF R!Cardinality, Cardinality
  <1> QED
    BY <1>1, <1>2, <1>3, FS_CardinalityType

\* What regist_cb makes of the list.
LEMMA EnteredIs ==
    ASSUME NEW list \in Seq(EntryRecords), NEW from \in [Consoles -> HostRecords],
           NEW h \in Consoles
    PROVE  LET same == R!Matching(list, from, from[h].mac) IN
           /\ R!Entered(list, from, h) \in Seq(EntryRecords)
           /\ \/ \E i \in same : R!Entered(list, from, h) = [list EXCEPT ![i] = R!Shared(h)]
              \/ same = {} /\ R!NoRoom(list, from, h) /\ R!Entered(list, from, h) = list
              \/ same = {} /\ ~R!NoRoom(list, from, h)
                           /\ R!Entered(list, from, h) = Append(list, R!Shared(h))
  <1> DEFINE same == R!Matching(list, from, from[h].mac)
  <1>1. same \subseteq DOMAIN list /\ same \in SUBSET Nat
    BY DEF R!Matching
  <1>2. R!Shared(h) \in EntryRecords
    BY DEF R!Shared, R!Nothing, R!Host, R!NoKeys, EntryRecords, HostRecords
  <1>3. R!Entered(list, from, h) =
            IF same # {}
            THEN [list EXCEPT ![CHOOSE i \in same : \A j \in same : i <= j] = R!Shared(h)]
            ELSE IF R!NoRoom(list, from, h) THEN list
            ELSE Append(list, R!Shared(h))
    BY DEF R!Entered
  <1> HIDE DEF same
  <1>4. same # {} => (CHOOSE i \in same : \A j \in same : i <= j) \in same
    BY <1>1, Sub!LeastElement
  <1>5. CASE same # {}
    <2>1. PICK i \in same : R!Entered(list, from, h) = [list EXCEPT ![i] = R!Shared(h)]
      BY <1>3, <1>4, <1>5
    <2>2. [list EXCEPT ![i] = R!Shared(h)] \in Seq(EntryRecords)
      BY <1>1, <1>2, <2>1
    <2> QED
      BY <2>1, <2>2 DEF same
  <1>6. CASE same = {}
    BY <1>2, <1>3, <1>6 DEF same
  <1> QED
    BY <1>5, <1>6

\* What the file has of an entry.
LEMMA ValueIs ==
    ASSUME NEW list \in Seq(EntryRecords), NEW from, NEW i \in DOMAIN list
    PROVE  R!Serialized(list, from)[i] =
               IF list[i].card = 0 THEN list[i].host ELSE from[list[i].card]
  BY DEF R!Serialized, R!Value

\* What Succeed does for the card a.
Success(a, got) ==
    /\ OwnKeys(got)
    /\ cards' = [cards EXCEPT ![a] = got]
    /\ entries' = R!Entered(entries, cards', a)
    /\ saved' = R!Serialized(entries', cards')
    /\ refused' = IF R!NoRoom(entries, cards', a) THEN refused \cup {a} ELSE refused \ {a}

\* In an array whose addresses differ, one entry may get another address.
LEMMA StillDistinct ==
    ASSUME NEW D, NEW E, NEW old, NEW new, NEW x, E \subseteq D \cup {x},
           \A i, j \in D : old[i].mac = old[j].mac => i = j,
           \A j \in D : j # x => new[j].mac = old[j].mac,
           \A j \in D : old[j].mac = new[x].mac => j = x
    PROVE  \A i, j \in E : new[i].mac = new[j].mac => i = j
  OBVIOUS

\* The list after a registration that succeeded for the card a.
LEMMA SucceededList ==
    ASSUME RegistTyped, ListIsSaved, NEW a \in Consoles, NEW got \in HostRecords, Success(a, got)
    PROVE  cards' \in [Consoles -> HostRecords] /\ entries' \in Seq(EntryRecords) /\ ListIsSaved'
  <1>1. /\ cards \in [Consoles -> HostRecords] /\ entries \in Seq(EntryRecords)
        /\ cards' \in [Consoles -> HostRecords] /\ cards'[a] = got
        /\ \A c \in Consoles : c # a => cards'[c] = cards[c]
        /\ OwnKeys(got) /\ saved' = R!Serialized(entries', cards')
    BY DEF RegistTyped, Success
  <1> DEFINE same == R!Matching(entries, cards', cards'[a].mac)
  <1>2. /\ entries' \in Seq(EntryRecords)
        /\ \/ \E i \in same : entries' = [entries EXCEPT ![i] = R!Shared(a)]
           \/ entries' = entries
           \/ entries' = Append(entries, R!Shared(a))
    BY <1>1, EnteredIs DEF Success
  <1>3. same \subseteq DOMAIN entries
    BY DEF R!Matching
  <1>4. \A i \in DOMAIN entries' :
           entries'[i] = R!Shared(a) \/ (i \in DOMAIN entries /\ entries'[i] = entries[i])
    <2>1. R!Shared(a) \in EntryRecords
      BY DEF R!Shared, R!Nothing, R!Host, R!NoKeys, EntryRecords, HostRecords
    <2>2. entries \in Seq(EntryRecords)
      BY <1>1
    <2> HIDE DEF same
    <2>3. CASE \E i \in same : entries' = [entries EXCEPT ![i] = R!Shared(a)]
      <3>1. PICK i \in same : entries' = [entries EXCEPT ![i] = R!Shared(a)]
        BY <2>3
      <3>2. i \in DOMAIN entries
        BY <1>3
      <3>3. /\ DOMAIN entries' = DOMAIN entries /\ entries'[i] = R!Shared(a)
            /\ \A j \in DOMAIN entries : j # i => entries'[j] = entries[j]
        BY <2>2, <3>1, <3>2
      <3> QED
        BY <3>3
    <2>4. CASE entries' = Append(entries, R!Shared(a))
      BY <2>1, <2>2, <2>4
    <2> QED
      BY <1>2, <2>3, <2>4
  <1>5. ASSUME NEW i \in DOMAIN entries' PROVE OwnKeys(R!Value(entries'[i], cards'))
    <2>1. CASE entries'[i] = R!Shared(a)
      <3>1. R!Value(R!Shared(a), cards') = got
        BY <1>1, ConsolesAreNumbers DEF R!Value, R!Shared
      <3> QED
        BY <1>1, <2>1, <3>1
    <2>2. CASE i \in DOMAIN entries /\ entries'[i] = entries[i]
      <3>1. entries[i] \in EntryRecords /\ OwnKeys(R!Value(entries[i], cards))
        BY <1>1, <2>2 DEF ListIsSaved
      <3>2. R!Value(entries[i], cards') = R!Value(entries[i], cards)
            \/ R!Value(entries[i], cards') = got
        BY <1>1, <3>1 DEF R!Value, EntryRecords
      <3> QED
        BY <1>1, <2>2, <3>1, <3>2
    <2> QED
      BY <1>4, <1>5, <2>1, <2>2
  <1>6. \A c \in Consoles : R!REGISTERED(cards'[c]) => OwnKeys(cards'[c])
    BY <1>1 DEF ListIsSaved
  <1> QED
    BY <1>1, <1>2, <1>5, <1>6 DEF ListIsSaved

\* ... and when the user has waited, it has every console once.
LEMMA SucceededKept ==
    ASSUME RegistTyped, ListIsSaved, R!EntriesAreKept, CardsKeepAddress, ~disturbed,
           NEW a \in Consoles, NEW got \in HostRecords, got.mac = a, Success(a, got)
    PROVE  R!EntriesAreKept' /\ CardsKeepAddress'
  <1> DEFINE value(i) == R!Value(entries[i], cards')
             same == R!Matching(entries, cards', cards'[a].mac)
  <1>1. /\ cards \in [Consoles -> HostRecords] /\ entries \in Seq(EntryRecords)
        /\ cards' \in [Consoles -> HostRecords] /\ cards'[a] = got
        /\ \A c \in Consoles : c # a => cards'[c] = cards[c]
        /\ \A c \in Consoles : cards[c].mac = c
        /\ OwnKeys(got) /\ saved' = R!Serialized(entries', cards')
        /\ entries' = R!Entered(entries, cards', a)
        /\ refused' = IF R!NoRoom(entries, cards', a) THEN refused \cup {a} ELSE refused \ {a}
    BY DEF RegistTyped, CardsKeepAddress, Success
  <1>2. DOMAIN saved = DOMAIN entries
    BY DEF ListIsSaved, R!Serialized
  <1>3. ASSUME NEW i \in DOMAIN entries
        PROVE  /\ value(i).mac = saved[i].mac
               /\ saved[i].mac # a => value(i) = saved[i]
    <2>1. saved[i] = IF entries[i].card = 0 THEN entries[i].host ELSE cards[entries[i].card]
      BY <1>1, ValueIs DEF ListIsSaved
    <2>2. value(i) = IF entries[i].card = 0 THEN entries[i].host ELSE cards'[entries[i].card]
      BY DEF R!Value
    <2>3. entries[i].card \in Consoles \cup {0}
      <3>1. entries[i] \in EntryRecords
        BY <1>1
      <3> QED
        BY <3>1 DEF EntryRecords
    <2>4. CASE entries[i].card = a
      BY <1>1, <2>1, <2>2, <2>4, ConsolesAreNumbers
    <2>5. CASE entries[i].card # a
      BY <1>1, <2>1, <2>2, <2>3, <2>5
    <2> QED
      BY <2>4, <2>5
  <1>4. same = {i \in DOMAIN entries : saved[i].mac = a}
    BY <1>1, <1>3 DEF R!Matching
  <1>5. /\ \A i, j \in DOMAIN saved : saved[i].mac = saved[j].mac => i = j
        /\ \A c \in Consoles :
              R!REGISTERED(cards[c]) =>
                  (\E j \in DOMAIN saved : saved[j] = cards[c]) \/ c \in refused
    BY DEF R!EntriesAreKept, R!Range
  <1>6. /\ \/ \E i \in same : entries' = [entries EXCEPT ![i] = R!Shared(a)]
           \/ same = {} /\ R!NoRoom(entries, cards', a) /\ entries' = entries
           \/ same = {} /\ ~R!NoRoom(entries, cards', a) /\ entries' = Append(entries, R!Shared(a))
        /\ entries' \in Seq(EntryRecords)
    <2> DEFINE list == R!Entered(entries, cards', a)
    <2>1. /\ list \in Seq(EntryRecords)
          /\ \/ \E i \in same : list = [entries EXCEPT ![i] = R!Shared(a)]
             \/ same = {} /\ R!NoRoom(entries, cards', a) /\ list = entries
             \/ same = {} /\ ~R!NoRoom(entries, cards', a) /\ list = Append(entries, R!Shared(a))
      <3>1. entries \in Seq(EntryRecords) /\ cards' \in [Consoles -> HostRecords]
        BY <1>1
      <3> QED
        BY <3>1, EnteredIs
    <2>2. entries' = list
      BY <1>1
    <2> HIDE DEF list, same
    <2> QED
      BY <2>1, <2>2
  <1>7. /\ DOMAIN saved' = DOMAIN entries'
        /\ \A i \in DOMAIN entries' : saved'[i] = R!Value(entries'[i], cards')
    BY <1>1 DEF R!Serialized
  <1>8. R!Value(R!Shared(a), cards') = got
    BY <1>1, ConsolesAreNumbers DEF R!Value, R!Shared
  <1>9. \A c \in refused : c # a => c \in refused'
    BY <1>1
  <1> DEFINE Distinct == \A i, j \in DOMAIN saved' : saved'[i].mac = saved'[j].mac => i = j
             Kept == \A c \in Consoles : R!REGISTERED(cards'[c]) =>
                         (\E j \in DOMAIN saved' : saved'[j] = cards'[c]) \/ c \in refused'
  <1>10. ASSUME \A j \in DOMAIN entries : saved[j].mac # a =>
                    j \in DOMAIN saved' /\ saved'[j] = saved[j],
                (\E j \in DOMAIN saved' : saved'[j] = got) \/ a \in refused'
         PROVE  Kept
    <2> SUFFICES ASSUME NEW c \in Consoles, R!REGISTERED(cards'[c]), c # a
                 PROVE  (\E j \in DOMAIN saved' : saved'[j] = cards'[c]) \/ c \in refused'
      BY <1>1, <1>10
    <2>1. cards'[c] = cards[c] /\ cards[c].mac = c
      BY <1>1
    <2>2. CASE c \in refused
      BY <1>9, <2>2
    <2>3. CASE c \notin refused
      <3>1. PICK j \in DOMAIN saved : saved[j] = cards[c]
        BY <1>5, <2>1, <2>3
      <3>2. j \in DOMAIN saved' /\ saved'[j] = saved[j]
        BY <1>2, <1>10, <2>1, <3>1
      <3> QED
        BY <2>1, <3>1, <3>2
    <2> QED
      BY <2>2, <2>3
  <1>11. Distinct /\ Kept
    <2> HIDE DEF same, value
    <2>1. CASE \E i \in same : entries' = [entries EXCEPT ![i] = R!Shared(a)]
      <3>1. PICK i \in same : entries' = [entries EXCEPT ![i] = R!Shared(a)]
        BY <2>1
      <3>2. i \in DOMAIN entries /\ saved[i].mac = a
        BY <1>4
      <3>3. /\ DOMAIN entries' = DOMAIN entries /\ entries'[i] = R!Shared(a)
            /\ \A j \in DOMAIN entries : j # i => entries'[j] = entries[j]
        BY <1>1, <3>1, <3>2
      <3>4. saved'[i] = got /\ \A j \in DOMAIN entries : j # i => saved'[j] = value(j)
        BY <1>7, <1>8, <3>2, <3>3 DEF value
      <3>5. Distinct
        <4>1. \A j \in DOMAIN entries : j # i => saved'[j].mac = saved[j].mac
          BY <1>3, <3>4
        <4>2. \A j \in DOMAIN entries : saved[j].mac = saved'[i].mac => j = i
          BY <1>2, <1>5, <3>2, <3>4
        <4> QED
          BY <1>2, <1>5, <1>7, <3>3, <4>1, <4>2, StillDistinct
      <3>6. Kept
        BY <1>3, <1>7, <1>10, <3>2, <3>3, <3>4
      <3> QED
        BY <3>5, <3>6
    <2>2. CASE same = {} /\ R!NoRoom(entries, cards', a) /\ entries' = entries
      <3>1. \A j \in DOMAIN entries : saved'[j] = saved[j]
        BY <1>3, <1>4, <1>7, <2>2 DEF value
      <3>2. Distinct
        <4>1. DOMAIN saved' = DOMAIN saved
          BY <1>2, <1>7, <2>2
        <4> QED
          BY <1>2, <1>5, <3>1, <4>1
      <3>3. Kept
        <4>1. a \in refused'
          BY <1>1, <2>2
        <4>2. DOMAIN saved' = DOMAIN entries
          BY <1>7, <2>2
        <4> QED
          BY <1>10, <3>1, <4>1, <4>2
      <3> QED
        BY <3>2, <3>3
    <2>3. CASE same = {} /\ ~R!NoRoom(entries, cards', a)
                         /\ entries' = Append(entries, R!Shared(a))
      <3> DEFINE last == Len(entries) + 1
      <3>1. /\ DOMAIN entries' = DOMAIN entries \cup {last} /\ last \notin DOMAIN entries
            /\ entries'[last] = R!Shared(a)
            /\ \A j \in DOMAIN entries : entries'[j] = entries[j]
        <4>1. entries \in Seq(EntryRecords) /\ R!Shared(a) \in EntryRecords
          BY <1>1 DEF R!Shared, R!Nothing, R!Host, R!NoKeys, EntryRecords, HostRecords
        <4> QED
          BY <2>3, <4>1
      <3> HIDE DEF last
      <3>2. saved'[last] = got /\ \A j \in DOMAIN entries : saved'[j] = saved[j] /\ saved[j].mac # a
        BY <1>3, <1>4, <1>7, <1>8, <2>3, <3>1 DEF value
      <3>3. Distinct
        <4>1. \A j \in DOMAIN entries : saved[j].mac = saved'[last].mac => j = last
          BY <3>2
        <4> QED
          BY <1>2, <1>5, <1>7, <3>1, <3>2, <4>1, StillDistinct
      <3>4. Kept
        BY <1>7, <1>10, <3>1, <3>2
      <3> QED
        BY <3>3, <3>4
    <2> QED
      BY <1>6, <2>1, <2>2, <2>3
  <1>12. CardsKeepAddress'
    BY <1>1 DEF CardsKeepAddress
  <1> QED
    BY <1>11, <1>12 DEF R!EntriesAreKept, R!Range

\* What main_menu_repair_selected_card leaves of the list.
Repaired(c) ==
    /\ cards' = [cards EXCEPT ![c].keys = R!NoKeys]
    /\ entries' = R!Subsequence(entries, {i \in DOMAIN entries : entries[i].card # c})
    /\ saved' = R!Serialized(entries', cards')
    /\ refused' = refused \ {c}

\* It is the list without the card, still saved and with every console once.
LEMMA RepairedList ==
    ASSUME RegistTyped, ListIsSaved, R!EntriesAreKept, ~disturbed => CardsKeepAddress,
           NEW c \in Consoles, Repaired(c)
    PROVE  /\ cards' \in [Consoles -> HostRecords] /\ entries' \in Seq(EntryRecords)
           /\ ListIsSaved'
           /\ ~disturbed => CardsKeepAddress'
           /\ ~disturbed => R!EntriesAreKept'
  <1> DEFINE K == {i \in DOMAIN entries : entries[i].card # c}
  <1>1. /\ cards \in [Consoles -> HostRecords] /\ entries \in Seq(EntryRecords)
        /\ \A d \in Consoles : R!REGISTERED(cards[d]) => OwnKeys(cards[d])
        /\ \A i \in DOMAIN entries : OwnKeys(R!Value(entries[i], cards))
        /\ saved = R!Serialized(entries, cards)
    BY DEF RegistTyped, ListIsSaved
  <1>2. /\ cards' \in [Consoles -> HostRecords]
        /\ cards'[c].keys = R!NoKeys /\ cards'[c].mac = cards[c].mac
        /\ \A d \in Consoles : d # c => cards'[d] = cards[d]
    BY <1>1 DEF Repaired, R!NoKeys, HostRecords
  <1>3. /\ saved' = R!Serialized(entries', cards') /\ refused' = refused \ {c}
        /\ entries' = R!Subsequence(entries, K)
    BY DEF Repaired
  <1>4. K \in SUBSET (1 .. Len(entries)) /\ DOMAIN entries = 1 .. Len(entries)
    BY <1>1
  <1>5. R!Subsequence(entries, K) = Sub!Subsequence(entries, K)
    BY DEF R!Subsequence, R!LeftOf, Sub!Subsequence, Sub!LeftOf
  <1> HIDE DEF K
  <1>6. /\ entries' \in Seq(EntryRecords)
        /\ \E m : Sub!Places(m, entries, K, entries')
    BY <1>1, <1>3, <1>4, <1>5, Sub!SubsequenceIsWhatIsLeft
  <1>7. PICK m : Sub!Places(m, entries, K, entries')
    BY <1>6
  <1>8. /\ DOMAIN entries' = 1 .. Len(entries') /\ Len(entries') \in Nat
        /\ \A j \in DOMAIN entries' : m[j] \in K /\ entries'[j] = entries[m[j]]
        /\ \A i, j \in DOMAIN entries' : i < j => m[i] < m[j]
        /\ \A k \in K : \E j \in DOMAIN entries' : m[j] = k
    <2>1. DOMAIN entries' = 1 .. Len(entries') /\ Len(entries') \in Nat
      BY <1>6
    <2> QED
      BY <1>7, <2>1 DEF Sub!Places
  <1>9. \A k \in K : /\ R!Value(entries[k], cards') = R!Value(entries[k], cards)
                     /\ k \in DOMAIN entries
    <2> SUFFICES ASSUME NEW k \in K
                 PROVE  /\ R!Value(entries[k], cards') = R!Value(entries[k], cards)
                        /\ k \in DOMAIN entries
      OBVIOUS
    <2>1. k \in DOMAIN entries /\ entries[k].card # c
      BY DEF K
    <2>2. entries[k] \in EntryRecords
      BY <1>1, <2>1
    <2>3. entries[k].card \in Consoles \cup {0}
      BY <2>2 DEF EntryRecords
    <2> QED
      BY <1>2, <2>1, <2>3 DEF R!Value
  <1>10. /\ DOMAIN saved' = DOMAIN entries' /\ DOMAIN saved = DOMAIN entries
         /\ \A j \in DOMAIN entries' : m[j] \in DOMAIN saved /\ saved'[j] = saved[m[j]]
    BY <1>1, <1>3, <1>8, <1>9 DEF R!Serialized
  <1>11. ListIsSaved'
    <2>1. ~ R!REGISTERED(cards'[c])
      BY <1>2 DEF R!REGISTERED
    <2>2. \A d \in Consoles : R!REGISTERED(cards'[d]) => OwnKeys(cards'[d])
      BY <1>1, <1>2, <2>1
    <2>3. \A j \in DOMAIN entries' : OwnKeys(R!Value(entries'[j], cards'))
      BY <1>1, <1>8, <1>9
    <2> QED
      BY <1>3, <2>2, <2>3 DEF ListIsSaved
  <1>12. ~disturbed => CardsKeepAddress'
    BY <1>2 DEF CardsKeepAddress
  <1>13. ASSUME ~disturbed
         PROVE  R!EntriesAreKept'
    <2>1. /\ \A i, j \in DOMAIN saved : saved[i].mac = saved[j].mac => i = j
          /\ \A d \in Consoles :
                R!REGISTERED(cards[d]) =>
                    (\E j \in DOMAIN saved : saved[j] = cards[d]) \/ d \in refused
          /\ \A d \in Consoles : cards[d].mac = d
      BY <1>13 DEF R!EntriesAreKept, R!Range, CardsKeepAddress
    <2>2. ASSUME NEW i \in DOMAIN saved', NEW j \in DOMAIN saved', saved'[i].mac = saved'[j].mac
          PROVE  i = j
      <3>1. m[i] = m[j]
        BY <1>10, <2>1, <2>2
      <3>2. i \in Nat /\ j \in Nat /\ m[i] \in Nat
        BY <1>4, <1>8, <1>10
      <3>3. ~(i < j) /\ ~(j < i)
        BY <1>8, <1>10, <3>1, <3>2
      <3> QED
        BY <3>2, <3>3
    <2>3. ASSUME NEW d \in Consoles, R!REGISTERED(cards'[d]), d \notin refused'
          PROVE  \E j \in DOMAIN saved' : saved'[j] = cards'[d]
      <3>1. d # c /\ cards'[d] = cards[d] /\ d \notin refused
        BY <1>2, <1>3, <2>3 DEF R!REGISTERED
      <3>2. PICK k \in DOMAIN saved : saved[k] = cards[d]
        BY <2>1, <2>3, <3>1
      <3>3. entries[k].card # c
        <4>1. saved[k] = R!Value(entries[k], cards)
          BY <1>1, <1>10 DEF R!Serialized
        <4>2. c # 0
          BY ConsolesAreNumbers
        <4>3. entries[k].card = c => saved[k] = cards[c]
          BY <4>1, <4>2 DEF R!Value
        <4> QED
          BY <2>1, <3>1, <3>2, <4>3
      <3>4. k \in K
        BY <1>10, <3>3 DEF K
      <3> QED
        BY <1>8, <1>10, <3>1, <3>2, <3>4
    <2> QED
      BY <2>2, <2>3 DEF R!EntriesAreKept, R!Range
  <1> QED
    BY <1>2, <1>6, <1>11, <1>12, <1>13

\* A thread goes on to where it belongs, and nothing else changes but the pipe.
LEMMA ThreadMoves ==
    ASSUME RegistInv, NEW t \in Threads, NEW r \in ThreadRecords,
           threads[t].pc # "none", threads' = [threads EXCEPT ![t] = r],
           UNCHANGED <<screen, active, info, disturbed>>,
           r.pc \notin {"none", "begin"} =>
               \/ threads[t].pc # "begin" /\ r.console = threads[t].console
               \/ r.console = info,
           r.pc = "succeeded" => OwnKeys(r.got) /\ r.got.mac = r.console
    PROVE  /\ threads' \in [Threads -> ThreadRecords]
           /\ ThreadsFit' /\ (~disturbed' => OneAtATime')
  <1>1. /\ threads \in [Threads -> ThreadRecords] /\ ThreadsFit
        /\ ~disturbed => OneAtATime
    BY DEF RegistInv, RegistTyped
  <1>2. /\ threads' \in [Threads -> ThreadRecords] /\ threads'[t] = r
        /\ \A u \in Threads : u # t => threads'[u] = threads[u]
    BY <1>1
  <1>3. ThreadFits(t)'
    <2>1. ThreadFits(t) /\ active \in Consoles /\ info \in Consoles
      BY <1>1 DEF ThreadsFit, ThreadFits
    <2> QED
      BY <1>2, <2>1 DEF ThreadFits
  <1>4. ASSUME NEW u \in Threads, u # t PROVE ThreadFits(u)'
    BY <1>1, <1>2, <1>4 DEF ThreadsFit, ThreadFits
  <1>5. ThreadsFit'
    BY <1>1, <1>3, <1>4 DEF ThreadsFit
  <1>6. ASSUME ~disturbed PROVE OneAtATime'
    <2>1. OneAtATime
      BY <1>1, <1>6
    <2>2. \A u \in Threads : u # t => threads[u].pc = "none"
      BY <2>1 DEF OneAtATime
    <2>3. info = active /\ (threads[t].pc # "begin" => threads[t].console = active)
      BY <2>1 DEF OneAtATime
    <2> QED
      BY <1>2, <2>2, <2>3 DEF OneAtATime
  <1> QED
    BY <1>2, <1>5, <1>6

\* What keeps the list, the cards and the file keeps what is said of them.
LEMMA ListStays ==
    ASSUME RegistInv, UNCHANGED <<cards, entries, saved, refused>>, disturbed => disturbed'
    PROVE  ListIsSaved' /\ R!EntriesAreKept' /\ (~disturbed' => CardsKeepAddress')
  <1>1. ListIsSaved'
    BY DEF RegistInv, ListIsSaved
  <1>2. R!EntriesAreKept'
    BY DEF RegistInv, R!EntriesAreKept
  <1>3. ~disturbed' => CardsKeepAddress'
    BY DEF RegistInv, CardsKeepAddress
  <1> QED
    BY <1>1, <1>2, <1>3

\* Each thing a thread does is one of these moves.
LEMMA RegistThreadStep ==
    ASSUME RegistInv, NEW t \in Threads,
           R!Begin(t) \/ R!Found(t) \/ R!Paused(t) \/ R!Connected(t) \/ R!Accept(t) \/ R!Fail(t)
           \/ R!Parse(t) \/ R!Stop(t) \/ R!Fini(t)
    PROVE  RegistInv'
  <1> DEFINE Moved(r) ==
          /\ r \in ThreadRecords /\ threads[t].pc # "none"
          /\ threads' = [threads EXCEPT ![t] = r]
          /\ r.pc \notin {"none", "begin"} =>
               \/ threads[t].pc # "begin" /\ r.console = threads[t].console
               \/ r.console = info
          /\ r.pc = "succeeded" => OwnKeys(r.got) /\ r.got.mac = r.console
  <1>1. /\ threads \in [Threads -> ThreadRecords] /\ threads[t] \in ThreadRecords
        /\ issued \in [Consoles -> Nat] /\ latest \in Nat /\ info \in Nat
        /\ ThreadFits(t)
    BY DEF RegistInv, RegistTyped, ThreadsFit
  <1> DEFINE Going(pc) == [threads[t] EXCEPT !.pc = pc]
  <1>2. \A pc \in {"search", "pause", "connect", "response", "answered", "stopping"} :
            /\ Going(pc) \in ThreadRecords /\ Going(pc).pc = pc
            /\ Going(pc).console = threads[t].console
    BY <1>1 DEF ThreadRecords
  <1>3. (\E r : Moved(r)) /\ issued' \in [Consoles -> Nat]
        /\ UNCHANGED <<screen, active, info, disturbed, cards, entries, saved, refused, latest>>
    <2>1. CASE R!Begin(t)
      <3> DEFINE r == [threads[t] EXCEPT !.pc = "search", !.console = info]
      <3>1. r \in ThreadRecords /\ r.pc = "search" /\ r.console = info
        BY <1>1 DEF ThreadRecords
      <3>2. threads' = [threads EXCEPT ![t] = r] /\ threads[t].pc # "none"
            /\ UNCHANGED <<screen, active, info, disturbed, cards, entries, saved, refused, latest,
                           issued>>
        BY <2>1 DEF R!Begin, R!At, R!Quiet, R!uiVars, R!hostVars, R!staticVars
      <3>3. Moved(r)
        BY <3>1, <3>2
      <3> HIDE DEF Moved, r
      <3> QED
        BY <1>1, <3>2, <3>3
    <2>2. CASE R!Found(t) \/ R!Paused(t) \/ R!Connected(t) \/ R!Fail(t)
      <3> DEFINE To == {"pause", "connect", "response", "stopping"}
      <3>1. /\ threads[t].pc \notin {"none", "begin"}
            /\ \E pc \in To : threads' = [threads EXCEPT ![t] = Going(pc)]
            /\ UNCHANGED <<screen, active, info, disturbed, cards, entries, saved, refused, latest,
                           issued>>
        BY <2>2 DEF R!Found, R!Paused, R!Connected, R!Fail, R!Waits, R!At, R!Move, R!Quiet,
           R!uiVars,
                    R!hostVars, R!staticVars
      <3>2. PICK pc \in To : threads' = [threads EXCEPT ![t] = Going(pc)]
        BY <3>1
      <3>3. Moved(Going(pc))
        BY <1>2, <3>1, <3>2
      <3> HIDE DEF Moved, Going
      <3> QED
        BY <1>1, <3>1, <3>3
    <2>3. CASE R!Accept(t)
      <3>1. /\ threads[t].pc \notin {"none", "begin"}
            /\ threads' = [threads EXCEPT ![t] = Going("answered")]
            /\ issued' = [issued EXCEPT ![threads[t].console] = @ + 1]
            /\ UNCHANGED <<screen, active, info, disturbed, cards, entries, saved, refused, latest>>
        BY <2>3 DEF R!Accept, R!At, R!Move, R!Quiet, R!uiVars, R!hostVars, R!staticVars
      <3>2. Moved(Going("answered"))
        BY <1>2, <3>1
      <3>3. issued' \in [Consoles -> Nat]
        <4>1. \A c \in Consoles : issued[c] + 1 \in Nat
          BY <1>1
        <4> QED
          BY <1>1, <3>1, <4>1
      <3> HIDE DEF Moved, Going
      <3> QED
        BY <3>1, <3>2, <3>3
    <2>4. CASE R!Parse(t)
      <3>1. PICK headers \in SUBSET {"RegistKey", "RP-Key", "Mac"} :
               threads' = [threads EXCEPT ![t] =
                   IF R!Complete(headers)
                     THEN [threads[t] EXCEPT !.pc = "succeeded",
                                             !.got = R!Parsed(threads[t].console, headers)]
                     ELSE Going("stopping")]
        BY <2>4 DEF R!Parse
      <3>2. /\ threads[t].pc = "answered"
            /\ UNCHANGED <<screen, active, info, disturbed, cards, entries, saved, refused, latest,
                           issued>>
        BY <2>4 DEF R!Parse, R!At, R!Quiet, R!uiVars, R!hostVars, R!staticVars
      <3>3. CASE R!Complete(headers)
        <4> DEFINE got == R!Parsed(threads[t].console, headers)
                   r == [threads[t] EXCEPT !.pc = "succeeded", !.got = got]
        <4>1. threads[t].console \in Consoles
          BY <1>1, <3>2 DEF ThreadFits
        <4>2. /\ threads[t].console \in Nat \ {0}
              /\ issued[threads[t].console] \in Nat
          BY <1>1, <4>1, ConsolesAreNumbers
        <4>3. got = [mac |-> threads[t].console,
                     keys |-> [of |-> threads[t].console, number |-> issued[threads[t].console]]]
          BY <3>3 DEF R!Complete, R!Parsed, R!Host, R!Keys
        <4>4. got \in HostRecords /\ OwnKeys(got) /\ got.mac = threads[t].console
          BY <4>2, <4>3 DEF HostRecords, OwnKeys, R!REGISTERED, R!NoKeys
        <4> HIDE DEF got
        <4>5. r \in ThreadRecords /\ r.pc = "succeeded" /\ r.got = got
              /\ r.console = threads[t].console
          BY <1>1, <4>4 DEF ThreadRecords
        <4>6. threads' = [threads EXCEPT ![t] = r]
          BY <3>1, <3>3 DEF got
        <4>7. Moved(r)
          BY <3>2, <4>4, <4>5, <4>6
        <4> HIDE DEF Moved, r
        <4> QED
          BY <1>1, <3>2, <4>7
      <3>4. CASE ~R!Complete(headers)
        <4>1. threads' = [threads EXCEPT ![t] = Going("stopping")]
          BY <3>1, <3>4
        <4>2. Moved(Going("stopping"))
          BY <1>2, <3>2, <4>1
        <4> HIDE DEF Moved, Going
        <4> QED
          BY <1>1, <3>2, <4>2
      <3> QED
        BY <3>3, <3>4
    <2>5. CASE R!Stop(t)
      <3> DEFINE r == [threads[t] EXCEPT !.pc = "joining", !.joins = latest]
      <3>1. r \in ThreadRecords /\ r.pc = "joining" /\ r.console = threads[t].console
        BY <1>1 DEF ThreadRecords
      <3>2. threads' = [threads EXCEPT ![t] = r] /\ threads[t].pc = "stopping"
            /\ UNCHANGED <<screen, active, info, disturbed, cards, entries, saved, refused, latest,
                           issued>>
        BY <2>5 DEF R!Stop, R!At, R!uiVars, R!hostVars
      <3>3. Moved(r)
        BY <3>1, <3>2
      <3> HIDE DEF Moved, r
      <3> QED
        BY <1>1, <3>2, <3>3
    <2>6. CASE R!Fini(t)
      <3>1. R!Off \in ThreadRecords /\ R!Off.pc = "none"
        BY DEF ThreadRecords, R!Off, R!Nothing, R!Host, R!NoKeys, HostRecords
      <3>2. threads' = [threads EXCEPT ![t] = R!Off] /\ threads[t].pc = "joining"
            /\ UNCHANGED <<screen, active, info, disturbed, cards, entries, saved, refused, latest,
                           issued>>
        BY <2>6 DEF R!Fini, R!At, R!uiVars, R!hostVars
      <3>3. Moved(R!Off)
        BY <3>1, <3>2
      <3> HIDE DEF Moved
      <3> QED
        BY <1>1, <3>2, <3>3
    <2> QED
      BY <2>1, <2>2, <2>3, <2>4, <2>5, <2>6
  <1>4. PICK r : Moved(r)
    BY <1>3
  <1>5. /\ threads' \in [Threads -> ThreadRecords]
        /\ ThreadsFit' /\ (~disturbed' => OneAtATime')
    BY <1>3, <1>4, ThreadMoves
  <1>6. ListIsSaved' /\ R!EntriesAreKept' /\ (~disturbed' => CardsKeepAddress')
    BY <1>3, ListStays
  <1>7. RegistTyped'
    BY <1>3, <1>5 DEF RegistInv, RegistTyped
  <1> QED
    BY <1>5, <1>6, <1>7 DEF RegistInv

\* A registration has succeeded.
LEMMA SucceedStep ==
    ASSUME RegistInv, NEW t \in Threads, R!Succeed(t)
    PROVE  RegistInv'
  <1> DEFINE a == active
             got == threads[t].got
             r == [threads[t] EXCEPT !.pc = "stopping"]
  <1>1. /\ threads \in [Threads -> ThreadRecords] /\ threads[t] \in ThreadRecords
        /\ ThreadFits(t) /\ threads[t].pc = "succeeded"
        /\ RegistTyped /\ ListIsSaved /\ R!EntriesAreKept
        /\ ~disturbed => OneAtATime /\ CardsKeepAddress
    BY DEF RegistInv, RegistTyped, ThreadsFit, R!Succeed, R!At
  <1>2. /\ a \in Consoles /\ got \in HostRecords /\ OwnKeys(got) /\ got.mac = threads[t].console
        /\ ~disturbed => got.mac = a
    BY <1>1 DEF ThreadFits, ThreadRecords, OneAtATime
  <1>3. Success(a, got)
    BY <1>2 DEF R!Succeed, Success
  <1>4. cards' \in [Consoles -> HostRecords] /\ entries' \in Seq(EntryRecords) /\ ListIsSaved'
    BY <1>1, <1>2, <1>3, SucceededList
  <1>5. ~disturbed => R!EntriesAreKept' /\ CardsKeepAddress'
    BY <1>1, <1>2, <1>3, SucceededKept
  <1>6. /\ threads' = [threads EXCEPT ![t] = r]
        /\ UNCHANGED <<screen, active, info, pipe, latest, issued, disturbed>>
    BY DEF R!Succeed, R!Move, R!uiVars, R!staticVars
  <1>7. r \in ThreadRecords /\ r.pc = "stopping" /\ r.console = threads[t].console
    BY <1>1 DEF ThreadRecords
  <1> HIDE DEF r, a, got
  <1>8. /\ threads' \in [Threads -> ThreadRecords]
        /\ ThreadsFit' /\ (~disturbed' => OneAtATime')
    BY <1>1, <1>6, <1>7, ThreadMoves
  <1>9. RegistTyped'
    BY <1>1, <1>4, <1>6, <1>8 DEF RegistTyped
  <1>10. R!EntriesAreKept'
    BY <1>5, <1>6 DEF R!EntriesAreKept
  <1> QED
    BY <1>4, <1>5, <1>6, <1>8, <1>9, <1>10 DEF RegistInv

\* What the user does.
LEMMA UserStep ==
    ASSUME RegistInv, R!User
    PROVE  RegistInv'
  <1>1. /\ RegistTyped /\ ListIsSaved /\ ThreadsFit /\ R!EntriesAreKept
        /\ ~disturbed => OneAtATime /\ CardsKeepAddress
        /\ threads \in [Threads -> ThreadRecords]
    BY DEF RegistInv, RegistTyped
  <1>2. CASE R!CancelPin
    <2>1. /\ screen' = "main"
          /\ UNCHANGED <<active, cards, entries, saved, refused, info, latest, threads, issued,
                         disturbed>>
      BY <1>2 DEF R!CancelPin, R!hostVars, R!staticVars
    <2>2. RegistTyped' /\ ThreadsFit' /\ (~disturbed' => OneAtATime')
      BY <1>1, <2>1 DEF RegistTyped, ThreadsFit, ThreadFits, OneAtATime
    <2> QED
      BY <2>1, <2>2, ListStays DEF RegistInv
  <1>3. CASE \E c \in Consoles : R!Activate(c)
    <2>1. PICK c \in Consoles : R!Activate(c)
      BY <1>3
    <2>2. /\ active' = c /\ disturbed' = (disturbed \/ (R!Running # {} /\ c # active))
          /\ UNCHANGED <<cards, entries, saved, refused, info, latest, threads, issued>>
      BY <2>1 DEF R!Activate, R!hostVars, R!staticVars
    <2>3. RegistTyped' /\ ThreadsFit'
      BY <1>1, <2>2 DEF RegistTyped, ThreadsFit, ThreadFits
    <2>4. ASSUME ~disturbed' PROVE OneAtATime'
      <3>1. OneAtATime /\ (c # active => \A t \in Threads : threads[t].pc = "none")
        BY <1>1, <2>2, <2>4 DEF R!Running
      <3> QED
        BY <2>2, <3>1 DEF OneAtATime
    <2> QED
      BY <2>2, <2>3, <2>4, ListStays DEF RegistInv
  <1>4. CASE \E c \in Consoles : R!Repair(c)
    <2>1. PICK c \in Consoles : R!Repair(c)
      BY <1>4
    <2>2. /\ active' = c /\ disturbed' = (disturbed \/ R!Running # {})
          /\ UNCHANGED <<info, latest, threads, issued>>
      BY <2>1 DEF R!Repair, R!staticVars
    <2>3. Repaired(c)
      BY <2>1 DEF R!Repair, Repaired
    <2>4. /\ cards' \in [Consoles -> HostRecords] /\ entries' \in Seq(EntryRecords)
          /\ ListIsSaved'
          /\ ~disturbed => CardsKeepAddress'
          /\ ~disturbed => R!EntriesAreKept'
      BY <1>1, <2>3, RepairedList
    <2>5. RegistTyped' /\ ThreadsFit'
      BY <1>1, <2>2, <2>4 DEF RegistTyped, ThreadsFit, ThreadFits
    <2>6. ASSUME ~disturbed' PROVE OneAtATime' /\ CardsKeepAddress' /\ R!EntriesAreKept'
      <3>1. ~disturbed /\ \A t \in Threads : threads[t].pc = "none"
        BY <2>2, <2>6 DEF R!Running
      <3> QED
        BY <2>2, <2>4, <3>1 DEF OneAtATime
    <2>7. R!EntriesAreKept'
      BY <2>6 DEF R!EntriesAreKept
    <2> QED
      BY <2>4, <2>5, <2>6, <2>7 DEF RegistInv
  <1>5. CASE R!Confirm
    <2>1. PICK t \in Threads : R!Start(t)
      BY <1>5 DEF R!Confirm
    <2> DEFINE r == [threads[t] EXCEPT !.pc = "begin"]
    <2>2. /\ screen = "register" /\ screen' = "main"
          /\ info' = active /\ latest' = t /\ threads[t].pc = "none"
          /\ threads' = [threads EXCEPT ![t] = r]
          /\ disturbed' = (disturbed \/ R!Running # {})
          /\ UNCHANGED <<active, cards, entries, saved, refused, issued>>
      BY <1>5, <2>1 DEF R!Confirm, R!Start, R!Running, R!hostVars
    <2>3. r \in ThreadRecords /\ r.pc = "begin"
      BY <1>1 DEF ThreadRecords
    <2> HIDE DEF r
    <2>4. /\ threads' \in [Threads -> ThreadRecords] /\ threads'[t] = r
          /\ \A u \in Threads : u # t => threads'[u] = threads[u]
      BY <1>1, <2>2, <2>3
    <2>5. active \in Consoles /\ active \in Nat
      BY <1>1, <2>2, ConsolesAreNumbers DEF ThreadsFit
    <2>6. RegistTyped'
      <3>1. t \in Nat
        BY MCControlAssumption DEF MCControlAssumption, R!RegistrationAssumption
      <3> QED
        BY <1>1, <2>2, <2>4, <2>5, <3>1 DEF RegistTyped
    <2>7. ThreadsFit'
      BY <1>1, <2>2, <2>3, <2>4, <2>5 DEF ThreadsFit, ThreadFits
    <2>8. ASSUME ~disturbed' PROVE OneAtATime'
      <3>1. \A u \in Threads : threads[u].pc = "none"
        BY <2>2, <2>8 DEF R!Running
      <3> QED
        BY <2>2, <2>3, <2>4, <3>1 DEF OneAtATime
    <2> QED
      BY <2>2, <2>6, <2>7, <2>8, ListStays DEF RegistInv
  <1> QED
    BY <1>2, <1>3, <1>4, <1>5 DEF R!User

\* The list that is loaded has every stored console once.
LEMMA LoadedList ==
    ASSUME NEW list, list = R!SetToSeq({R!Loaded(c) : c \in Stored})
    PROVE  /\ list \in Seq(EntryRecords)
           /\ \A i, j \in DOMAIN list : list[i] = list[j] => i = j
           /\ \A i \in DOMAIN list : \E c \in Stored : list[i] = R!Loaded(c)
           /\ \A c \in Stored : \E i \in DOMAIN list : list[i] = R!Loaded(c)
  <1> DEFINE S == {R!Loaded(c) : c \in Stored}
             n == Cardinality(S)
  <1>1. Stored \subseteq Consoles
    BY MCControlAssumption DEF MCControlAssumption, R!RegistrationAssumption
  <1>2. IsFiniteSet(S)
    <2>1. IsFiniteSet(Stored)
      BY <1>1, ConsolesAreNumbers, FS_Subset
    <2> DEFINE f == [c \in Stored |-> R!Loaded(c)]
    <2>2. \A c, d \in Stored : R!Loaded(c) = R!Loaded(d) => c = d
      BY DEF R!Loaded, R!Host
    <2>3. f \in Bijection(Stored, S)
      BY <2>2 DEF Bijection, Injection, Surjection, IsInjective
    <2> QED
      BY <2>1, <2>3, FS_Bijection DEF ExistsBijection
  <1>3. S \subseteq EntryRecords
    BY <1>1, ConsolesAreNumbers DEF R!Loaded, R!Host, R!Keys, EntryRecords, HostRecords
  <1>4. n \in Nat /\ ExistsBijection(1 .. n, S)
    BY <1>2, FS_CardinalityType
  <1>5. list = CHOOSE f \in [1 .. n -> S] : R!IsInjective(f)
    BY DEF R!SetToSeq, R!Cardinality, Cardinality
  <1>6. \E f \in [1 .. n -> S] : R!IsInjective(f)
    BY <1>4 DEF ExistsBijection, Bijection, Injection, R!IsInjective, IsInjective
  <1>7. list \in [1 .. n -> S] /\ R!IsInjective(list)
    BY <1>5, <1>6
  <1> HIDE DEF S, n
  <1>8. list \in Seq(EntryRecords)
    BY <1>3, <1>4, <1>7
  <1>9. list \in Injection(1 .. n, S)
    BY <1>7 DEF R!IsInjective, IsInjective, Injection
  <1>10. list \in Surjection(1 .. n, S)
    <2>1. Cardinality(1 .. n) = n
      BY <1>4, FS_Interval
    <2>2. Cardinality(1 .. n) = Cardinality(S) <=> list \in Surjection(1 .. n, S)
      BY <1>2, <1>9, FS_Injection
    <2> QED
      BY <2>1, <2>2 DEF n
  <1>11. \A e \in S : \E i \in 1 .. n : list[i] = e
    BY <1>10 DEF Surjection
  <1>12. /\ DOMAIN list = 1 .. n
         /\ \A i \in 1 .. n : list[i] \in S
         /\ \A i, j \in 1 .. n : list[i] = list[j] => i = j
    BY <1>7 DEF R!IsInjective
  <1>13. /\ \A e \in S : \E c \in Stored : e = R!Loaded(c)
         /\ \A c \in Stored : R!Loaded(c) \in S
    BY DEF S
  <1> QED
    BY <1>8, <1>11, <1>12, <1>13

\* The registration at first ...
LEMMA RegistInit == R!Init => RegistInv
  <1> SUFFICES ASSUME R!Init PROVE RegistInv
    OBVIOUS
  <1>1. Stored \subseteq Consoles /\ Threads \subseteq Nat
    BY MCControlAssumption DEF MCControlAssumption, R!RegistrationAssumption
  <1>2. /\ entries \in Seq(EntryRecords)
        /\ \A i, j \in DOMAIN entries : entries[i] = entries[j] => i = j
        /\ \A i \in DOMAIN entries : \E c \in Stored : entries[i] = R!Loaded(c)
        /\ \A c \in Stored : \E i \in DOMAIN entries : entries[i] = R!Loaded(c)
    BY LoadedList DEF R!Init
  <1>3. R!NoKeys = [of |-> 0, number |-> 0] /\ \A c \in Consoles : R!Keys(c, 0) # R!NoKeys
    BY ConsolesAreNumbers DEF R!NoKeys, R!Keys
  <1>4. ASSUME NEW c \in Consoles
        PROVE  /\ cards[c] \in HostRecords /\ cards[c].mac = c
               /\ R!REGISTERED(cards[c]) => c \in Stored /\ OwnKeys(cards[c])
               /\ c \in Stored => cards[c] = R!Loaded(c).host
    <2>1. cards[c] = R!Host(c, IF c \in Stored THEN R!Keys(c, 0) ELSE R!NoKeys)
      BY DEF R!Init
    <2>2. c \in Nat \ {0}
      BY ConsolesAreNumbers
    <2>3. CASE c \in Stored
      <3>1. cards[c] = [mac |-> c, keys |-> [of |-> c, number |-> 0]]
        BY <2>1, <2>3 DEF R!Host, R!Keys
      <3> QED
        BY <2>2, <2>3, <3>1
           DEF HostRecords, R!REGISTERED, OwnKeys, R!NoKeys, R!Loaded, R!Host, R!Keys
    <2>4. CASE c \notin Stored
      <3>1. cards[c] = [mac |-> c, keys |-> [of |-> 0, number |-> 0]]
        BY <2>1, <2>4 DEF R!Host, R!NoKeys
      <3> QED
        BY <2>2, <2>4, <3>1 DEF HostRecords, R!REGISTERED, R!NoKeys
    <2> QED
      BY <2>3, <2>4
  <1>5. cards \in [Consoles -> HostRecords]
    <2>1. cards = [c \in Consoles |-> R!Host(c, IF c \in Stored THEN R!Keys(c, 0) ELSE R!NoKeys)]
      BY DEF R!Init
    <2> QED
      BY <1>4, <2>1
  <1>6. ASSUME NEW i \in DOMAIN entries
        PROVE  \E c \in Stored : /\ entries[i] = R!Loaded(c)
                                 /\ R!Value(entries[i], cards) = R!Loaded(c).host
                                 /\ R!Loaded(c).host.mac = c /\ OwnKeys(R!Loaded(c).host)
    <2>1. PICK c \in Stored : entries[i] = R!Loaded(c)
      BY <1>2
    <2>2. R!Loaded(c).card = 0 /\ R!Loaded(c).host = [mac |-> c, keys |-> R!Keys(c, 0)]
          /\ R!Keys(c, 0).of = c
      BY DEF R!Loaded, R!Host, R!Keys
    <2>3. R!Value(entries[i], cards) = R!Loaded(c).host
      BY <2>1, <2>2 DEF R!Value
    <2>4. OwnKeys(R!Loaded(c).host)
      BY <1>1, <1>3, <2>2 DEF OwnKeys, R!REGISTERED
    <2> QED
      BY <2>1, <2>2, <2>3, <2>4
  <1>7. /\ DOMAIN saved = DOMAIN entries /\ saved = R!Serialized(entries, cards)
        /\ \A i \in DOMAIN entries : saved[i] = R!Value(entries[i], cards)
    BY DEF R!Init, R!Serialized
  <1>8. ListIsSaved
    BY <1>4, <1>6, <1>7 DEF ListIsSaved
  <1>9. R!EntriesAreKept
    <2>1. ASSUME NEW i \in DOMAIN saved, NEW j \in DOMAIN saved, saved[i].mac = saved[j].mac
          PROVE  i = j
      <3>1. PICK c \in Stored : entries[i] = R!Loaded(c) /\ saved[i].mac = c
        BY <1>6, <1>7
      <3>2. PICK d \in Stored : entries[j] = R!Loaded(d) /\ saved[j].mac = d
        BY <1>6, <1>7
      <3>3. c = d /\ i \in DOMAIN entries /\ j \in DOMAIN entries
        BY <1>7, <2>1, <3>1, <3>2
      <3>4. entries[i] = entries[j]
        BY <3>1, <3>2, <3>3
      <3> QED
        BY <1>2, <3>3, <3>4
    <2>2. ASSUME NEW c \in Consoles, R!REGISTERED(cards[c])
          PROVE  \E j \in DOMAIN saved : saved[j] = cards[c]
      <3>1. c \in Stored /\ cards[c] = R!Loaded(c).host
        BY <1>4, <2>2
      <3>2. PICK j \in DOMAIN entries : entries[j] = R!Loaded(c)
        BY <1>2, <3>1
      <3>3. R!Value(entries[j], cards) = R!Loaded(c).host
        BY <3>2 DEF R!Value, R!Loaded
      <3> QED
        BY <1>7, <3>1, <3>2, <3>3
    <2> QED
      BY <2>1, <2>2 DEF R!EntriesAreKept, R!Range
  <1>10. R!Off \in ThreadRecords /\ R!Off.pc = "none"
    BY DEF ThreadRecords, R!Off, R!Nothing, R!Host, R!NoKeys, HostRecords
  <1>11. /\ screen = "main" /\ info = 0 /\ latest = 0 /\ threads = [t \in Threads |-> R!Off]
         /\ issued = [c \in Consoles |-> 0]
    BY DEF R!Init
  <1>12. RegistTyped
    BY <1>2, <1>5, <1>10, <1>11 DEF RegistTyped
  <1>13. ThreadsFit /\ OneAtATime
    BY <1>10, <1>11 DEF ThreadsFit, ThreadFits, OneAtATime
  <1>14. CardsKeepAddress
    BY <1>4 DEF CardsKeepAddress
  <1> QED
    BY <1>8, <1>9, <1>12, <1>13, <1>14 DEF RegistInv

\* ... and while another component runs.
LEMMA RegistStutter == RegistInv /\ UNCHANGED registVars => RegistInv'
  <1> SUFFICES ASSUME RegistInv, UNCHANGED registVars PROVE RegistInv'
    OBVIOUS
  <1>1. UNCHANGED <<screen, active, cards, entries, saved, info, latest, threads, issued, disturbed,
                    refused>>
    BY DEF registVars
  <1>2. RegistTyped' /\ ThreadsFit' /\ (~disturbed' => OneAtATime')
    BY <1>1 DEF RegistInv, RegistTyped, ThreadsFit, ThreadFits, OneAtATime
  <1> QED
    BY <1>1, <1>2, ListStays DEF RegistInv

\* For every number of consoles, threads and entries: the file has no keys under another
\* console's address, whatever is confirmed while whatever runs, and when the user waits
\* for the end of each registration it has every console once and with the keys its card
\* has, as long as there was room (regist.c, 787-907; host_registration.c, 18-81;
\* ui_screens.c, 821-852).
THEOREM RegistrationStaysSound == Spec => []RegistrationSound
  <1> DEFINE Inv == bench = "regist" => RegistInv
  <1>1. Init => Inv
    BY RegistInit DEF Init
  <1>2. ASSUME RegistInv, R!Next PROVE RegistInv'
    BY <1>2, UserStep, RegistThreadStep, SucceedStep DEF R!Next, R!Thread
  <1>3. Inv /\ [Next]_vars => Inv'
    BY <1>2, BenchStep, RegistStutter
  <1>4. RegistInv => R!KeysAreTrue
    BY DEF RegistInv, ListIsSaved, R!KeysAreTrue, R!Serialized, R!Range, OwnKeys
  <1>5. Inv => RegistrationSound
    BY <1>4 DEF RegistrationSound, RegistInv
  <1> QED
    BY <1>1, <1>3, <1>5, PTL DEF Spec
=============================================================================
