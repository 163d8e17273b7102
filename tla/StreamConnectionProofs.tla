----------------------- MODULE StreamConnectionProofs -----------------------
(***************************************************************************)
(* Proofs about StreamConnection, for any number of runs: what an end and  *)
(* an announcement mean, and that the connection keeps the safety part of  *)
(* the promise StreamRun, on which Session is built.                       *)
(*                                                                         *)
(* The argument: state_finished means something else in every phase, so    *)
(* the invariant ties the phase of the handlers (state) to the place where *)
(* run waits (pc) and says what the flag stands for there.  What survives  *)
(* a run does no harm, because a second run is begun with should_stop set  *)
(* and gets no further than the Takion handshake.                          *)
(***************************************************************************)
EXTENDS StreamConnection, TLAPS

Ended == {"idle", "closing"}
Open  == {"announcing", "streaming"}

\* The phase of the handlers is the one that run waits for.
PhasesAgree ==
    /\ pc = "connecting" => state = "TAKION_CONNECT"
    /\ pc = "bang" => state = "EXPECT_BANG"
    /\ pc = "info" => state = "EXPECT_STREAMINFO"
    /\ pc \in Open => state = "IDLE" /\ ~finished /\ infoSeen
    /\ pc = "info" /\ finished => infoSeen

\* Only the first run can be without a stop, and what a later one finds in the
\* flags of the first is not looked at.
FirstRun ==
    /\ runs = 0 => pc = "idle" /\ state = "IDLE" /\ ~fromBang
    /\ runs > 1 => shouldStop /\ pc \in Ended \cup {"connecting"}
    /\ runs = 1 /\ fromBang => infoSeen

\* The result that a run is about to return names its reason.
ResultNamesReason ==
    pc \in Ended =>
        /\ result \in {"SUCCESS", "CANCELED"} => shouldStop
        /\ result = "DISCONNECTED" => remoteDisconnected
        /\ result = "none" => runs = 0

\* The Takion thread lives within a run, congestion control beyond it only
\* after a stop.
ThreadsEnd ==
    /\ takion = "none" <=> pc = "idle"
    /\ congestion <= runs
    /\ pc \notin Ended => congestion > 0
    /\ pc \in Ended /\ ~shouldStop => congestion = 0

Control == Places /\ PhasesAgree /\ FirstRun /\ ResultNamesReason /\ ThreadsEnd

IInv == Flags /\ Control

-----------------------------------------------------------------------------
LEMMA InitIInv == Init => IInv
<1> SUFFICES ASSUME Init PROVE IInv
  OBVIOUS
<1> USE DEF Init, Ended, Open
<1>1. Flags
  BY Zenon DEF Flags
<1>2. Places
  BY StreamConnectionAssumption, SMT DEF Places, Handshake, StreamConnectionAssumption
<1>3. PhasesAgree
  BY SMT DEF PhasesAgree
<1>4. FirstRun
  BY SMT DEF FirstRun
<1>5. ResultNamesReason
  BY SMT DEF ResultNamesReason
<1>6. ThreadsEnd
  BY SMT DEF ThreadsEnd
<1> QED
  BY <1>1, <1>2, <1>3, <1>4, <1>5, <1>6 DEF IInv, Control

\* The truth values need no arithmetic.
LEMMA NextFlags == Flags /\ [Next]_vars => Flags'
<1> SUFFICES ASSUME Flags, [Next]_vars PROVE Flags'
  OBVIOUS
<1> USE DEF Flags, runVars, stateVars, endVars, cryptVars, threadVars, seenVars, Pred,
        EnterWait, Close, CloseStoppingCongestion, Disconnect, TakionEvent
<1>1. CASE (runs = 0 \/ shouldStop) /\ Start
  BY <1>1, Zenon DEF Start
<1>2. CASE (runs = 0 \/ shouldStop) /\ StartFails
  BY <1>2, Zenon DEF StartFails
<1>3. CASE Stop
  BY <1>3, Zenon DEF Stop
<1>4. CASE ConnectStopped
  BY <1>4, Zenon DEF ConnectStopped
<1>5. CASE SendBig
  BY <1>5, Zenon DEF SendBig
<1>6. CASE BangReceived
  BY <1>6, Zenon DEF BangReceived
<1>7. CASE BangMissing
  BY <1>7, Zenon DEF BangMissing
<1>8. CASE InfoStopped
  BY <1>8, Zenon DEF InfoStopped
<1>9. CASE InfoMissing
  BY <1>9, Zenon DEF InfoMissing
<1>10. CASE Connected
  BY <1>10, Zenon DEF Connected
<1>11. CASE StreamEnds
  BY <1>11, Zenon DEF StreamEnds
<1>12. CASE ConnectTimedOut
  BY <1>12, Zenon DEF ConnectTimedOut
<1>13. CASE Announced
  BY <1>13, Zenon DEF Announced
<1>14. CASE Heartbeat
  BY <1>14, Zenon DEF Heartbeat
<1>15. CASE TakionClosed
  BY <1>15, Zenon DEF TakionClosed
<1>16. CASE TakionConnected
  BY <1>16, Zenon DEF TakionConnected
<1>17. CASE TakionEnds
  BY <1>17, Zenon DEF TakionEnds
<1>18. CASE RemoteDisconnects
  BY <1>18, Zenon DEF RemoteDisconnects
<1>19. ASSUME NEW outcome \in BangOutcomes, Bang(outcome) PROVE Flags'
  BY <1>19, Zenon DEF Bang
<1>20. ASSUME NEW outcome \in InfoOutcomes, StreamInfo(outcome) PROVE Flags'
  BY <1>20, Zenon DEF StreamInfo
<1>21. CASE UNCHANGED vars
  BY <1>21, Zenon DEF vars
<1> QED
  BY <1>1, <1>2, <1>3, <1>4, <1>5, <1>6, <1>7, <1>8, <1>9, <1>10, <1>11, <1>12,
     <1>13, <1>14, <1>15, <1>16, <1>17, <1>18, <1>19, <1>20, <1>21
     DEF Next, Running, RunWakes, TakionThread

LEMMA NextControl == IInv /\ [Next]_vars => Control'
<1> SUFFICES ASSUME IInv, [Next]_vars PROVE Control'
  OBVIOUS
<1> USE StreamConnectionAssumption
    DEF StreamConnectionAssumption, IInv, Flags, Control, Places, PhasesAgree, FirstRun,
        ResultNamesReason, ThreadsEnd, Ended, Open, Handshake, runVars, stateVars, endVars,
        cryptVars, threadVars, seenVars, Pred, Wakes, TimesOut, Returns, EnterWait, Close,
        CloseStoppingCongestion, Disconnect
<1>1. CASE (runs = 0 \/ shouldStop) /\ Start
  BY <1>1, SMT DEF Start
<1>2. CASE (runs = 0 \/ shouldStop) /\ StartFails
  BY <1>2, SMT DEF StartFails
<1>3. CASE Stop
  BY <1>3, SMT DEF Stop
<1>4. CASE ConnectStopped
  BY <1>4, SMT DEF ConnectStopped
<1>5. CASE SendBig
  BY <1>5, SMT DEF SendBig
<1>6. CASE BangReceived
  BY <1>6, SMT DEF BangReceived
<1>7. CASE BangMissing
  BY <1>7, SMT DEF BangMissing
<1>8. CASE InfoStopped
  BY <1>8, SMT DEF InfoStopped
<1>9. CASE InfoMissing
  BY <1>9, SMT DEF InfoMissing, InfoWaitOver
<1>10. CASE Connected
  BY <1>10, SMT DEF Connected, InfoWaitOver, StateWhenConnected
<1>11. CASE StreamEnds
  BY <1>11, SMT DEF StreamEnds
<1>12. CASE ConnectTimedOut
  BY <1>12, SMT DEF ConnectTimedOut
<1>13. CASE Announced
  BY <1>13, SMT DEF Announced
<1>14. CASE Heartbeat
  BY <1>14, SMT DEF Heartbeat
<1>15. CASE TakionClosed
  BY <1>15, SMT DEF TakionClosed
<1>16. CASE TakionConnected
  BY <1>16, SMT DEF TakionConnected, TakionEvent
<1>17. CASE TakionEnds
  BY <1>17, SMT DEF TakionEnds, TakionEvent
<1>18. CASE RemoteDisconnects
  BY <1>18, SMT DEF RemoteDisconnects
<1>19. ASSUME NEW outcome \in BangOutcomes, Bang(outcome) PROVE Control'
  BY <1>19, SMT DEF Bang
<1>20. ASSUME NEW outcome \in InfoOutcomes, StreamInfo(outcome) PROVE Control'
  BY <1>20, SMT DEF StreamInfo
<1>21. CASE UNCHANGED vars
  BY <1>21, SMT DEF vars
<1> QED
  BY <1>1, <1>2, <1>3, <1>4, <1>5, <1>6, <1>7, <1>8, <1>9, <1>10, <1>11, <1>12,
     <1>13, <1>14, <1>15, <1>16, <1>17, <1>18, <1>19, <1>20, <1>21
     DEF Next, Running, RunWakes, TakionThread

LEMMA Invariance == Spec => []IInv
<1>1. IInv /\ [Next]_vars => IInv'
  BY NextFlags, NextControl DEF IInv
<1> QED
  BY InitIInv, <1>1, PTL DEF Spec

\* The types, and with them the bound on the congestion control threads: a run
\* starts one and no exit label stops one that was not started.
THEOREM TypeCorrect == Spec => []TypeOK
<1>1. IInv => TypeOK
  BY DEF IInv, Control, TypeOK
<1> QED
  BY Invariance, <1>1, PTL

\* However late the messages of the handshake come, CONNECTED is announced only
\* in a run in which a STREAMINFO was handled.
THEOREM Announcement == Spec => []AnnouncedAfterStreamInfo
<1>1. IInv => AnnouncedAfterStreamInfo
  BY DEF IInv, Control, PhasesAgree, Open, AnnouncedAfterStreamInfo
<1> QED
  BY Invariance, <1>1, PTL

\* A run that the session takes for a wanted end was stopped.
THEOREM QuietEnd == Spec => []QuietEndWasAsked
<1>1. IInv => QuietEndWasAsked
  BY DEF IInv, Control, ResultNamesReason, Ended, QuietEndWasAsked
<1> QED
  BY Invariance, <1>1, PTL

\* Congestion control outlives Takion only after a stop.
THEOREM CongestionEnds == Spec => []CongestionStopsWithTakion
<1>1. IInv => CongestionStopsWithTakion
  BY SMT DEF IInv, Flags, Control, Places, ThreadsEnd, Ended, CongestionStopsWithTakion
<1> QED
  BY Invariance, <1>1, PTL

-----------------------------------------------------------------------------
(* The refinement of StreamRun *)

LEMMA InitPromise == Init => Promise!Init
  BY DEF Init, Promise!Init

\* Every step of the connection is a step of the promise or leaves it alone.
LEMMA StepPromise == IInv /\ [Next]_vars => [Promise!Next]_(Promise!vars)
<1> SUFFICES ASSUME IInv, [Next]_vars PROVE [Promise!Next]_(Promise!vars)
  OBVIOUS
<1> USE DEF IInv, Flags, Control, Places, PhasesAgree, FirstRun,
        ResultNamesReason, ThreadsEnd, Ended, Open, Handshake, runVars, stateVars, endVars,
        cryptVars, threadVars, seenVars, Pred, Wakes, TimesOut, Returns, EnterWait, Close,
        CloseStoppingCongestion, Disconnect, Promise!vars
<1>1. CASE (runs = 0 \/ shouldStop) /\ Start
  BY <1>1, SMT DEF Start, Promise!Next, Promise!Begin
<1>2. CASE (runs = 0 \/ shouldStop) /\ StartFails
  BY <1>2, SMT DEF StartFails, Promise!Next, Promise!Begin, Promise!FailAtOnce
<1>3. CASE Stop
  BY <1>3, SMT DEF Stop, Promise!Next, Promise!Stop
<1>4. CASE ConnectStopped
  BY <1>4, SMT DEF ConnectStopped
<1>5. CASE SendBig
  BY <1>5, SMT DEF SendBig
<1>6. CASE BangReceived
  BY <1>6, SMT DEF BangReceived
<1>7. CASE BangMissing
  BY <1>7, SMT DEF BangMissing
<1>8. CASE InfoStopped
  BY <1>8, SMT DEF InfoStopped
<1>9. CASE InfoMissing
  BY <1>9, SMT DEF InfoMissing, InfoWaitOver
<1>10. CASE Connected
  BY <1>10, SMT DEF Connected, InfoWaitOver
<1>11. CASE StreamEnds
  BY <1>11, SMT DEF StreamEnds
<1>12. CASE ConnectTimedOut
  BY <1>12, SMT DEF ConnectTimedOut
<1>13. CASE Announced
  BY <1>13, SMT DEF Announced
<1>14. CASE Heartbeat
  BY <1>14, SMT DEF Heartbeat
<1>15. CASE TakionClosed
  BY <1>15, SMT DEF TakionClosed, Promise!Next, Promise!Return, Promise!Failures
<1>16. CASE TakionConnected
  BY <1>16, SMT DEF TakionConnected, TakionEvent
<1>17. CASE TakionEnds
  BY <1>17, SMT DEF TakionEnds, TakionEvent
<1>18. CASE RemoteDisconnects
  <2>1. pc # "idle" /\ pc' = pc /\ result' = result /\ shouldStop' = shouldStop
    BY <1>18, SMT DEF RemoteDisconnects
  <2>2. remoteDisconnected' = TRUE
    BY <1>18 DEF RemoteDisconnects
  <2> QED
    BY ONLY <2>1, <2>2, Zenon DEF Promise!Next, Promise!RemoteDisconnects
<1>19. ASSUME NEW outcome \in BangOutcomes, Bang(outcome) PROVE [Promise!Next]_(Promise!vars)
  BY <1>19, SMT DEF Bang
<1>20. ASSUME NEW outcome \in InfoOutcomes, StreamInfo(outcome) PROVE [Promise!Next]_(Promise!vars)
  BY <1>20, SMT DEF StreamInfo
<1>21. CASE UNCHANGED vars
  BY <1>21, SMT DEF vars
<1> QED
  BY <1>1, <1>2, <1>3, <1>4, <1>5, <1>6, <1>7, <1>8, <1>9, <1>10, <1>11, <1>12,
     <1>13, <1>14, <1>15, <1>16, <1>17, <1>18, <1>19, <1>20, <1>21
     DEF Next, Running, RunWakes, TakionThread

\* What the session relies on holds for any number of runs: a run returns
\* SUCCESS or CANCELED only after a stop, DISCONNECTED only after the remote has
\* disconnected, and a stop is never taken back.
THEOREM ImplementsPromise == Spec => Promise!SafeSpec
<1> QED
  BY Invariance, InitPromise, StepPromise, PTL DEF Spec, Promise!SafeSpec
=============================================================================
