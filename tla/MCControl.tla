----------------------------- MODULE MCControl -----------------------------
(***************************************************************************)
(* Who starts and who ends a stream, on one bench: a session in the local  *)
(* network and one over PSN, its ctrl connection alone with every message  *)
(* of the console, the host of the Vita around a session, the connection   *)
(* over the Internet before one, and the registration of a console.  The   *)
(* initial state chooses which of them runs; the others stay as            *)
(* initialised.                                                            *)
(***************************************************************************)
EXTENDS Naturals

CONSTANTS MaxAddresses, PsnAddresses, MaxRestarts, MaxBuffered, MaxMessages, PsnMessages,
          LanKinds, PsnKinds, CtrlKinds, CtrlMessages, Rapid, Offers, Flaws
CONSTANTS Consoles, Stored, Threads, MaxEntries, MaxKeys

VARIABLES bench,    \* the component that runs
    spc, request, address, regist, registered, sessionStop, userStop, pin, restart,
    restarting, restarts, running, stopped, gone, outcome, cpc, msg, buffered, wake,
    ctrlStop, pinEntered, consolePin, queued, signals, sent, notif, ctrlFailed, sessionId,
    pinRequested, switchReceived, quitReason
VARIABLES stateLocked, pinTaken
VARIABLES main, push, punched, queue, lock, socket, ids, servers, console
VARIABLES ui, worker, quit, session, input, flags, discovery, wanted, faults
VARIABLES screen, active, cards, entries, saved, info, pipe, latest, threads, issued, disturbed,
          refused

ctrlVars == <<cpc, msg, buffered, wake, ctrlStop, pinEntered, consolePin, queued, signals,
    sent, notif, ctrlFailed, sessionId, pinRequested, switchReceived, quitReason>>
ownVars == <<spc, request, address, regist, registered, sessionStop, userStop, pin, restart,
    restarting, restarts, running, stopped, gone, outcome>>
hostVars == <<ui, worker, quit, session, input, flags, discovery, wanted, faults>>
punchVars == <<main, push, punched, queue, lock, socket, ids, servers, console>>
registVars == <<screen, active, cards, entries, saved, info, pipe, latest, threads, issued,
    disturbed, refused>>
vars == <<bench, ownVars, ctrlVars, stateLocked, pinTaken, hostVars, punchVars, registVars>>

L == INSTANCE Session WITH Psn <- FALSE, Kinds <- LanKinds
P == INSTANCE Session WITH Psn <- TRUE, Kinds <- PsnKinds, MaxAddresses <- PsnAddresses,
                           MaxMessages <- PsnMessages
C == INSTANCE Ctrl WITH Kinds <- CtrlKinds, MaxMessages <- CtrlMessages
H == INSTANCE StreamLifecycle
N == INSTANCE Holepunch WITH flags <- punched
R == INSTANCE Registration

ASSUME MCControlAssumption ==
    /\ L!SessionAssumption /\ P!SessionAssumption /\ C!CtrlAssumption
    /\ H!LifecycleAssumption /\ N!HolepunchAssumption
    /\ R!RegistrationAssumption

Init ==
    /\ bench \in {"lan", "psn", "ctrl", "host", "punch", "regist"}
    /\ L!Init /\ P!Init /\ C!Init /\ H!Init /\ N!Init /\ R!Init
    /\ bench # "host" => ~discovery

OfLan(A) ==
    bench = "lan" /\ A /\ UNCHANGED <<bench, stateLocked, pinTaken, hostVars, punchVars, registVars>>
OfCtrl(A) ==
    bench = "ctrl" /\ A /\ UNCHANGED <<bench, ownVars, hostVars, punchVars, registVars>>
OfHost(A) ==
    bench = "host" /\ A /\ UNCHANGED <<bench, ownVars, ctrlVars, stateLocked, pinTaken, punchVars,
                                        registVars>>
OfPunch(A) ==
    bench = "punch" /\ A /\ UNCHANGED <<bench, ownVars, ctrlVars, stateLocked, pinTaken, hostVars,
                                         registVars>>
OfRegist(A) ==
    bench = "regist" /\ A /\ UNCHANGED <<bench, ownVars, ctrlVars, stateLocked, pinTaken, hostVars,
                                          punchVars>>

Lan      == OfLan(L!Next)
Internet == bench = "psn" /\ P!Next
                          /\ UNCHANGED <<bench, stateLocked, pinTaken, hostVars, punchVars,
                                       registVars>>
Ctrl     == OfCtrl(C!Next)
Host     == OfHost(H!Next)
Punch    == OfPunch(N!Next)
Regist   == OfRegist(R!Next)

Next == Lan \/ Internet \/ Ctrl \/ Host \/ Punch \/ Regist

\* The fairness of each component.  Since one bench runs for ever, a condition of each may
\* share a WF: it is the condition of the one that runs.
Fairness ==
    /\ WF_vars(\/ OfLan(L!SessionThread)
               \/ OfCtrl(C!Awake /\ C!CtrlThread /\ UNCHANGED <<stateLocked, pinTaken>>)
               \/ OfHost(H!UILoop)
               \/ OfPunch(N!MainSteps)
               \/ OfRegist(R!Thread(1)))
    /\ WF_vars(\/ OfLan(L!C!Awake /\ L!CtrlThread)
               \/ OfCtrl(C!Signal /\ UNCHANGED <<stateLocked, pinTaken>>)
               \/ OfHost(H!Worker)
               \/ OfPunch(N!PushSteps)
               \/ OfRegist(R!Thread(2)))
    /\ WF_vars(OfLan(L!RegistReports) \/ OfHost(H!QuitHandler) \/ OfPunch(N!PushStops))
    /\ WF_vars(OfLan(L!RestartStops) \/ OfHost(H!InputExits))
    /\ WF_vars(OfLan(L!R!Due /\ L!RunReturns) \/ OfHost(H!On("stop_requested") /\ H!QuitEvent))
    /\ SF_vars(OfLan(L!ForwardPin)) /\ SF_vars(OfLan(L!StopCtrl))

Spec == Init /\ [][Next]_vars /\ Fairness

-----------------------------------------------------------------------------
\* Every component keeps its types.
TypeOK ==
    CASE bench \in {"lan", "psn"} -> L!TypeOK
      [] bench = "ctrl" -> C!TypeOK
      [] bench = "host" -> H!TypeOK
      [] bench = "punch" -> N!TypeOK
      [] bench = "regist" -> R!TypeOK

\* QUIT comes last, it has a reason, and the reason is true: STOPPED only for a
\* session that was asked to stop or restart, REMOTE_DISCONNECTED exactly when the
\* console ended the stream (session.c, 475-486, 643-650, 734-772).
QuitIsTruthful ==
    /\ bench \in {"lan", "psn"} => L!QuitLast
    /\ bench = "lan" => L!QuitHasReason /\ L!StoppedOnlyIfAsked /\ L!DisconnectReported

\* A stream runs only when everything it needs is there (see Session).
StreamWhenReady ==
    /\ bench = "lan" => L!StreamWhenReady
    /\ bench = "psn" => P!StreamWhenReady

\* The ctrl thread ends behind the session's back only after a close of the console
\* (ctrl.c, 313-319, 352-356).
SilentEndOnlyAfterClose == bench = "ctrl" => C!SilentEndOnlyAfterClose

\* No session of the host is lost, finalised twice or finalised while it is used, and the
\* discovery comes back with the last of them (host.c, 151-460; host_quit.c, 21-77;
\* host_lifecycle.c, 10-98).
SessionOwned ==
    bench = "host" => H!NeverOverwritten /\ H!FinalisedOnce /\ H!DiscoveryRestored

\* No thread outlives what it works on, and an acknowledgement counts only for the offer it
\* answers, whatever fails and in whatever order the servers and the console speak
\* (holepunch.c, 996-1157, 1546-1963, 2305-2666).
PunchIsSound == bench = "punch" => N!NoThreadAfterFree /\ N!AckIsOurs

\* The file has no keys under another console's address, and, when the user waits for the
\* end of each registration, every console once and with the keys its card has, as long as
\* there was room (regist.c, 787-907; host_registration.c, 18-81; ui_screens.c, 821-852).
RegistrationSound == bench = "regist" => R!KeysAreTrue /\ R!EntriesAreKept

\* A stop reaches its end on every floor: the ctrl thread ends, the session says QUIT, the
\* host gives the session back (ctrl.c, 170-177; session.c, 326-341; host.c, 123-141).
StopsEnd ==
    (CASE bench = "lan" -> userStop
       [] bench = "ctrl" -> ctrlStop
       [] bench = "host" -> H!On("stop_requested")
       [] OTHER -> FALSE)
    ~> (CASE bench = "lan" -> spc \in {"done", "crashed"}
          [] bench = "ctrl" -> cpc = "ended" \/ pinTaken
          [] OTHER -> session = "free")

\* What has begun comes to its end: a start to a stream or to QUIT, a queued message to
\* its sending, a session that has quit to its finalisation, an attempt over the Internet
\* to a connection or to its end, a registration to the end of its thread (see Session,
\* Ctrl, StreamLifecycle, Holepunch and Registration).
BegunEnds ==
    (CASE bench = "lan" -> spc = "created"
       [] bench = "ctrl" -> queued > 0 /\ cpc # "none"
       [] bench = "host" -> H!On("finalize_pending")
       [] bench = "punch" -> main.pc = "create"
       [] bench = "regist" -> R!At(1, "begin")
       [] OTHER -> FALSE)
    ~> (CASE bench = "lan" -> spc \in {"stream", "done"}
          [] bench = "ctrl" -> queued = 0 \/ cpc = "ended" \/ pinTaken
          [] bench = "punch" -> main.pc \in {"ready", "freed"}
          [] bench = "regist" -> R!At(1, "none")
          [] OTHER -> ~H!On("finalize_pending"))
=============================================================================
