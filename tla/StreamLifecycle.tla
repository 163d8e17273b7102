-------------------------- MODULE StreamLifecycle --------------------------
(***************************************************************************)
(* The life of a stream on the Vita: vita/src/host.c, host_quit.c,         *)
(* host_lifecycle.c, host_callbacks.c, ui/ui_state.c and the loop of ui.c. *)
(*                                                                         *)
(* One session struct is passed around four threads.  The UI thread starts *)
(* a worker ("VitaConnWorker") that runs host_stream: it initialises the   *)
(* session, the media and the input thread.  The session's own thread runs *)
(* the quit handler, which may not join itself and therefore leaves the    *)
(* joining and the fini to the UI thread (session_finalize_pending).  The  *)
(* next worker does the same if it comes first.                            *)
(*                                                                         *)
(* What the session does between its start and its quit event is           *)
(* Session.tla; here it connects, shows video and quits.  Dead here, and   *)
(* left out: the retries after loss (loss_retry_bitrate_kbps is 0 always). *)
(***************************************************************************)
EXTENDS Naturals, FiniteSets

CONSTANT Rapid  \* the user connects again in the frame in which a stream quits

LifecycleAssumption == Rapid \in BOOLEAN

VARIABLES
    ui,         \* where the UI thread is
    worker,     \* where host_stream is; "none" without a worker
    quit,       \* where the quit handler is, on the session thread
    session,    \* the struct: "free", "inited", "running", "ended" (joinable)
    input,      \* the input thread: "none", "running", "ended"
    flags,      \* the booleans of context.stream and the overlay that are TRUE
    discovery,  \* context.discovery_enabled
    wanted,     \* (history) the discovery was on before the streams
    faults      \* (history) what was done to a session that may not be done

vars == <<ui, worker, quit, session, input, flags, discovery, wanted, faults>>

Flags == {
    "session_init",             \* the session is owned by a stream
    "finalize_pending",         \* it has to be joined and finalised
    "is_streaming", "media", "stop_requested", "inputs_ready", "input_should_exit",
    "cooldown",                 \* next_stream_allowed_us lies ahead
    "resume_discovery", "was_running",
    "overlay",                  \* connection_overlay.active
    "thread_id"}                \* connection_thread_id >= 0

On(f) == f \in flags
Switch(on, off) == flags' = (flags \ off) \cup on
Fault(condition, f) == faults' = IF condition THEN faults \cup {f} ELSE faults

-----------------------------------------------------------------------------
(* Finalisation of a session that has quit, by the UI thread or a worker:   *)
(* host_finalize_deferred_session.  A join of what there is not fails, and  *)
(* is only logged.                                                          *)

JoinSession == session # "running" /\ quit = "none"
JoinInput   == input # "running"

\* chiaki_session_fini; the session must be there, and nobody may use it any more.
FiniSession ==
    /\ session' = "free"
    /\ Fault(session = "free" \/ session = "running" \/ quit # "none" \/ input = "running",
             "finalised")

\* host_resume_discovery_if_needed
ResumeDiscovery == discovery' = (discovery \/ On("resume_discovery"))

-----------------------------------------------------------------------------
(* The UI thread *)

\* The top of the loop (ui.c): a session that has quit is finalised first.
LoopTop ==
    /\ ui = "top"
    /\ ui' = IF On("finalize_pending") THEN "join session" ELSE "screen"
    /\ UNCHANGED <<worker, quit, session, input, flags, discovery, wanted, faults>>

\* The rest of host_finalize_deferred_session, step by step.
DrainJoins ==
    /\ \/ ui = "join session" /\ JoinSession /\ ui' = "join input" /\ UNCHANGED input
       \/ ui = "join input" /\ JoinInput /\ ui' = "fini" /\ input' = "none"
    /\ UNCHANGED <<worker, quit, session, flags, discovery, wanted, faults>>

DrainFini ==
    /\ ui = "fini"
    /\ ui' = "screen"
    /\ FiniSession
    /\ ResumeDiscovery /\ Switch({}, {"finalize_pending", "resume_discovery"})
    /\ UNCHANGED <<worker, quit, input, wanted>>

\* A frame in which the user does nothing: a screen, or a frame of the video.
Frame ==
    /\ ui = "screen"
    /\ ui' = "top"
    /\ UNCHANGED <<worker, quit, session, input, flags, discovery, wanted, faults>>

\* The user picks a console: ui_connection_begin and ui_connection_start_thread.
Connect ==
    /\ ui = "screen" /\ ~On("is_streaming") /\ ~On("overlay") /\ ~On("cooldown")
    /\ Rapid \/ (quit = "none" /\ ~On("finalize_pending"))
    /\ ui' = "top"
    /\ worker' = IF On("thread_id") THEN worker ELSE "enter"
    /\ Switch({"overlay", "thread_id"}, {})
    /\ UNCHANGED <<quit, session, input, discovery, wanted, faults>>

\* request_stream_stop: nothing without a session.
RequestStop ==
    IF On("session_init") THEN Switch({"stop_requested"}, {"cooldown"}) ELSE UNCHANGED flags

\* Circle on the waking screen: host_cancel_stream_request, then ui_connection_cancel,
\* which waits for the worker.
Cancel ==
    /\ ui = "screen" /\ On("overlay") /\ ~On("is_streaming")
    /\ ui' = "cancel"
    /\ RequestStop
    /\ UNCHANGED <<worker, quit, session, input, discovery, wanted, faults>>

CancelOverlay ==
    /\ ui = "cancel"
    /\ Switch({}, {"overlay"})
    /\ ui' = IF On("thread_id") THEN "wait worker" ELSE "top"
    /\ UNCHANGED <<worker, quit, session, input, discovery, wanted, faults>>

CancelWaited ==
    /\ ui = "wait worker" /\ worker = "none"
    /\ ui' = "top"
    /\ Switch({}, {"thread_id"})
    /\ UNCHANGED <<worker, quit, session, input, discovery, wanted, faults>>

\* ui_cooldown_active: the time has come.
CooldownOver ==
    /\ On("cooldown")
    /\ Switch({}, {"cooldown"})
    /\ UNCHANGED <<ui, worker, quit, session, input, discovery, wanted, faults>>

-----------------------------------------------------------------------------
(* The worker: host_stream *)

Goes(from, to) == worker = from /\ worker' = to

\* Without a host or its credentials there is no stream; the overlay stays.
Enter ==
    /\ \/ Goes("enter", "pending") \/ Goes("enter", "leave")
    /\ UNCHANGED <<ui, quit, session, input, flags, discovery, wanted, faults>>

\* A session that has quit is finalised here when the UI thread has not done it.
CheckPending ==
    /\ Goes("pending", IF On("finalize_pending") THEN "join session" ELSE "check")
    /\ UNCHANGED <<ui, quit, session, input, flags, discovery, wanted, faults>>

WorkerDrainJoins ==
    /\ \/ Goes("join session", "join input") /\ JoinSession /\ UNCHANGED input
       \/ Goes("join input", "fini") /\ JoinInput /\ input' = "none"
    /\ UNCHANGED <<ui, quit, session, flags, discovery, wanted, faults>>

WorkerDrainFini ==
    /\ Goes("fini", "check")
    /\ FiniSession
    /\ ResumeDiscovery /\ Switch({}, {"finalize_pending", "resume_discovery"})
    /\ UNCHANGED <<ui, quit, input, wanted>>

\* A stream that is there is left alone; otherwise its flags are reset.
CheckInit ==
    /\ \/ On("session_init") /\ Goes("check", "leave") /\ UNCHANGED flags
       \/ /\ ~On("session_init")
          /\ Goes("check", IF On("cooldown") THEN "cleanup" ELSE "init")
          /\ Switch(IF discovery THEN {"was_running"} ELSE {},
                    {"resume_discovery", "stop_requested", "inputs_ready", "is_streaming",
                     "media"} \cup (IF discovery THEN {} ELSE {"was_running"}))
    /\ UNCHANGED <<ui, quit, session, input, discovery, wanted, faults>>

\* The tokens and the hole punching of a remote console, then chiaki_session_init.
InitSession ==
    /\ \/ Goes("init", "cleanup") /\ UNCHANGED <<session, faults>>
       \/ /\ Goes("init", "suspend")
          /\ session' = "inited"
          /\ Fault(session # "free", "overwritten")
    /\ UNCHANGED <<ui, quit, input, flags, discovery, wanted>>

SuspendDiscovery ==
    /\ Goes("suspend", "own")
    /\ discovery' = (discovery /\ ~On("was_running"))
    /\ Switch(IF On("was_running") THEN {"resume_discovery"} ELSE {}, {})
    /\ UNCHANGED <<ui, quit, session, input, wanted, faults>>

Own ==
    /\ Goes("own", "media")
    /\ Switch({"session_init"}, {})
    /\ UNCHANGED <<ui, quit, session, input, discovery, wanted, faults>>

\* The audio decoder, the callbacks, vita_h264_setup and vita_h264_start.
SetUpMedia ==
    /\ \/ Goes("media", "start") \/ Goes("media", "cleanup")
    /\ Switch({"media"}, {})
    /\ UNCHANGED <<ui, quit, session, input, discovery, wanted, faults>>

\* chiaki_session_start
StartSession ==
    /\ \/ Goes("start", "input") /\ session' = "running"
       \/ Goes("start", "cleanup") /\ UNCHANGED session
    /\ UNCHANGED <<ui, quit, input, flags, discovery, wanted, faults>>

\* The input thread is allowed to run, then created; a failure is only logged.
AllowInput ==
    /\ Goes("input", "spawn")
    /\ Switch({}, {"input_should_exit"})
    /\ UNCHANGED <<ui, quit, session, input, discovery, wanted, faults>>

SpawnInput ==
    /\ Goes("spawn", "leave")
    /\ input' \in {"running", input}
    /\ UNCHANGED <<ui, quit, session, flags, discovery, wanted, faults>>

\* host_shutdown_media_pipeline
ShutDownMedia == Switch({}, IF On("media") THEN {"is_streaming", "media", "inputs_ready"} ELSE {})

Cleanup ==
    /\ Goes("cleanup", IF On("session_init") THEN "clean session" ELSE "clean flags")
    /\ Switch(IF On("session_init") THEN {"input_should_exit"} ELSE {},
              (IF On("media") THEN {"media"} ELSE {}) \cup {"session_init", "is_streaming",
              "inputs_ready"})
    /\ UNCHANGED <<ui, quit, session, input, discovery, wanted, faults>>

\* The rest of host_finalize_session_resources: there is no thread of the session to join.
CleanSession ==
    /\ Goes("clean session", "clean flags") /\ JoinInput
    /\ input' = "none"
    /\ FiniSession
    /\ UNCHANGED <<ui, quit, flags, discovery, wanted>>

\* The flags, the discovery, and ui_connection_cancel, whose wait for the worker itself
\* fails at once.
CleanFlags ==
    /\ Goes("clean flags", "leave")
    /\ ResumeDiscovery
    /\ Switch({}, {"finalize_pending", "resume_discovery", "overlay", "thread_id"})
    /\ UNCHANGED <<ui, quit, session, input, wanted, faults>>

\* The end of connection_thread_func
Leave ==
    /\ Goes("leave", "none")
    /\ Switch({}, {"thread_id"})
    /\ UNCHANGED <<ui, quit, session, input, discovery, wanted, faults>>

-----------------------------------------------------------------------------
(* The session: its events come on its own threads *)

Streaming == session = "running" /\ quit = "none"

\* CHIAKI_EVENT_CONNECTED
Connected ==
    /\ Streaming
    /\ Switch({"inputs_ready"}, {"cooldown"})
    /\ flags' # flags
    /\ UNCHANGED <<ui, worker, quit, session, input, discovery, wanted, faults>>

\* host_video_cb: the first frame ends the connection screen.
Video ==
    /\ Streaming /\ On("inputs_ready") /\ ~On("stop_requested")
    /\ Switch({"is_streaming"}, {"overlay"})
    /\ flags' # flags
    /\ UNCHANGED <<ui, worker, quit, session, input, discovery, wanted, faults>>

\* CHIAKI_EVENT_QUIT: host_handle_quit_event begins with ui_connection_cancel.
QuitEvent ==
    /\ Streaming
    /\ quit' = IF On("thread_id") THEN "wait worker" ELSE "media"
    /\ Switch({}, {"overlay"})
    /\ UNCHANGED <<ui, worker, session, input, discovery, wanted, faults>>

\* Faulty variant: the worker is not waited for.
QuitWaitedNot ==
    /\ quit = "wait worker"
    /\ quit' = "media"
    /\ Switch({}, {"thread_id"})
    /\ UNCHANGED <<ui, worker, session, input, discovery, wanted, faults>>

QuitWaited ==
    /\ quit = "wait worker" /\ worker = "none"
    /\ quit' = "media"
    /\ Switch({}, {"thread_id"})
    /\ UNCHANGED <<ui, worker, session, input, discovery, wanted, faults>>

QuitMedia ==
    /\ quit = "media"
    /\ quit' = "disown"
    /\ ShutDownMedia
    /\ UNCHANGED <<ui, worker, session, input, discovery, wanted, faults>>

QuitDisown ==
    /\ quit = "disown"
    /\ quit' = "defer"
    /\ Switch({"input_should_exit"}, {"session_init"})
    /\ UNCHANGED <<ui, worker, session, input, discovery, wanted, faults>>

QuitDefer ==
    /\ quit = "defer"
    /\ quit' = "wrap up"
    /\ Switch({"finalize_pending"}, {})
    /\ UNCHANGED <<ui, worker, session, input, discovery, wanted, faults>>

\* The cooldown, unless the stop was asked for; the flags; the discovery.
QuitWrapUp ==
    /\ quit = "wrap up"
    /\ quit' = "none" /\ session' = "ended"
    /\ ResumeDiscovery
    /\ Switch(IF On("stop_requested") THEN {} ELSE {"cooldown"},
              {"resume_discovery", "stop_requested"}
              \cup (IF On("stop_requested") THEN {"cooldown"} ELSE {}))
    /\ UNCHANGED <<ui, worker, input, wanted, faults>>

-----------------------------------------------------------------------------
(* The input thread *)

\* L, R and Start
ExitCombo ==
    /\ input = "running" /\ On("inputs_ready") /\ ~On("stop_requested")
    /\ ~On("input_should_exit")
    /\ RequestStop /\ flags' # flags
    /\ UNCHANGED <<ui, worker, quit, session, input, discovery, wanted, faults>>

InputExits ==
    /\ input = "running" /\ On("input_should_exit")
    /\ input' = "ended"
    /\ UNCHANGED <<ui, worker, quit, session, flags, discovery, wanted, faults>>

-----------------------------------------------------------------------------
Init ==
    /\ ui = "top" /\ worker = "none" /\ quit = "none"
    /\ session = "free" /\ input = "none" /\ flags = {}
    /\ discovery \in BOOLEAN /\ wanted = discovery
    /\ faults = {}

UILoop == LoopTop \/ DrainJoins \/ DrainFini \/ Frame \/ CancelOverlay \/ CancelWaited
User   == Connect \/ Cancel \/ ExitCombo
Worker == \/ Enter \/ CheckPending \/ WorkerDrainJoins \/ WorkerDrainFini \/ CheckInit
          \/ InitSession \/ SuspendDiscovery \/ Own \/ SetUpMedia \/ StartSession
          \/ AllowInput \/ SpawnInput \/ Cleanup \/ CleanSession \/ CleanFlags \/ Leave
QuitHandler == QuitWaited \/ QuitMedia \/ QuitDisown \/ QuitDefer \/ QuitWrapUp
Console == Connected \/ Video \/ QuitEvent

Next == UILoop \/ User \/ Worker \/ QuitHandler \/ Console \/ InputExits \/ CooldownOver

\* Every thread runs on, and a session that was asked to stop quits (Session.tla).
Fairness ==
    /\ WF_vars(LoopTop \/ DrainJoins \/ DrainFini \/ CancelOverlay \/ CancelWaited \/ Frame)
    /\ WF_vars(Worker) /\ WF_vars(QuitHandler) /\ WF_vars(InputExits)
    /\ WF_vars(On("stop_requested") /\ QuitEvent)

Spec == Init /\ [][Next]_vars /\ Fairness

-----------------------------------------------------------------------------
(* Properties *)

TypeOK ==
    /\ ui \in {"top", "screen", "join session", "join input", "fini", "cancel", "wait worker"}
    /\ worker \in {"none", "enter", "pending", "join session", "join input", "fini", "check",
                   "init", "suspend", "own", "media", "start", "input", "spawn", "cleanup",
                   "clean session", "clean flags", "leave"}
    /\ quit \in {"none", "wait worker", "media", "disown", "defer", "wrap up"}
    /\ session \in {"free", "inited", "running", "ended"}
    /\ input \in {"none", "running", "ended"}
    /\ flags \subseteq Flags /\ discovery \in BOOLEAN

\* A session is not initialised over one that is still there ("a rapid reconnect could
\* overwrite the session struct while the old session thread is still running",
\* host.c, 173-176): the checks at 178 and 183 see to it.
NeverOverwritten == "overwritten" \notin faults

\* A session is finalised once, by one of the three places that may do it, and only when
\* neither its own thread nor the input thread uses it any more
\* (host_lifecycle.c, 31-90; host.c, 434-458; host_quit.c, 61-77).
FinalisedOnce == "finalised" \notin faults

\* When no stream is left the discovery is as it was before
\* (host.c, 186-187, 378-382; host_lifecycle.c, 92-98).
DiscoveryRestored ==
    session = "free" /\ worker = "none" /\ quit = "none" => discovery = wanted

\* A session that has quit is finalised: no join waits for ever, since no worker lets the
\* input thread run again after the quit handler told it to end (host_quit.c, 44, 63;
\* host.c, 426; ui.c, 496-498).
QuitIsFinalised == On("finalize_pending") ~> ~On("finalize_pending")

\* A stop that found a session ends it (host.c, 123-141).
StopEndsStream == On("stop_requested") ~> session = "free"
=============================================================================
