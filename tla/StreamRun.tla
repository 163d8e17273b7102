------------------------------ MODULE StreamRun ------------------------------
(***************************************************************************)
(* What a stream connection promises to the session that runs it:          *)
(* chiaki_stream_connection_run returns after a stop or after the remote   *)
(* has disconnected, and its result says which of them it was.  A stop     *)
(* stays in force for every later run.                                     *)
(***************************************************************************)

VARIABLES
    running,    \* between the call of run and its return
    stopped,    \* stop was called
    gone,       \* the remote has disconnected
    outcome     \* what the last run returned, "none" before and during a run

vars == <<running, stopped, gone, outcome>>

Failures == {"UNKNOWN", "TIMEOUT"}
Outcomes == Failures \cup {"SUCCESS", "CANCELED", "DISCONNECTED"}

TypeOK ==
    /\ {running, stopped, gone} \subseteq BOOLEAN
    /\ outcome \in Outcomes \cup {"none"}

Init ==
    /\ running = FALSE /\ stopped = FALSE /\ gone = FALSE
    /\ outcome = "none"

Begin ==
    /\ ~running
    /\ running' = TRUE
    /\ outcome' = "none"
    /\ UNCHANGED <<stopped, gone>>

\* Nothing was started.
FailAtOnce ==
    /\ ~running
    /\ outcome' = "UNKNOWN"
    /\ UNCHANGED <<running, stopped, gone>>

Return ==
    /\ running
    /\ running' = FALSE
    /\ \/ outcome' \in Failures
       \/ stopped /\ outcome' \in {"SUCCESS", "CANCELED"}
       \/ gone /\ outcome' = "DISCONNECTED"
    /\ UNCHANGED <<stopped, gone>>

Stop ==
    /\ stopped' = TRUE
    /\ UNCHANGED <<running, gone, outcome>>

RemoteDisconnects ==
    /\ running
    /\ gone' = TRUE
    /\ UNCHANGED <<running, stopped, outcome>>

Next == Begin \/ FailAtOnce \/ Return \/ Stop \/ RemoteDisconnects

\* A run that has a reason to end ends.
Due == stopped \/ gone

SafeSpec == Init /\ [][Next]_vars

Spec == SafeSpec /\ WF_vars(Due /\ Return)
=============================================================================
