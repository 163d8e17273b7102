------------------------------- MODULE PsnAuth -------------------------------
(***************************************************************************)
(* The PSN account on the Vita: vita/src/psn_auth.c, the Profile screen    *)
(* that signs in and out (ui/ui_screens.c), the loop that keeps the tokens *)
(* fresh and saves them (ui.c), and the connection thread that renews them *)
(* before a stream (host.c).                                               *)
(*                                                                         *)
(* Tokens are numbered in the order the servers give them out; a refresh   *)
(* token is good until the servers have given out another.  A request of   *)
(* the UI thread blocks it and is one step; the connection thread posts    *)
(* and hears in two, with the UI running in between behind its overlay.    *)
(* To save is to write the file and then to clear config_persist_pending,  *)
(* in two steps as well; a write does not fail.  The power may go at any   *)
(* time.                                                                   *)
(***************************************************************************)
EXTENDS Naturals

CONSTANTS
    MaxToken,       \* bound on the refresh tokens the servers give out
    Racing          \* the connection thread may renew a token during a save

PsnAuthAssumption == MaxToken \in Nat \ {0} /\ Racing \in BOOLEAN

VARIABLES
    state,      \* g_psn_auth.state
    login,      \* is there a verification URL: clear_device_flow_fields takes it away
    tokens,     \* the access token (none, stale, valid), the refresh token (0 is none), the NPSSO
    pending,    \* context.config_persist_pending
    file,       \* the tokens of the configuration file
    saving,     \* is the UI thread between writing the file and clearing pending
    dialog,     \* the input dialog on the screen: none, for the code, for the NPSSO
    worker,     \* the connection thread: idle, or the refresh token it has posted
    streaming,  \* context.stream.is_streaming
    server,     \* (external) the refresh token the servers know
    wanted      \* (history) is the user signing in by the browser

vars == <<state, login, tokens, pending, file, saving, dialog, worker, streaming, server, wanted>>

States == {"LOGGED_OUT", "TOKEN_VALID", "TOKEN_REFRESHING", "DEVICE_LOGIN_PENDING", "ERROR"}
NoTokens == [access |-> "none", refresh |-> 0, npsso |-> "none"]

Init ==
    /\ state = "LOGGED_OUT" /\ login = FALSE /\ pending = FALSE /\ wanted = FALSE
    /\ tokens = NoTokens /\ file = NoTokens
    /\ saving = FALSE /\ dialog = "none" /\ worker = 0 /\ streaming = FALSE /\ server = 0

HasTokens == tokens.access # "none" /\ tokens.refresh # 0
TokenIsValid == tokens.access = "valid"
LoginActive == state = "DEVICE_LOGIN_PENDING"

-----------------------------------------------------------------------------
(* What the functions of psn_auth.c do to the runtime r, a record of the    *)
(* state, the login, the tokens, the pending flag and the servers.          *)

Now == [state |-> state, login |-> login, tokens |-> tokens, pending |-> pending, server |-> server]
Becomes(r) ==
    /\ state' = r.state /\ login' = r.login /\ tokens' = r.tokens
    /\ pending' = r.pending /\ server' = r.server

SetError(r) == [r EXCEPT !.state = "ERROR"]

\* apply_token_response: without a refresh token in it the old one stays.
ApplyQuietly(r, refresh) ==
    [r EXCEPT !.state = "TOKEN_VALID", !.login = FALSE,
              !.tokens.access = "valid", !.tokens.refresh = refresh]
Apply(r, refresh) ==
    [r EXCEPT !.state = "TOKEN_VALID", !.login = FALSE, !.pending = TRUE,
              !.tokens.access = "valid", !.tokens.refresh = refresh]

\* An exchange that succeeds: a new refresh token, or none in the answer.
Granted(r) ==
    (IF r.server < MaxToken THEN {Apply([r EXCEPT !.server = @ + 1], r.server + 1)} ELSE {})
    \cup {Apply(r, r.tokens.refresh)}

\* psn_auth_login_with_npsso.  A request that does not get through sets no error.  The
\* credential is stored by freeing the old string first, which is the new one in a
\* recovery: what it then copies is any text.
LoginWithNpsso(r, npsso, recovering) ==
    {r, SetError(r)} \cup
    (IF npsso = "lost" THEN {}
     ELSE {[g EXCEPT !.tokens.npsso = kept] :
              g \in Granted(r), kept \in {"good"} \cup (IF recovering THEN {"lost"} ELSE {})})

RecoveredQuietly(r) == LoginWithNpsso(r, r.tokens.npsso, TRUE)
Recovered(r) ==
    {IF g.state = "TOKEN_VALID" THEN g ELSE SetError(g) : g \in LoginWithNpsso(r, r.tokens.npsso, TRUE)}

\* psn_auth_refresh_token_if_needed, past its early returns, with the token it posts: no
\* answer, an error, a rejection that the NPSSO may heal, a grant if the servers know it.
Refresh(r, posted) ==
    {SetError(r)}
    \cup (IF r.tokens.npsso # "none"
            THEN Recovered([r EXCEPT !.state = "TOKEN_REFRESHING"])
            ELSE {})
    \cup (IF posted = r.server THEN Granted(r) ELSE {})
RefreshIfNeeded(r, force) ==
    IF r.tokens.refresh = 0 \/ (~force /\ r.tokens.access = "valid") THEN {r}
    ELSE Refresh(r, r.tokens.refresh)

\* psn_auth_begin_device_login.
BeginDeviceLogin(r) == {[r EXCEPT !.state = "DEVICE_LOGIN_PENDING", !.login = TRUE], SetError(r)}
CancelDeviceLogin(r) ==
    [r EXCEPT !.login = FALSE,
              !.state = IF r.tokens.access = "valid" THEN "TOKEN_VALID" ELSE "LOGGED_OUT"]

-----------------------------------------------------------------------------
(* The loop of the UI thread, draw_ui.                                      *)

Idle == ~saving /\ ~streaming

PersistBegins ==
    /\ Idle /\ pending
    /\ file' = tokens /\ saving' = TRUE
    /\ UNCHANGED <<state, login, tokens, pending, dialog, worker, streaming, server, wanted>>
PersistEnds ==
    /\ saving /\ pending' = FALSE /\ saving' = FALSE
    /\ UNCHANGED <<state, login, tokens, file, dialog, worker, streaming, server, wanted>>

\* Once a minute, while nothing streams.
IdleRefresh ==
    /\ Idle
    /\ \E r \in RefreshIfNeeded(Now, FALSE) : Becomes(r)
    /\ UNCHANGED <<file, saving, dialog, worker, streaming, wanted>>

\* psn_auth_on_network_change.
NetworkChange ==
    /\ Idle /\ HasTokens
    /\ \E r \in RefreshIfNeeded(Now, TRUE) : Becomes(r)
    /\ UNCHANGED <<file, saving, dialog, worker, streaming, wanted>>

-----------------------------------------------------------------------------
(* The Profile screen, out of reach while a connection has its overlay up.  *)

OnProfile == Idle /\ dialog = "none" /\ worker = 0

\* X on the card opens the dialog of a login under way, renews the tokens, or begins one.
CrossPastes ==
    /\ OnProfile /\ LoginActive
    /\ dialog' = "code"
    /\ UNCHANGED <<state, login, tokens, pending, file, saving, worker, streaming, server, wanted>>
CrossSignsIn ==
    /\ OnProfile /\ ~LoginActive /\ ~TokenIsValid
    /\ \E r \in RefreshIfNeeded(Now, FALSE) :
          IF r.tokens.access = "valid" THEN Becomes(r) /\ UNCHANGED wanted
          ELSE \E b \in BeginDeviceLogin(r) : Becomes(b) /\ wanted' = (b.state = "DEVICE_LOGIN_PENDING")
    /\ UNCHANGED <<file, saving, dialog, worker, streaming>>
\* psn_remote_refresh_hosts saves the consoles it has found and the tokens with them.
CrossRefreshesHosts ==
    /\ OnProfile /\ ~LoginActive /\ TokenIsValid
    /\ file' \in {file, tokens}
    /\ UNCHANGED <<state, login, tokens, pending, saving, dialog, worker, streaming, server, wanted>>

\* poll_psn_auth_code_ime and psn_auth_submit_authorization_response.  A code the servers
\* reject leaves the login as it is, what cannot be parsed or sent ends it.
SubmitCode ==
    /\ Idle /\ dialog = "code" /\ dialog' = "none" /\ wanted' = FALSE
    /\ IF ~LoginActive THEN Becomes(SetError(Now)) /\ UNCHANGED file
       ELSE \/ \E r \in {Now, SetError(Now)} : Becomes(r) /\ UNCHANGED file
            \/ \E r \in Granted(Now) : Becomes(r) /\ file' = r.tokens
    /\ UNCHANGED <<saving, worker, streaming>>

\* poll_psn_npsso_ime, which ends a login by the browser when it opens.
OpenNpsso ==
    /\ OnProfile
    /\ dialog' = "npsso" /\ wanted' = FALSE
    /\ IF LoginActive THEN Becomes(CancelDeviceLogin(Now)) ELSE Becomes(Now)
    /\ UNCHANGED <<file, saving, worker, streaming>>
EnterNpsso ==
    /\ Idle /\ dialog = "npsso" /\ dialog' = "none"
    /\ \E r \in LoginWithNpsso(Now, "good", FALSE) :
          Becomes(r) /\ (IF r.pending /\ r.tokens.npsso = "good" THEN file' = r.tokens ELSE UNCHANGED file)
    /\ UNCHANGED <<saving, worker, streaming, wanted>>
DialogCancelled ==
    /\ Idle /\ dialog # "none" /\ dialog' = "none"
    /\ UNCHANGED <<state, login, tokens, pending, file, saving, worker, streaming, server, wanted>>

CancelLogin ==
    /\ OnProfile /\ LoginActive
    /\ Becomes(CancelDeviceLogin(Now)) /\ wanted' = FALSE
    /\ UNCHANGED <<file, saving, dialog, worker, streaming>>

\* execute_psn_logout, offered while the token is valid.  The NPSSO stays.
Logout ==
    /\ OnProfile /\ TokenIsValid
    /\ LET gone == [tokens EXCEPT !.access = "none", !.refresh = 0] IN
       Becomes(CancelDeviceLogin([Now EXCEPT !.tokens = gone])) /\ file' = gone
    /\ wanted' = FALSE
    /\ UNCHANGED <<saving, dialog, worker, streaming>>

-----------------------------------------------------------------------------
(* The connection thread: host_stream renews the tokens of a PSN host.      *)

WorkerPosts ==
    /\ worker = 0 /\ ~streaming /\ dialog = "none"
    /\ HasTokens /\ ~TokenIsValid
    /\ worker' = tokens.refresh /\ state' = "TOKEN_REFRESHING"
    /\ UNCHANGED <<login, tokens, pending, file, saving, dialog, streaming, server, wanted>>
WorkerHears ==
    /\ worker # 0 /\ worker' = 0
    /\ Racing \/ ~saving
    /\ \E r \in Refresh(Now, worker) : Becomes(r)
    /\ UNCHANGED <<file, saving, dialog, streaming, wanted>>

StreamStarts ==
    /\ ~streaming /\ worker = 0 /\ TokenIsValid /\ dialog = "none"
    /\ streaming' = TRUE
    /\ UNCHANGED <<state, login, tokens, pending, file, saving, dialog, worker, server, wanted>>
StreamEnds ==
    /\ streaming /\ streaming' = FALSE
    /\ UNCHANGED <<state, login, tokens, pending, file, saving, dialog, worker, server, wanted>>

-----------------------------------------------------------------------------
(* Time and power.                                                          *)

Expires ==
    /\ TokenIsValid /\ tokens' = [tokens EXCEPT !.access = "stale"]
    /\ UNCHANGED <<state, login, pending, file, saving, dialog, worker, streaming, server, wanted>>

\* The servers forget a login.
Revoked ==
    /\ server # 0 /\ server' = 0
    /\ UNCHANGED <<state, login, tokens, pending, file, saving, dialog, worker, streaming, wanted>>

PowerCycle ==
    /\ state' = "LOGGED_OUT" /\ login' = FALSE /\ pending' = FALSE /\ wanted' = FALSE
    /\ tokens' \in {file, [file EXCEPT !.access = IF @ = "valid" THEN "stale" ELSE @]}
    /\ saving' = FALSE /\ dialog' = "none" /\ worker' = 0 /\ streaming' = FALSE
    /\ UNCHANGED <<file, server>>

Next == \/ PersistBegins \/ PersistEnds \/ IdleRefresh \/ NetworkChange \/ CrossPastes \/ CrossSignsIn
        \/ CrossRefreshesHosts
        \/ SubmitCode \/ OpenNpsso \/ EnterNpsso \/ DialogCancelled \/ CancelLogin \/ Logout
        \/ WorkerPosts \/ WorkerHears \/ StreamStarts \/ StreamEnds \/ Expires \/ Revoked \/ PowerCycle

Spec == Init /\ [][Next]_vars

-----------------------------------------------------------------------------
\* The account keeps its types.
TypeOK ==
    /\ state \in States /\ {login, pending, saving, streaming, wanted} \subseteq BOOLEAN
    /\ {tokens, file} \subseteq [access : {"none", "stale", "valid"}, refresh : 0..MaxToken,
                               npsso : {"none", "good", "lost"}]
    /\ dialog \in {"none", "code", "npsso"} /\ {worker, server} \subseteq 0..MaxToken

\* A login that is not in the file is due to be saved, whoever obtained it: with a token
\* that the power cuts off before it is saved the refresh token is lost to the user, for the
\* servers take each one once (psn_auth.c, 1035-1040; ui.c, 496-506).
NothingUnsaved ==
    pending \/ (file.refresh = tokens.refresh /\ file.npsso = tokens.npsso)

\* A refresh is shown as under way only while a thread waits for its answer: the state has
\* no time-out of its own, every path of both threads through the refresh and the recovery
\* must leave it (psn_auth.c, 1390-1462).
RefreshEnds == state = "TOKEN_REFRESHING" => worker # 0

\* What the user has begun in the browser can be finished: README.md, 70-72, "Back on the
\* Vita, press X again on the Connection card and paste the redirect URL".
LoginKept == [][LoginActive /\ wanted => LoginActive' \/ TokenIsValid' \/ ~wanted']_vars
=============================================================================
