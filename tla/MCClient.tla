------------------------------ MODULE MCClient ------------------------------
(***************************************************************************)
(* The parts of the client that show a stream, take the player's input and *)
(* keep the consoles, the account and the settings, on one bench: the      *)
(* initial state chooses which of them runs, the others stay as they were  *)
(* initialised.  Every component is explored with all of its own           *)
(* interleavings, exactly as if it were alone.                             *)
(***************************************************************************)
EXTENDS Naturals

CONSTANTS VideoModulus, VideoSource, VideoFec, Refs, MaxDistance, ForceSpan, SkipThreshold,
          IdrTimeout, MaxSkipped, MaxFrames
CONSTANTS AudioModulus, AudioSource, AudioFec, Reach
CONSTANTS DeviceBuffers, BlockFrames
CONSTANTS Target, Sources, MaxFailures
CONSTANTS Unrecovered, GateSpan, MaxReconnects, Cooldown, LowSpan, MaxLost
CONSTANTS Fingers, Positions, Mapped, Touches, Ids, TapMove, Pulse, ComboLoops
CONSTANTS MaxDepth, DebugMenuEnabled, Rapid
CONSTANTS Consoles, Registered, Manual, Devices, Home, Slots, DropPings, Grace, Roaming
CONSTANTS MaxToken, Racing
CONSTANTS Owned, MaxRegistered

\* A patient and an eager loss profile.
MCProfiles == {
    [window |-> 2, minFrames |-> 1, events |-> 2, frames |-> 3, burstWindow |-> 1, burst |-> 3],
    [window |-> 2, minFrames |-> 2, events |-> 1, frames |-> 2, burstWindow |-> 1, burst |-> 2]}

VARIABLE bench      \* the component that runs
VARIABLES rx, owed, delivered, wrong, untried, frames
VARIABLES sent, prev, startup, last, mic
VARIABLES deviceReady, buffer, writeOffset, deviceOffset, framediff, count, played
VARIABLES status, held, leaked, failures, active, ready, pace, source, dropped
VARIABLES loss, restart, low, measured, lost, requests, lowFor
VARIABLES fingers, slots, touches, idNext, pulse, hold, gate, stop, origin, dragged
VARIABLES screen, focus, owners, up, stage, pin, asleep, forced, worker, session, stopping,
          popping, waiting, chosen, route
VARIABLES lan, service, table, heap, activeHost
VARIABLES state, login, tokens, pending, savedTokens, saving, dialog, renewing, streaming,
          server, wanted
VARIABLES cfg, file, job, written, failing, short, owned

V == INSTANCE VideoReceiver WITH Modulus <- VideoModulus, Source <- VideoSource, Fec <-
        VideoFec
A == INSTANCE AudioReceiver WITH Modulus <- AudioModulus, Source <- AudioSource, Fec <-
        AudioFec
O == INSTANCE AudioOutput WITH ready <- deviceReady
D == INSTANCE VideoOutput
R == INSTANCE LossRecovery WITH Profiles <- MCProfiles
I == INSTANCE VitaInput
U == INSTANCE Screens
H == INSTANCE HostTable WITH active <- activeHost
P == INSTANCE PsnAuth WITH file <- savedTokens, worker <- renewing
C == INSTANCE ConfigFile WITH Consoles <- Owned

ASSUME MCClientAssumption ==
    /\ V!ModulusAssumption /\ A!ModulusAssumption
    /\ V!VideoAssumption /\ A!AudioAssumption /\ O!OutputAssumption /\ D!OutputAssumption
    /\ R!RecoveryAssumption /\ I!InputAssumption /\ U!ScreensAssumption
    /\ H!HostTableAssumption /\ P!PsnAuthAssumption /\ C!ConfigAssumption

videoVars == <<rx, owed, delivered, wrong, untried, frames>>
audioVars == <<sent, prev, startup, last, mic>>
soundVars == <<deviceReady, buffer, writeOffset, deviceOffset, framediff, count, played>>
pictureVars == <<status, held, leaked, failures, active, ready, pace, source, dropped>>
recoveryVars == <<loss, restart, low, measured, lost, requests, lowFor>>
padVars == <<fingers, slots, touches, idNext, pulse, hold, gate, stop, origin, dragged>>
screenVars == <<screen, focus, owners, up, stage, pin, asleep, forced, worker, session,
    stopping, popping, waiting, chosen, route>>
hostVars == <<lan, service, table, heap, activeHost>>
accountVars == <<state, login, tokens, pending, savedTokens, saving, dialog, renewing,
    streaming, server, wanted>>
configVars == <<cfg, file, job, written, failing, short, owned>>
vars == <<bench, videoVars, audioVars, soundVars, pictureVars, recoveryVars, padVars,
    screenVars, hostVars, accountVars, configVars>>

Init ==
    /\ bench \in {"video", "audio", "sound", "picture", "recovery", "pads", "screens", "hosts", "account", "config"}
    /\ V!Init /\ A!Init /\ O!Init /\ D!Init /\ R!Init /\ I!Init /\ U!Init /\ H!Init /\ P!Init /\ C!Init
    /\ bench # "video" => rx = V!Fresh
    /\ bench # "picture" => source = CHOOSE s \in Sources : TRUE
    /\ bench # "screens" => ~asleep
    /\ bench # "config" => file = C!SavedByNow

Video ==
    /\ bench = "video" /\ V!Next
    /\ UNCHANGED <<bench, audioVars, soundVars, pictureVars, recoveryVars, padVars,
        screenVars, hostVars, accountVars, configVars>>

Audio ==
    /\ bench = "audio" /\ A!Next
    /\ UNCHANGED <<bench, videoVars, soundVars, pictureVars, recoveryVars, padVars,
        screenVars, hostVars, accountVars, configVars>>

Sound ==
    /\ bench = "sound" /\ O!Next
    /\ UNCHANGED <<bench, videoVars, audioVars, pictureVars, recoveryVars, padVars,
        screenVars, hostVars, accountVars, configVars>>

Picture ==
    /\ bench = "picture" /\ D!Next
    /\ UNCHANGED <<bench, videoVars, audioVars, soundVars, recoveryVars, padVars,
        screenVars, hostVars, accountVars, configVars>>

Recovery ==
    /\ bench = "recovery" /\ R!Next
    /\ UNCHANGED <<bench, videoVars, audioVars, soundVars, pictureVars, padVars, screenVars,
        hostVars, accountVars, configVars>>

Pads ==
    /\ bench = "pads" /\ I!Next
    /\ UNCHANGED <<bench, videoVars, audioVars, soundVars, pictureVars, recoveryVars,
        screenVars, hostVars, accountVars, configVars>>

Screens ==
    /\ bench = "screens" /\ U!Next
    /\ UNCHANGED <<bench, videoVars, audioVars, soundVars, pictureVars, recoveryVars,
        padVars, hostVars, accountVars, configVars>>

Hosts ==
    /\ bench = "hosts" /\ H!Next
    /\ UNCHANGED <<bench, videoVars, audioVars, soundVars, pictureVars, recoveryVars,
        padVars, screenVars, accountVars, configVars>>

Account ==
    /\ bench = "account" /\ P!Next
    /\ UNCHANGED <<bench, videoVars, audioVars, soundVars, pictureVars, recoveryVars,
        padVars, screenVars, hostVars, configVars>>

Config ==
    /\ bench = "config" /\ C!Next
    /\ UNCHANGED <<bench, videoVars, audioVars, soundVars, pictureVars, recoveryVars,
        padVars, screenVars, hostVars, accountVars>>

Next == Video \/ Audio \/ Sound \/ Picture \/ Recovery \/ Pads \/ Screens \/ Hosts \/ Account \/ Config

Spec == Init /\ [][Next]_vars

-----------------------------------------------------------------------------
\* Every component keeps its types.
TypeOK ==
    CASE bench = "video" -> V!TypeOK
      [] bench = "audio" -> A!TypeOK
      [] bench = "sound" -> O!TypeOK
      [] bench = "picture" -> D!TypeOK
      [] bench = "recovery" -> R!TypeOK
      [] bench = "pads" -> I!TypeOK
      [] bench = "screens" -> U!TypeOK
      [] bench = "hosts" -> H!TypeOK
      [] bench = "account" -> P!TypeOK
      [] bench = "config" -> C!TypeOK

\* Of the frames the console sends, each one that does not reach the decoder is reported
\* or due to be, none is reported that did, and too many in a row are never lost without
\* an attempt to get an IDR frame (videoreceiver.c, 71-160, 239-520).
LossesReported == bench = "video" => V!LossesReported /\ V!ReportsTruthful /\ V!PressureKept

\* The host answers the losses it hears of with a request for a key frame, however they
\* fall into its windows, and its restarts are few and far between
\* (host_feedback.c, 54-199; host_recovery.c, 30-144).
LossesAnswered == bench = "recovery" => R!LossAnswered /\ R!NoRestartStorm

\* Sound is played in the order of its recording and in whole blocks, none twice
\* (audioreceiver.c, 51-127; vita/src/audio.c, 51-193).
SoundInOrder ==
    /\ bench = "audio" => A!PlayedInOrder
    /\ bench = "sound" => O!InStep /\ O!BlocksWhole

\* The picture keeps moving at every measured rate, and between the streams the decoder is
\* given back (vita/src/video.c, 92-144, 230-443).
PictureMoves == bench = "picture" => D!PictureMoves /\ D!DecoderReturned

\* The console sees the player's fingers where they are, and a tap only where one was
\* (host_input.c, 344-412).
TouchesAreTrue == bench = "pads" => I!TouchesFollowFingers /\ I!TapsAreStill

\* Whatever comes and goes over the screens on four threads, the cards get the buttons
\* back, a connection can be left, and one over the Internet stays one
\* (ui/ui_focus.c, 69-95; ui/ui_state.c, 96-206; ui/ui_screens.c, 757-816).
ScreensKeepFocus ==
    bench = "screens" => U!NoOrphanModal /\ U!OverlayHasExit /\ U!InternetNotLost

\* Of three sources, on pings that are missed, devices that come and go and connections in
\* between, the table shows each console once and as itself, and no object of it is lost,
\* or freed while it is used (discovery.c, 19-266; host_storage.c, 149-276;
\* psn_remote.c, 57-204).
HostsSound ==
    bench = "hosts" => H!TableIsSound /\ H!OneCard /\ H!ActiveLives /\ H!SameConsole

\* What the user has set up is kept: a login that is not in the file is due to be saved and
\* no refresh stays under way for good; every file of every version, through migration and
\* cut short anywhere, gives back the user's consoles, setting and login and no stale
\* token (psn_auth.c, 974-1040, 1375-1579; config.c, 156-685; config_hosts.c, 51-285).
AccountKept ==
    /\ bench = "account" => P!NothingUnsaved /\ P!RefreshEnds
    /\ bench = "config" => C!ConfigIsTheUsers /\ C!NoStaleTokens
=============================================================================
