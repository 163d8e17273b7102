------------------------------ MODULE Senkusha ------------------------------
(***************************************************************************)
(* The measurement of the connection before a stream: lib/src/senkusha.c.  *)
(* The session thread asks and waits, one question at a time; the thread   *)
(* of takion hears the answers and takes those the state expects.  Answers *)
(* are lost, late, repeated or in another order; a ping or an answer that  *)
(* is too large for the path never arrives.                                *)
(***************************************************************************)
EXTENDS Naturals

CONSTANTS
    Min, Max,       \* the range of the search, 576 and 1454
    Retries,        \* tries per size, 3
    Pings,          \* SENKUSHA_PING_COUNT_DEFAULT
    Paths,          \* (external) the sizes the network may let through
    MaxLost,        \* bound on the answers that are lost or come too late
    Late            \* how many questions later an answer may still arrive

SenkushaAssumption ==
    /\ {Min, Max, Retries, Pings, MaxLost, Late} \subseteq Nat /\ 0 < Min /\ Min + 1 < Max
    /\ Paths \subseteq {n \in Nat : n >= Min}

VARIABLES
    phase,      \* where chiaki_senkusha_run is
    state,      \* senkusha->state, with the kind of answer it expects, or idle
    finished,   \* senkusha->state_finished
    tag,        \* the number of the question asked last: sequence number, ping tag, mtu_id
    probe,      \* the bracket of a search: min, max, the size tried and the attempt
    pongs,      \* pings sent and answered
    mtu,        \* *mtu_in and *mtu_out, 0 before they are set
    err,        \* what the run returns
    net,        \* (external) answers on their way
    path,       \* (external) what the network lets through, in and out
    lost        \* answers that were lost or late

vars == <<phase, state, finished, tag, probe, pongs, mtu, err, net, path, lost>>

Phases == <<"connect", "version", "big", "echoOn", "ping", "echoOff", "mtuIn", "clientMtu",
            "mtuOut", "clientEnd">>
Expects == [p \in {Phases[i] : i \in 1..10} |->
    CASE p = "connect" -> "connected" [] p = "version" -> "protocolAck" [] p = "big" -> "bang"
      [] p \in {"ping", "mtuOut"} -> "pong" [] p = "mtuIn" -> "mtu"
      [] p = "clientMtu" -> "clientMtuCommand" [] OTHER -> "dataAck"]
After(p) == Phases[(CHOOSE i \in 1..9 : Phases[i] = p) + 1]

NoProbe == [min |-> Min, max |-> Max, cur |-> Min, attempt |-> 0]
Searching == phase \in {"mtuIn", "mtuOut"}

Init ==
    /\ phase = "connect" /\ state = "idle" /\ finished = FALSE /\ tag = 0 /\ lost = 0
    /\ probe = NoProbe /\ pongs = [sent |-> 0, ok |-> 0] /\ mtu = [in |-> 0, out |-> 0]
    /\ err = "none" /\ net = {} /\ path \in [in : Paths, out : Paths]

-----------------------------------------------------------------------------
(* The session thread.                                                      *)

\* What the console answers reaches the Vita if it fits.
Fits == CASE phase = "mtuIn" -> probe.cur <= path.in
          [] phase = "mtuOut" -> probe.cur <= path.out
          [] OTHER -> TRUE

\* State, question and a new wait.  All of it happens with the mutex held.
Ask ==
    /\ phase \in DOMAIN Expects /\ state = "idle"
    /\ Searching => probe.max - probe.min > 1
    /\ state' = Expects[phase] /\ finished' = FALSE /\ tag' = tag + 1
    /\ \E answered \in BOOLEAN :
          /\ answered => Fits
          /\ net' = {a \in net : a.tag + Late > tag} \cup
                    (IF answered THEN {[kind |-> Expects[phase], tag |-> tag + 1]} ELSE {})
          /\ lost' = IF answered \/ ~Fits THEN lost ELSE lost + 1
    /\ lost' <= MaxLost
    /\ UNCHANGED <<phase, probe, pongs, mtu, err, path>>

\* The next phase; a search begins with its brackets, inbound at its upper end and outbound
\* at the size that came in.
Goes(to) ==
    /\ phase' = to
    /\ probe' = CASE to = "mtuIn" -> [NoProbe EXCEPT !.cur = Max]
                  [] to = "mtuOut" -> [NoProbe EXCEPT !.cur = mtu.in]
                  [] OTHER -> probe

Fails(e) == /\ err' = e /\ Goes(IF phase \in {"connect", "version", "big"} THEN "closed" ELSE "disconnect")

\* The next size of senkusha_run_mtu_in_test and senkusha_run_mtu_out_test.
Narrowed(success) ==
    LET lo == IF success THEN probe.cur ELSE probe.min
        hi == IF success THEN probe.max ELSE probe.cur
    IN [min |-> lo, max |-> hi, cur |-> lo + (hi - lo) \div 2, attempt |-> 0]

\* The wait has ended, with the answer or by its time-out.
WaitEnds ==
    /\ state # "idle" /\ state' = "idle"
    /\ finished \/ lost < MaxLost \/ net = {} \/ \A a \in net : a.tag # tag
    /\ lost' = IF ~finished /\ (\E a \in net : a.tag = tag) THEN lost + 1 ELSE lost
    /\ CASE Searching ->
              /\ probe' = IF finished \/ probe.attempt + 1 = Retries THEN Narrowed(finished)
                          ELSE [probe EXCEPT !.attempt = @ + 1]
              /\ UNCHANGED <<phase, pongs, mtu, err>>
         [] phase = "ping" ->
              /\ pongs' = [sent |-> pongs.sent + 1, ok |-> pongs.ok + (IF finished THEN 1 ELSE 0)]
              /\ Goes(IF pongs.sent + 1 = Pings THEN "echoOff" ELSE "ping")
              /\ UNCHANGED <<mtu, err>>
         [] OTHER ->
              /\ IF ~finished THEN Fails("timeout")
                 ELSE IF phase = "echoOff" /\ pongs.ok = 0 THEN Fails("unknown")
                 ELSE IF phase = "clientEnd" THEN err' = "success" /\ Goes("disconnect")
                 ELSE Goes(After(phase)) /\ UNCHANGED err
              /\ UNCHANGED <<pongs, mtu>>
    /\ UNCHANGED <<finished, tag, net, path>>

SearchEnds ==
    /\ Searching /\ state = "idle" /\ probe.max - probe.min <= 1
    /\ mtu' = IF phase = "mtuIn" THEN [mtu EXCEPT !.in = probe.min] ELSE [mtu EXCEPT !.out = probe.min]
    /\ phase' = After(phase) /\ UNCHANGED probe
    /\ UNCHANGED <<state, finished, tag, pongs, err, net, path, lost>>

\* senkusha_send_disconnect and chiaki_takion_close.
Disconnect ==
    /\ phase = "disconnect" /\ phase' = "closed"
    /\ UNCHANGED <<state, finished, tag, probe, pongs, mtu, err, net, path, lost>>

-----------------------------------------------------------------------------
(* The thread of takion.                                                    *)

\* senkusha_takion_cb and what it calls: pings and MTU answers are told by their tag, an
\* acknowledgement by its sequence number.
TakenByKind(a) == state = a.kind
Taken(a) == state = a.kind /\ (a.kind \in {"pong", "mtu", "dataAck"} => a.tag = tag)

Arrives ==
    \E a \in net :
        /\ phase # "closed"
        /\ net' \in {net, net \ {a}}
        /\ finished' = (finished \/ Taken(a))
        /\ net' # net \/ finished' # finished
        /\ UNCHANGED <<phase, state, tag, probe, pongs, mtu, err, path, lost>>

Next == Ask \/ WaitEnds \/ SearchEnds \/ Disconnect \/ Arrives

Spec == Init /\ [][Next]_vars

-----------------------------------------------------------------------------
\* The measurement keeps its types.
TypeOK ==
    /\ phase \in DOMAIN Expects \cup {"disconnect", "closed"} /\ finished \in BOOLEAN
    /\ state \in {Expects[p] : p \in DOMAIN Expects} \cup {"idle"}
    /\ probe.min <= probe.cur /\ probe.cur <= probe.max /\ probe.attempt < Retries
    /\ pongs.ok <= pongs.sent /\ pongs.sent <= Pings
    /\ err \in {"none", "timeout", "unknown", "success"}

\* The sizes the session goes on with pass through the network, though answers to earlier,
\* smaller probes keep coming; a lossless search finds the largest one of its range, where
\* the outbound one takes its upper end for too large unless that size came in (senkusha.c, 391-613, 739-803).
Least(m, n) == IF m < n THEN m ELSE n
MtuIsTrue ==
    /\ mtu.in <= path.in /\ mtu.out <= path.out
    /\ lost = 0 => /\ mtu.in # 0 => mtu.in = Least(path.in, Max)
                   /\ mtu.out # 0 => mtu.out = Least(path.out, IF mtu.in = Max THEN Max ELSE Max - 1)
=============================================================================
