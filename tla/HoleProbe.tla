------------------------------- MODULE HoleProbe -------------------------------
(***************************************************************************)
(* Probing the candidates of the console: check_candidates of              *)
(* lib/src/remote/holepunch.c, and what it ends with,                      *)
(* receive_request_send_response_ps.                                       *)
(*                                                                         *)
(* A request goes to every candidate the console has offered, from the     *)
(* socket of its family, and from a crowd of sockets when the NAT gives    *)
(* ports at random.  Whoever answers first is connected to, and is listened *)
(* to until it is silent for a second.  Datagrams from addresses that were *)
(* not offered make these derived candidates, as long as there is room.    *)
(* An answer may come from another address than the one that was asked.    *)
(*                                                                         *)
(* With CHECK_CANDIDATES_REQUEST_NUMBER = 1 the first answer decides, and  *)
(* the state `connecting' is never entered.                                *)
(***************************************************************************)
EXTENDS Naturals, FiniteSets, Sequences, SequencesExt

CONSTANTS
    Known,          \* how many candidates the console has offered
    Strangers,      \* how many more addresses datagrams come from
    Six,            \* which of all these are of IPv6
    Crowd,          \* RANDOM_ALLOCATION_SOCKS_NUMBER
    Extra,          \* EXTRA_CANDIDATE_ADDRESSES
    Tries,          \* SELECT_CANDIDATE_TRIES
    Datagrams,      \* bound on the datagrams of the console
    SendFails       \* may the request to a derived candidate fail to be sent?

ProbeAssumption ==
    /\ {Known, Strangers, Crowd, Extra, Tries, Datagrams} \subseteq Nat /\ Known > 0 /\ Tries > 0
    /\ Six \subseteq 1..(Known + Strangers) /\ SendFails \in BOOLEAN

VARIABLES
    probe,      \* stage, retries so far, and whether a request was answered
    table,      \* candidates: the known ones, then the derived ones
    open,       \* open sockets: 4, 6, and those of the crowd
    asked,      \* sockets a request has left from
    hole,       \* the socket and the candidate that are selected, and the result
    budget      \* datagrams still to come

vars == <<probe, table, open, asked, hole, budget>>

Addresses == 1..(Known + Strangers)
\* The sockets of the crowd have the numbers from 10.
CrowdSocks == 10..(9 + Crowd)
Main(a) == IF a \in Six THEN 6 ELSE 4
Ears(a) == {Main(a)} \cup (IF a \in Six THEN {} ELSE CrowdSocks)
Derived(a) == a \notin 1..Known
InTable(a) == a \in ToSet(table)
Nobody == [sock |-> 0, to |-> 0]

\* The candidate of the console's outer address, which the crowd asks too.
Static == Known

Init ==
    /\ probe = [at |-> "asking", retries |-> 0, answered |-> FALSE]
    /\ table = [i \in 1..Known |-> i]
    /\ open \in SUBSET {4, 6}
    /\ asked = {}
    /\ hole = [sel |-> Nobody, result |-> "none"]
    /\ budget = Datagrams

\* cleanup_sockets.
Fail ==
    /\ open' = {}
    /\ probe' = [probe EXCEPT !.at = "done"]
    /\ hole' = [hole EXCEPT !.result = "failed"]

-----------------------------------------------------------------------------
\* The requests: `reached' are the candidates they could be sent to.  A family without a
\* socket is passed over.
AskAll ==
    /\ probe.at = "asking"
    /\ \E reached \in SUBSET (1..Known), crowd \in SUBSET CrowdSocks :
        IF reached = {}
          THEN Fail /\ UNCHANGED asked
          ELSE /\ open' = open \cup crowd
               /\ asked' = ({Main(a) : a \in reached} \cap open)
                             \cup (IF Static \in reached \ Six THEN crowd ELSE {})
               /\ probe' = [probe EXCEPT !.at = "listening"] /\ UNCHANGED hole
    /\ UNCHANGED <<table, budget>>

NoSockets ==
    /\ probe.at = "listening" /\ open = {} /\ Fail
    /\ UNCHANGED <<table, asked, budget>>

\* Half a second of silence: everybody in the table is asked again, but not by the crowd.
Silence ==
    /\ probe.at = "listening" /\ open # {}
    /\ \/ /\ probe.retries < Tries
          /\ probe' = [probe EXCEPT !.retries = @ + 1]
          /\ \E reached \in SUBSET ToSet(table) :
                 asked' = asked \cup ({Main(a) : a \in reached} \cap open)
          /\ UNCHANGED <<open, hole>>
       \/ probe.retries >= Tries /\ Fail /\ UNCHANGED asked
    /\ UNCHANGED <<table, budget>>

\* Faulty variant: one entry more than the arrays have.
RoomForOneMore == Len(table) <= Known + Extra
Room == Len(table) < Known + Extra
\* Whoever speaks is in the table; whoever finds no room is not heard.
Enter(a) == table' = IF InTable(a) THEN table ELSE Append(table, a)

Heard(s, a) ==
    /\ probe.at = "listening" /\ s \in open /\ s \in Ears(a) /\ budget > 0
    /\ budget' = budget - 1
    /\ InTable(a) \/ Room

\* A request is answered, and answered with another when the candidate is new to us.
GotRequest(s, a) ==
    /\ Heard(s, a) /\ Enter(a)
    /\ \/ /\ probe' = [probe EXCEPT !.answered = TRUE]
          /\ asked' = asked \cup (IF Crowd > 0 \/ Derived(a) THEN {s} ELSE {})
          /\ UNCHANGED <<open, hole>>
       \/ ~Derived(a) /\ Fail /\ UNCHANGED asked
       \* cleanup_sockets is reached with CHIAKI_ERR_SUCCESS.
       \/ /\ SendFails /\ (Crowd > 0 \/ Derived(a))
          /\ open' = {}
          /\ probe' = [probe EXCEPT !.at = "done", !.answered = TRUE]
          /\ hole' = [hole EXCEPT !.result = "success"] /\ UNCHANGED asked

\* Something else: a wrong size, type or id.
GotOther(s, a, fatal) ==
    /\ Heard(s, a) /\ Enter(a)
    /\ IF fatal /\ ~Derived(a) THEN Fail ELSE UNCHANGED <<probe, open, hole>>
    /\ UNCHANGED asked

\* Faulty variant: the sockets of the other family and of the crowd stay open.
NoneClosed(s) == open

\* What is left of the sockets when s is chosen.
Chosen(s) == {s}

\* The first answer with the id of our request: this one it is, the other sockets are closed.
GotAnswer(s, a) ==
    /\ Heard(s, a) /\ s \in asked /\ Enter(a)
    /\ \/ /\ hole' = [hole EXCEPT !.sel = [sock |-> s, to |-> a]]
          /\ open' = Chosen(s)
          /\ probe' = [probe EXCEPT !.at = "following", !.retries = 0]
       \/ Fail
    /\ UNCHANGED asked

NotHeard(s, a) ==
    /\ probe.at = "listening" /\ s \in open /\ s \in Ears(a) /\ budget > 0
    /\ ~InTable(a) /\ ~Room
    /\ budget' = budget - 1
    /\ UNCHANGED <<probe, table, open, asked, hole>>

\* The TTL of a socket of the crowd cannot be raised.
TtlFails(s) ==
    /\ probe.at = "listening" /\ s \in open \cap CrowdSocks /\ budget > 0 /\ Fail
    /\ budget' = budget - 1
    /\ UNCHANGED <<table, asked>>

-----------------------------------------------------------------------------
\* receive_request_send_response_ps; `retries' counts the requests it has answered.
FollowRequest ==
    /\ probe.at = "following" /\ budget > 0 /\ budget' = budget - 1
    /\ \/ probe' = [probe EXCEPT !.retries = 1] /\ UNCHANGED <<open, hole>>
       \/ Fail
    /\ UNCHANGED <<table, asked>>

\* Late answers are passed over, anything else is the end.
FollowOther ==
    /\ probe.at = "following" /\ budget > 0 /\ budget' = budget - 1
    /\ UNCHANGED <<probe, open, hole>> \/ Fail
    /\ UNCHANGED <<table, asked>>

\* A second of silence.  A hole through which no request came serves if one was answered
\* before, on whichever path.
FollowSilence ==
    /\ probe.at = "following"
    /\ IF probe.retries > 0 \/ probe.answered
         THEN /\ probe' = [probe EXCEPT !.at = "done"]
              /\ hole' = [hole EXCEPT !.result = "success"] /\ UNCHANGED open
         ELSE Fail
    /\ UNCHANGED <<table, asked, budget>>

-----------------------------------------------------------------------------
Probes == AskAll \/ NoSockets \/ Silence \/ FollowSilence
Datagram ==
    \/ \E a \in Addresses : \E s \in Ears(a) :
          \/ GotRequest(s, a) \/ GotAnswer(s, a) \/ NotHeard(s, a)
          \/ \E fatal \in BOOLEAN : GotOther(s, a, fatal)
    \/ \E s \in CrowdSocks : TtlFails(s)
    \/ FollowRequest \/ FollowOther

Next == Probes \/ Datagram

Spec == Init /\ [][Next]_vars /\ WF_vars(Probes)

-----------------------------------------------------------------------------
TypeOK ==
    /\ probe \in [at : {"asking", "listening", "following", "done"}, retries : 0..Tries,
                  answered : BOOLEAN]
    /\ table \in Seq(Addresses)
    /\ open \subseteq {4, 6} \cup CrowdSocks /\ asked \subseteq {4, 6} \cup CrowdSocks
    /\ budget \in 0..Datagrams

\* The arrays of candidates and of addresses have room for every entry, and no address has
\* two of them (holepunch.c, 4505-4508, 4858-4905).
TableFits == Len(table) <= Known + Extra /\ IsInjective(table)

\* A hole that is handed over is one socket, the only one left, from which a request of ours
\* has left and been answered, and a request of the console was answered too; after a
\* failure no socket is left (4947-5078).
HoleIsWhole ==
    /\ hole.result = "success" =>
          /\ open = {hole.sel.sock} /\ hole.sel.sock \in asked
          /\ probe.answered \/ probe.retries > 0
    /\ hole.result = "failed" => open = {}

\* Probing ends, however the datagrams come, as long as there are not endlessly many.
ProbingEnds == probe.at = "asking" ~> probe.at = "done"
=============================================================================
