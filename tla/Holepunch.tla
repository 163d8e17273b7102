------------------------------ MODULE Holepunch ------------------------------
(***************************************************************************)
(* The connection over the Internet: lib/src/remote/holepunch.c and the    *)
(* order vita/src/psn_remote.c and lib/src/session.c call it in.           *)
(*                                                                         *)
(* One thread creates a session on the servers of the PSN, invites the     *)
(* console, exchanges OFFER, ACCEPT and their acknowledgements with it by  *)
(* session messages, and punches a hole for ctrl and one for data.  What   *)
(* the servers say arrives on a websocket: its thread acknowledges offers  *)
(* nobody waits for and puts everything into a queue, from which the first *)
(* thread takes what it waits for and drops what was before it.            *)
(*                                                                         *)
(* The servers and the console are external.  They keep the order of the   *)
(* events and that of the session messages, but not between the two; the   *)
(* console may fall silent at any time.  Nothing in the client cancels an  *)
(* attempt (chiaki_holepunch_main_thread_cancel has no caller), so         *)
(* main_should_stop is never set.  The candidates are in HoleProbe.        *)
(***************************************************************************)
EXTENDS Naturals, Sequences, SequencesExt

CONSTANTS
    Offers,     \* bound on the offers of the console
    Flaws       \* what goes wrong beyond failing calls: a subset of AllFlaws

AllFlaws == {"header",      \* the websocket thread runs out of memory for its headers
             "malformed",   \* a notification lacks what the thread looks for in it
             "stray"}       \* an acknowledgement of something else arrives twice

HolepunchAssumption == Offers \in Nat \ {0} /\ Flaws \subseteq AllFlaws

VARIABLES
    main,       \* where the connecting thread is, and for which port
    push,       \* where the websocket thread is, and the notification it holds
    flags,      \* session->state
    queue,      \* ws_notification_queue
    lock,       \* who holds state_mutex
    socket,     \* ws_open and ws_thread_should_stop
    ids,        \* local_req_id, and the id of our offer
    servers,    \* (external) the session there, and the events on their way to us
    console     \* (external) what it heard from us, what it sent, and what is on its way

vars == <<main, push, flags, queue, lock, socket, ids, servers, console>>

Event(t) == [type |-> t, id |-> 0]
Message(action, id) == [type |-> action, id |-> id]
Messages == {"OFFER", "RESULT", "ACCEPT"}
Pcs == {"create", "opening", "creating", "created", "locked", "preparing", "starting", "started",
        "waitOffer", "answering", "offering", "waitAck", "probing", "accepting", "waitAccept",
        "confirming", "ready", "stream", "deleting", "deleted", "joining", "leaving", "freed"}
Ports == {"ctrl", "data"}
Ended == {"none", "dead"}

Init ==
    /\ main = [pc |-> "create", port |-> "ctrl"]
    /\ push = [at |-> "none", note |-> Event("none")]
    /\ flags = {} /\ queue = <<>> /\ lock = "free"
    /\ socket = [open |-> FALSE, stop |-> FALSE]
    /\ ids = [next |-> 1, ours |-> 0]
    /\ servers = [session |-> "none", events |-> <<>>]
    /\ console = [heard |-> {}, sent |-> 0, accepted |-> FALSE, pending |-> <<>>]

\* The states of the session, and those of a port.
Mark(name) == <<"session", name>>
Flag(name) == <<main.port, name>>

Go(pc) == main' = [main EXCEPT !.pc = pc]

-----------------------------------------------------------------------------
(* Taking from the queue.                                                   *)

\* wait_for_notification: the first of these types, wherever it is.
First(types) == SelectInSeq(queue, LAMBDA n : n.type \in types)
Arrived(types) == First(types) # 0

\* clear_notification: it and everything before it.
Cleared(i) == SubSeq(queue, i + 1, Len(queue))

\* wait_for_session_message drops the messages it did not wait for.
SkipMessage(action) ==
    /\ Arrived(Messages \ {action})
    /\ ~Arrived({action}) \/ First(Messages \ {action}) < First({action})
    /\ queue' = Cleared(First(Messages \ {action}))
MessageNext(action) ==
    /\ Arrived({action})
    /\ ~Arrived(Messages \ {action}) \/ First({action}) < First(Messages \ {action})

-----------------------------------------------------------------------------
(* What is sent to the servers.                                             *)

Said(kind, id) == console' = [console EXCEPT !.heard = @ \cup {[kind |-> kind, id |-> id]}]
\* http_send_session_message succeeds; the console may have fallen silent.
Sends(kind, id) == Said(kind, id) \/ UNCHANGED console

-----------------------------------------------------------------------------
(* chiaki_holepunch_session_create.                                         *)

\* The name of the push server is asked for, the thread is created, or one of them fails.
CreateBegins ==
    /\ main.pc = "create"
    /\ \/ Go("opening") /\ push' = [push EXCEPT !.at = "connecting"]
       \/ Go("leaving") /\ UNCHANGED push
    /\ UNCHANGED <<flags, queue, lock, socket, ids, servers, console>>

\* The thread waits on state_cond without a timeout.
SocketOpened ==
    /\ main.pc = "opening" /\ lock = "free"
    /\ \/ Mark("WS_FAILED") \in flags /\ Go("joining")
       \/ Mark("WS_OPEN") \in flags /\ Mark("WS_FAILED") \notin flags /\ Go("creating")
    /\ UNCHANGED <<push, flags, queue, lock, socket, ids, servers, console>>

HttpCreateSession ==
    /\ main.pc = "creating"
    /\ \/ /\ Go("created")
          /\ \E events \in {<<Event("CREATED"), Event("MEMBER")>>,
                            <<Event("MEMBER"), Event("CREATED")>>} :
                 servers' = [session |-> "open", events |-> servers.events \o events]
       \/ Go("joining") /\ UNCHANGED servers
    /\ UNCHANGED <<push, flags, queue, lock, socket, ids, console>>

\* A notification without the online id leaves the loop with state_mutex held and the
\* websocket thread running.
CreateHears ==
    /\ main.pc = "created" /\ lock = "free"
    /\ Arrived({"CREATED", "MEMBER"})
    /\ LET n == queue[First({"CREATED", "MEMBER"})] IN
       /\ lock' = "main"
       /\ flags' = flags \cup {Mark(IF n.type = "CREATED" THEN "CREATED" ELSE "CLIENT_JOINED")}
       /\ \/ Go("locked")
          \/ "malformed" \in Flaws /\ n.type = "CREATED" /\ Go("leaving")
    /\ UNCHANGED <<push, queue, socket, ids, servers, console>>

\* http_check_session, still under state_mutex; only then is the notification cleared.
CreateGoesOn ==
    /\ main.pc = "locked" /\ lock' = "free"
    /\ queue' = Cleared(First({"CREATED", "MEMBER"}))
    /\ Go(IF {Mark("CREATED"), Mark("CLIENT_JOINED")} \subseteq flags THEN "preparing" ELSE "created")
    /\ UNCHANGED <<push, flags, socket, ids, servers, console>>

\* chiaki_thread_join comes back when the thread has ended, not when it was asked to.
Asked == socket.stop
Joined == socket.stop /\ push.at \in Ended

\* cleanup_thread: the thread is asked to stop and joined.
CreateJoins ==
    /\ main.pc = "joining"
    /\ \/ ~socket.stop /\ socket' = [socket EXCEPT !.stop = TRUE] /\ UNCHANGED main
       \/ /\ Joined
          /\ socket' = [socket EXCEPT !.open = FALSE]
          /\ Go("leaving")
    /\ UNCHANGED <<push, flags, queue, lock, ids, servers, console>>

\* chiaki_holepunch_session_discard.
Discard ==
    /\ main.pc = "leaving" /\ Go("freed") /\ queue' = <<>>
    /\ UNCHANGED <<push, flags, lock, socket, ids, servers, console>>

-----------------------------------------------------------------------------
(* chiaki_holepunch_session_create_offer and chiaki_holepunch_session_start. *)

\* Each message takes an id of its own, local_req_id.
SameId == ids
NextId == [ids EXCEPT !.next = @ + 1]

\* The prepared offer takes an id, which it never uses.
CreateOffer ==
    /\ main.pc = "preparing"
    /\ ids' = NextId
    /\ Go("starting") \/ Go("deleting")
    /\ UNCHANGED <<push, flags, queue, lock, socket, servers, console>>

\* The servers tell of the console and of its data, the console sends its first offer.
HttpStartSession ==
    /\ main.pc = "starting"
    /\ \/ /\ Go("started")
          /\ servers' = [servers EXCEPT !.events = @ \o <<Event("MEMBER"), Event("CUSTOM_DATA1")>>]
          /\ console' = [console EXCEPT !.sent = 1,
                                        !.pending = Append(@, Message("OFFER", 0))]
       \/ Go("deleting") /\ UNCHANGED <<servers, console>>
    /\ UNCHANGED <<push, flags, queue, lock, socket, ids>>

\* The second unlock of state_mutex at the end finds it free or another's: it fails.
StartHears ==
    /\ main.pc = "started" /\ lock = "free"
    /\ Arrived({"MEMBER", "CUSTOM_DATA1"})
    /\ LET i == First({"MEMBER", "CUSTOM_DATA1"})
           found == flags \cup {Mark(IF queue[i].type = "MEMBER" THEN "CONSOLE_JOINED"
                                                                  ELSE "CUSTOMDATA1_RECEIVED")} IN
       \/ /\ flags' = found /\ queue' = Cleared(i)
          /\ IF {Mark("CONSOLE_JOINED"), Mark("CUSTOMDATA1_RECEIVED")} \subseteq found
               THEN main' = [pc |-> "waitOffer", port |-> "ctrl"]
               ELSE UNCHANGED main
       \/ "malformed" \in Flaws /\ Go("deleting") /\ UNCHANGED <<flags, queue>>
    /\ UNCHANGED <<push, lock, socket, ids, servers, console>>

-----------------------------------------------------------------------------
(* chiaki_holepunch_session_punch_hole.  A hole for ctrl that fails ends    *)
(* the attempt in psn_remote.c, one for data the session.                   *)

Raise(name) == lock = "free" /\ flags' = flags \cup {Flag(name)}

OfferReceived ==
    /\ main.pc = "waitOffer"
    /\ \/ SkipMessage("OFFER") /\ UNCHANGED <<main, flags>>
       \/ MessageNext("OFFER") /\ Raise("OFFER_RECEIVED") /\ Go("answering") /\ UNCHANGED queue
    /\ UNCHANGED <<push, lock, socket, ids, servers, console>>

\* The offer of the console is acknowledged.
OfferAcked ==
    /\ main.pc = "answering"
    /\ \/ Go("offering") /\ Sends("RESULT", 0)
       \/ Go("deleting") /\ UNCHANGED console
    /\ UNCHANGED <<push, flags, queue, lock, socket, ids, servers>>

\* Ours is sent: the prepared one for ctrl, a new one for data, whose failure is ignored.
OfferSent ==
    /\ main.pc = "offering"
    /\ ids' = [next |-> ids.next + 1, ours |-> ids.next]
    /\ \/ Go("waitAck") /\ Sends("OFFER", ids.next)
       \/ main.port = "ctrl" /\ Go("deleting") /\ UNCHANGED console
    /\ UNCHANGED <<push, flags, queue, lock, socket, servers>>

\* wait_for_session_message_ack.  The acknowledgement stays in the queue, and so does one of
\* another request: the wait finds that one again and again.
AckReceived ==
    /\ main.pc = "waitAck"
    /\ \/ SkipMessage("RESULT") /\ UNCHANGED main
       \/ /\ MessageNext("RESULT") /\ queue[First({"RESULT"})].id = ids.ours
          /\ Go("probing") /\ UNCHANGED queue
    /\ UNCHANGED <<push, flags, lock, socket, ids, servers, console>>

\* check_candidates.
Probed ==
    /\ main.pc = "probing"
    /\ Go("accepting") \/ Go("deleting")
    /\ UNCHANGED <<push, flags, queue, lock, socket, ids, servers, console>>

AcceptSent ==
    /\ main.pc = "accepting"
    /\ \/ Go("waitAccept") /\ Sends("ACCEPT", ids.next) /\ ids' = NextId
       \/ Go("deleting") /\ UNCHANGED <<ids, console>>
    /\ UNCHANGED <<push, flags, queue, lock, socket, servers>>

AcceptReceived ==
    /\ main.pc = "waitAccept"
    /\ \/ SkipMessage("ACCEPT") /\ UNCHANGED main
       \/ MessageNext("ACCEPT") /\ Go("confirming") /\ UNCHANGED queue
    /\ UNCHANGED <<push, flags, lock, socket, ids, servers, console>>

\* It is acknowledged, and the hole counts as established whatever the last exchange with
\* the console brings.
Established ==
    /\ main.pc = "confirming"
    /\ \/ Raise("ESTABLISHED") /\ (Go(IF main.port = "ctrl" THEN "ready" ELSE "stream")
                                   \/ Go("deleting"))
       \/ Go("deleting") /\ UNCHANGED flags
    /\ UNCHANGED <<push, queue, lock, socket, ids, servers, console>>

\* The session goes on to the hole for data, or ends before or after it.
SessionGoesOn ==
    /\ main.pc \in {"ready", "stream"}
    /\ \/ Go("deleting")
       \/ main.pc = "ready" /\ main' = [pc |-> "waitOffer", port |-> "data"]
    /\ UNCHANGED <<push, flags, queue, lock, socket, ids, servers, console>>

-----------------------------------------------------------------------------
(* chiaki_holepunch_session_fini.                                           *)

Farewells == {"MEMBER_DELETED", "DELETED"}

\* deleteSession, if the websocket is still open.
FiniBegins ==
    /\ main.pc = "deleting"
    /\ \/ ~socket.open /\ Go("freed") /\ queue' = <<>> /\ UNCHANGED servers
       \/ /\ socket.open /\ Go("deleted") /\ UNCHANGED queue
          /\ \/ servers' = [session |-> "deleted", events |-> Append(servers.events, Event("DELETED"))]
             \/ UNCHANGED servers
    /\ UNCHANGED <<push, flags, lock, socket, ids, console>>

\* The farewell of the servers, or 3 seconds without it; then the thread is stopped.
FiniHears ==
    /\ main.pc = "deleted" /\ ~socket.stop /\ lock = "free"
    /\ Arrived(Farewells)
    /\ flags' = flags \cup {Mark("DELETED")}
    /\ queue' = Cleared(First(Farewells))
    /\ socket' = [socket EXCEPT !.stop = TRUE]
    /\ UNCHANGED <<main, push, lock, ids, servers, console>>

FiniJoins ==
    /\ main.pc = "deleted" /\ Joined
    /\ Go("freed") /\ queue' = <<>>
    /\ UNCHANGED <<push, flags, lock, socket, ids, servers, console>>

\* Nothing that is waited for came in time: SESSION_CREATION_TIMEOUT_SEC and the others.
Awaited ==
    CASE main.pc = "created" -> {"CREATED", "MEMBER"}
      [] main.pc = "started" -> {"MEMBER", "CUSTOM_DATA1"}
      [] main.pc \in {"waitOffer", "waitAck", "waitAccept"} -> Messages
      [] main.pc = "deleted" -> Farewells
      [] OTHER -> {"none"}
WaitTimesOut ==
    /\ Awaited # {"none"} /\ ~Arrived(Awaited)
    /\ \/ main.pc = "created" /\ Go("joining") /\ UNCHANGED socket
       \/ main.pc = "deleted" /\ ~socket.stop
          /\ socket' = [socket EXCEPT !.stop = TRUE] /\ UNCHANGED main
       \/ main.pc \notin {"created", "deleted"} /\ Go("deleting") /\ UNCHANGED socket
    /\ UNCHANGED <<push, flags, queue, lock, ids, servers, console>>

-----------------------------------------------------------------------------
(* websocket_thread_func.                                                   *)

\* What stands in front of SESSION_STATE_WS_FAILED, and signals state_cond.
FailsQuietly == UNCHANGED flags
Fails == flags' = flags \cup {Mark("WS_FAILED")}

\* Without its headers the thread ends and tells nobody; when anything else fails it does.
PushConnects ==
    /\ push.at = "connecting"
    /\ \/ /\ lock = "free" /\ flags' = flags \cup {Mark("WS_OPEN")}
          /\ socket' = [socket EXCEPT !.open = TRUE]
          /\ push' = [push EXCEPT !.at = "loop"]
       \/ /\ lock = "free" /\ Fails
          /\ push' = [push EXCEPT !.at = "dead"] /\ UNCHANGED socket
       \/ /\ "header" \in Flaws
          /\ push' = [push EXCEPT !.at = "dead"] /\ UNCHANGED <<flags, socket>>
    /\ UNCHANGED <<main, queue, lock, ids, servers, console>>

PushReceives ==
    /\ push.at = "loop" /\ ~socket.stop
    /\ \/ /\ servers.events # <<>>
          /\ push' = [at |-> "got", note |-> Head(servers.events)]
          /\ servers' = [servers EXCEPT !.events = Tail(@)] /\ UNCHANGED console
       \/ /\ console.pending # <<>>
          /\ push' = [at |-> "got", note |-> Head(console.pending)]
          /\ console' = [console EXCEPT !.pending = Tail(@)] /\ UNCHANGED servers
    /\ UNCHANGED <<main, flags, queue, lock, socket, ids>>

\* Offers nobody waits for are acknowledged at once.
ShouldAckOffers ==
    \/ <<"ctrl", "OFFER_RECEIVED">> \in flags /\ <<"ctrl", "ESTABLISHED">> \notin flags
    \/ <<"data", "OFFER_RECEIVED">> \in flags
PushQueues ==
    /\ push.at = "got" /\ lock = "free"
    /\ IF ShouldAckOffers /\ push.note.type = "OFFER" THEN Sends("RESULT", 0)
                                                       ELSE UNCHANGED console
    /\ queue' = Append(queue, push.note)
    /\ push' = [push EXCEPT !.at = "queued"]
    /\ UNCHANGED <<main, flags, lock, socket, ids, servers>>

\* The type is read once more, without the lock.
PushChecks ==
    /\ push.at = "queued"
    /\ IF push.note.type = "DELETED"
         THEN /\ push' = [at |-> "dead", note |-> Event("none")]
              /\ socket' = [socket EXCEPT !.open = FALSE]
         ELSE /\ push' = [at |-> "loop", note |-> Event("none")]
              /\ UNCHANGED socket
    /\ UNCHANGED <<main, flags, queue, lock, ids, servers, console>>

\* Asked to stop, or the connection is lost, closed, or no PONG came.
PushEnds ==
    /\ push.at = "loop"
    /\ push' = [push EXCEPT !.at = "dead"]
    /\ socket' = [socket EXCEPT !.open = FALSE]
    /\ UNCHANGED <<main, flags, queue, lock, ids, servers, console>>

-----------------------------------------------------------------------------
(* The console (external): it acknowledges what it heard, accepts once it   *)
(* has our offer, offers the next port when both have accepted, and may     *)
(* repeat an offer.                                                         *)

Heard(kind) == {h \in console.heard : h.kind = kind}
ConsoleAnswers ==
    /\ \E h \in Heard("OFFER") \cup Heard("ACCEPT") :
          console' = [console EXCEPT !.heard = (@ \ {h}) \cup
                            {[kind |-> IF h.kind = "OFFER" THEN "agreed" ELSE "done", id |-> h.id]},
                                     !.pending = Append(@, Message("RESULT", h.id))]
    /\ UNCHANGED <<main, push, flags, queue, lock, socket, ids, servers>>

\* One ACCEPT for each of our offers it has answered.
ConsoleAccepts ==
    /\ Heard("agreed") # {} /\ ~console.accepted
    /\ console' = [console EXCEPT !.accepted = TRUE, !.pending = Append(@, Message("ACCEPT", 0))]
    /\ UNCHANGED <<main, push, flags, queue, lock, socket, ids, servers>>

ConsoleOffers ==
    /\ console.sent \in 1..(Offers - 1)
    /\ console' = [console EXCEPT !.sent = @ + 1, !.accepted = FALSE,
                                  !.pending = Append(@, Message("OFFER", 0))]
    /\ UNCHANGED <<main, push, flags, queue, lock, socket, ids, servers>>

ConsoleRepeats ==
    /\ "stray" \in Flaws
    /\ \E h \in Heard("agreed") \cup Heard("done") :
          LET again == [kind |-> "repeated", id |-> h.id] IN
          /\ again \notin console.heard
          /\ console' = [console EXCEPT !.heard = @ \cup {again},
                                        !.pending = Append(@, Message("RESULT", h.id))]
    /\ UNCHANGED <<main, push, flags, queue, lock, socket, ids, servers>>

-----------------------------------------------------------------------------
MainSteps == \/ CreateBegins \/ SocketOpened \/ HttpCreateSession \/ CreateHears \/ CreateGoesOn
             \/ CreateJoins \/ Discard \/ CreateOffer \/ HttpStartSession \/ StartHears
             \/ OfferReceived \/ OfferAcked \/ OfferSent \/ AckReceived \/ Probed \/ AcceptSent
             \/ AcceptReceived \/ Established \/ FiniBegins \/ FiniHears \/ FiniJoins
             \/ WaitTimesOut
PushSteps == PushConnects \/ PushQueues \/ PushChecks
\* The loop looks at ws_thread_should_stop at the latest after the deadline of a PONG.
PushStops == socket.stop /\ PushEnds

Next == \/ MainSteps \/ SessionGoesOn \/ PushSteps \/ PushReceives \/ PushEnds
        \/ ConsoleAnswers \/ ConsoleAccepts \/ ConsoleOffers \/ ConsoleRepeats

Spec == Init /\ [][Next]_vars /\ WF_vars(MainSteps) /\ WF_vars(PushSteps) /\ WF_vars(PushStops)

-----------------------------------------------------------------------------
TypeOK ==
    /\ main \in [pc : Pcs, port : Ports]
    /\ push.at \in {"none", "connecting", "loop", "got", "queued", "dead"}
    /\ lock \in {"free", "main"}
    /\ socket \in [open : BOOLEAN, stop : BOOLEAN]
    /\ ids \in [next : Nat, ours : Nat]
    /\ servers.session \in {"none", "open", "deleted"}
    /\ console.sent \in 0..Offers

\* The websocket thread is gone before the session it works on is (holepunch.c, 1149-1151,
\* 1897-1899).
NoThreadAfterFree == main.pc = "freed" => push.at \in Ended

\* An acknowledgement is taken for our offer only if the console has that very offer, so
\* the candidates are probed by both sides (1690-1750).
AckIsOurs == main.pc = "probing" => [kind |-> "agreed", id |-> ids.ours] \in console.heard

\* An attempt to connect comes to an end, whatever fails on the way (psn_remote.c, 249-340).
AttemptEnds == main.pc = "create" ~> main.pc \in {"ready", "freed"}
=============================================================================
