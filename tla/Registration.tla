---------------------------- MODULE Registration ----------------------------
(***************************************************************************)
(* Registering a console with the 8 digits it shows: the thread of         *)
(* lib/src/regist.c, and what vita/src/host_registration.c and the screens *)
(* make of its result.                                                     *)
(*                                                                         *)
(* There is one ChiakiRegist, static.  Nothing on the screen tells that it *)
(* is busy, and nothing stops the user from choosing another card or       *)
(* confirming another PIN meanwhile: the second start overwrites the       *)
(* parameters, the pipe and the thread of the first, whose thread goes on  *)
(* with them.  The result goes to context.active_host as it is then.       *)
(*                                                                         *)
(* Consoles are natural numbers, which also are their MAC addresses; 0 is  *)
(* none.  They are discovered, the account is known, allocations succeed.  *)
(* A thread that waits for its own end gets an error from the kernel.      *)
(***************************************************************************)
EXTENDS Naturals, Sequences, SequencesExt, FiniteSets, Subsequence

CONSTANTS
    Consoles,       \* the consoles there are: 1..n
    Stored,         \* those the configuration has keys of at the start
    Threads,        \* the threads that may run at once
    MaxEntries,     \* MAX_REGISTERED_HOSTS
    MaxKeys         \* (bound) how often a console gives out keys

RegistrationAssumption ==
    /\ IsFiniteSet(Consoles) /\ Consoles = 1..Cardinality(Consoles) /\ Stored \subseteq Consoles
    /\ IsFiniteSet(Threads) /\ 0 \notin Threads /\ Threads \subseteq Nat
    /\ MaxEntries \in Nat \ {0} /\ Cardinality(Stored) <= MaxEntries /\ MaxKeys \in Nat \ {0}

VARIABLES
    screen,     \* "main", or "register" with its PIN
    active,     \* context.active_host
    cards,      \* context.hosts: of each console the address and the keys, none when not REGISTERED
    entries,    \* config.registered_hosts: a card that is shared, or an object of its own
    saved,      \* what the file has of them
    info,       \* the parameters of the last start
    pipe,       \* the stop pipe: "none", "open", "stopped", "closed"
    latest,     \* the thread of the last start
    threads,    \* what each thread is at, whom it talks to and what it got
    issued,     \* (external) how often each console has given out keys
    disturbed,  \* (history) the user has not waited for the end of a registration
    refused     \* (history) the cards that found no room in the list

vars == <<screen, active, cards, entries, saved, info, pipe, latest, threads, issued, disturbed,
          refused>>
uiVars == <<screen, active>>
hostVars == <<cards, entries, saved, refused>>
staticVars == <<info, pipe, latest>>

NoKeys == [of |-> 0, number |-> 0]
Keys(c, n) == [of |-> c, number |-> n]
Host(mac, keys) == [mac |-> mac, keys |-> keys]
Nothing == Host(0, NoKeys)
REGISTERED(h) == h.keys # NoKeys

\* An entry loaded from the file is an object of its own; one that was registered since is
\* the card.
Loaded(c) == [card |-> 0, host |-> Host(c, Keys(c, 0))]
Shared(c) == [card |-> c, host |-> Nothing]
Value(e, from) == IF e.card = 0 THEN e.host ELSE from[e.card]

\* config_serialize, as far as this list goes.
Serialized(list, from) == [i \in DOMAIN list |-> Value(list[i], from)]

Off == [pc |-> "none", console |-> 0, got |-> Nothing, joins |-> 0]
Running == {t \in Threads : threads[t].pc # "none"}
Joined == {threads[t].joins : t \in Threads}

-----------------------------------------------------------------------------
(* The screens.                                                             *)

\* main_menu_activate_selected_card: a card without keys leads to the PIN.
Activate(c) ==
    /\ screen = "main"
    /\ active' = c
    /\ screen' = IF REGISTERED(cards[c]) THEN "main" ELSE "register"
    /\ disturbed' = (disturbed \/ (Running # {} /\ c # active))
    /\ UNCHANGED <<hostVars, staticVars, threads, issued>>

\* main_menu_repair_selected_card: the entry leaves if it is this very object.
Repair(c) ==
    /\ screen = "main" /\ REGISTERED(cards[c])
    /\ cards' = [cards EXCEPT ![c].keys = NoKeys]
    /\ entries' = Subsequence(entries, {i \in DOMAIN entries : entries[i].card # c})
    /\ saved' = Serialized(entries', cards') /\ refused' = refused \ {c}
    /\ active' = c /\ screen' = "register"
    /\ disturbed' = (disturbed \/ Running # {})
    /\ UNCHANGED <<staticVars, threads, issued>>

CancelPin ==
    /\ screen = "register" /\ screen' = "main"
    /\ UNCHANGED <<active, hostVars, staticVars, threads, issued, disturbed>>

\* chiaki_regist_start: the parameters, the pipe and the thread of a running one are lost.
Start(t) ==
    /\ t \notin Running \cup Joined
    /\ info' = active /\ pipe' = "open" /\ latest' = t
    /\ threads' = [threads EXCEPT ![t].pc = "begin"]

\* ui_screen_draw_registration when all the digits are there, and host_register.
Confirm ==
    /\ screen = "register" /\ screen' = "main"
    /\ \E t \in Threads : Start(t)
    /\ disturbed' = (disturbed \/ Running # {})
    /\ UNCHANGED <<active, hostVars, issued>>

-----------------------------------------------------------------------------
(* The thread.                                                              *)

At(t, pc) == threads[t].pc = pc
Move(t, pc) == threads' = [threads EXCEPT ![t].pc = pc]
Quiet == UNCHANGED <<uiVars, hostVars, staticVars, disturbed>>

\* The request is put together, with the PIN and for the host of the parameters.
Begin(t) ==
    /\ At(t, "begin")
    /\ threads' = [threads EXCEPT ![t] = [@ EXCEPT !.pc = "search", !.console = info]]
    /\ Quiet /\ UNCHANGED issued

\* regist_search: an answer of the right kind; what else comes is passed over.
Found(t) == At(t, "search") /\ pipe = "open" /\ Move(t, "pause") /\ Quiet /\ UNCHANGED issued

\* The console does not accept requests immediately.
Paused(t) == At(t, "pause") /\ pipe = "open" /\ Move(t, "connect") /\ Quiet /\ UNCHANGED issued

\* regist_request_connect, and the request is sent.
Connected(t) == At(t, "connect") /\ Move(t, "response") /\ Quiet /\ UNCHANGED issued

\* (external) The console takes the PIN and gives out new keys.
Accept(t) ==
    /\ At(t, "response") /\ issued[threads[t].console] < MaxKeys
    /\ issued' = [issued EXCEPT ![threads[t].console] = @ + 1]
    /\ Move(t, "answered")
    /\ Quiet

Waits == {"search", "pause", "connect", "response", "answered"}

\* Faulty variant: the search has no deadline.
FailUnlessSearching(t) ==
    /\ threads[t].pc \in Waits /\ (At(t, "search") => pipe # "open")
    /\ Move(t, "stopping")
    /\ Quiet /\ UNCHANGED issued

\* Every select ends: by its time, by the pipe, by an error.  A refused PIN, a connection
\* that is not made and an answer that makes no sense end the registration as well.  The
\* callback does nothing with a failure but to stop and to free.
Fail(t) ==
    /\ threads[t].pc \in Waits
    /\ Move(t, "stopping")
    /\ Quiet /\ UNCHANGED issued

\* Faulty variant: an answer without the address is good.
CompleteWithoutMac(headers) == {"RegistKey", "RP-Key"} \subseteq headers

\* regist_parse_response_payload: it takes all three, and each must be valid.
Complete(headers) == {"RegistKey", "RP-Key", "Mac"} \subseteq headers
Parsed(c, headers) ==
    Host(IF "Mac" \in headers THEN c ELSE 0,
         IF {"RegistKey", "RP-Key"} \subseteq headers THEN Keys(c, issued[c]) ELSE NoKeys)

Parse(t) ==
    /\ At(t, "answered") /\ pipe = "open"
    /\ \E headers \in SUBSET {"RegistKey", "RP-Key", "Mac"} :
          threads' = [threads EXCEPT ![t] =
              IF Complete(headers)
                THEN [@ EXCEPT !.pc = "succeeded", !.got = Parsed(threads[t].console, headers)]
                ELSE [@ EXCEPT !.pc = "stopping"]]
    /\ Quiet /\ UNCHANGED issued

-----------------------------------------------------------------------------
(* regist_cb.                                                               *)

Matching(list, from, mac) == {i \in DOMAIN list : Value(list[i], from).mac = mac}

NoRoom(list, from, h) == Len(list) >= MaxEntries /\ Matching(list, from, from[h].mac) = {}

\* Faulty variant: what the list has already is not looked for.
EnteredAgain(list, from, h) ==
    IF Len(list) < MaxEntries THEN Append(list, Shared(h)) ELSE list

\* The entry of the same console becomes the card; without one it is added, if there is room.
Entered(list, from, h) ==
    LET same == Matching(list, from, from[h].mac) IN
    IF same # {} THEN [list EXCEPT ![CHOOSE i \in same : \A j \in same : i <= j] = Shared(h)]
    ELSE IF NoRoom(list, from, h) THEN list
    ELSE Append(list, Shared(h))

\* Success: the active host is REGISTERED, with the keys and the address that came.
Succeed(t) ==
    /\ At(t, "succeeded") /\ Move(t, "stopping")
    /\ cards' = [cards EXCEPT ![active] = threads[t].got]
    /\ entries' = Entered(entries, cards', active)
    /\ saved' = Serialized(entries', cards')
    /\ refused' = IF NoRoom(entries, cards', active) THEN refused \cup {active}
                                                      ELSE refused \ {active}
    /\ UNCHANGED <<uiVars, staticVars, issued, disturbed>>

\* chiaki_regist_stop, and the thread to join is looked up.  The pipe and the thread may be
\* those of another registration.
Stop(t) ==
    /\ At(t, "stopping")
    /\ threads' = [threads EXCEPT ![t] = [@ EXCEPT !.pc = "joining", !.joins = latest]]
    /\ pipe' = IF pipe = "open" THEN "stopped" ELSE pipe
    /\ UNCHANGED <<uiVars, hostVars, info, latest, issued, disturbed>>

\* chiaki_regist_fini: the join fails at once for the thread itself.
Fini(t) ==
    /\ At(t, "joining") /\ (threads[t].joins = t \/ At(threads[t].joins, "none"))
    /\ threads' = [threads EXCEPT ![t] = Off]
    /\ pipe' = "closed"
    /\ UNCHANGED <<uiVars, hostVars, info, latest, issued, disturbed>>

-----------------------------------------------------------------------------
Init ==
    /\ screen = "main" /\ active = 0
    /\ cards = [c \in Consoles |-> Host(c, IF c \in Stored THEN Keys(c, 0) ELSE NoKeys)]
    /\ entries = SetToSeq({Loaded(c) : c \in Stored})
    /\ saved = Serialized(entries, cards)
    /\ info = 0 /\ pipe = "none" /\ latest = 0
    /\ threads = [t \in Threads |-> Off]
    /\ issued = [c \in Consoles |-> 0]
    /\ disturbed = FALSE /\ refused = {}

\* What a thread does without its console, which may not answer.
Thread(t) ==
    \/ Begin(t) \/ Paused(t) \/ Connected(t) \/ Fail(t) \/ Parse(t)
    \/ Succeed(t) \/ Stop(t) \/ Fini(t)

User == CancelPin \/ Confirm \/ \E c \in Consoles : Activate(c) \/ Repair(c)

Next == User \/ \E t \in Threads : Thread(t) \/ Found(t) \/ Accept(t)

Spec == Init /\ [][Next]_vars /\ \A t \in Threads : WF_vars(Thread(t))

-----------------------------------------------------------------------------
Hosts == [mac : Consoles \cup {0}, keys : [of : Consoles \cup {0}, number : 0..MaxKeys]]

TypeOK ==
    /\ screen \in {"main", "register"} /\ active \in Consoles \cup {0}
    /\ cards \in [Consoles -> Hosts] /\ saved \in Seq(Hosts)
    /\ \A e \in Range(entries) : e.card \in Consoles \cup {0} /\ e.host \in Hosts
    /\ info \in Consoles \cup {0} /\ pipe \in {"none", "open", "stopped", "closed"}
    /\ latest \in Threads \cup {0}
    /\ \A t \in Threads :
          /\ threads[t].pc \in Waits \cup {"none", "begin", "succeeded", "stopping", "joining"}
          /\ threads[t].console \in Consoles \cup {0} /\ threads[t].got \in Hosts
    /\ issued \in [Consoles -> 0..MaxKeys] /\ disturbed \in BOOLEAN /\ refused \subseteq Consoles

\* Whatever is confirmed while whatever runs, the file has no keys under another console's
\* address, and no address without keys (host_registration.c, 18-81; regist.c, 787-907).
KeysAreTrue == \A h \in Range(saved) : REGISTERED(h) /\ h.keys.of = h.mac

\* If the user waits for the end of each registration, the list has every console once, and
\* what a card has for keys is in the file as long as there was room
\* (host_registration.c, 49-76; ui_screens.c, 821-852).
EntriesAreKept ==
    ~disturbed =>
        /\ \A i, j \in DOMAIN saved : saved[i].mac = saved[j].mac => i = j
        /\ \A c \in Consoles :
              REGISTERED(cards[c]) =>
                  cards[c] \in Range(saved) \/ c \in refused

\* Each registration comes to its end, also one whose pipe and thread were overwritten
\* (regist.c, 86-97, 238-420).
RegistrationEnds == \A t \in Threads : ~At(t, "none") ~> At(t, "none")
=============================================================================
