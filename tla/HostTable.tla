------------------------------ MODULE HostTable ------------------------------
(***************************************************************************)
(* The consoles the user can choose from: context.hosts of the Vita, the   *)
(* table behind the cards on the main screen.                              *)
(*                                                                         *)
(* Three sources fill it.  The discovery service (lib/src/discoveryservice *)
(* .c) pings the local network and reports the list of those that answered *)
(* whenever that list changes; discovery.c turns a report into entries and *)
(* frees the entries that have not been seen for a while.  The manual      *)
(* hosts of the configuration share their objects with it.  The devices of *)
(* the PSN account (psn_remote.c) borrow the keys of a registered console. *)
(* After every change update_context_hosts (host_storage.c) merges what is *)
(* the same console, by its MAC address, and closes the gaps.              *)
(*                                                                         *)
(* Nothing locks the table: a handler is one step here, and two threads in *)
(* it at once are not modelled.  Time passes in intervals of a ping.  The  *)
(* consoles are natural numbers, which also are their addresses and their  *)
(* devices on the PSN; 0 is none.  Allocations succeed.                    *)
(***************************************************************************)
EXTENDS Naturals, Sequences, SequencesExt, FiniteSets, FiniteSetsExt, Subsequence

CONSTANTS
    Consoles,       \* the consoles there are: 1..n
    Registered,     \* those config.registered_hosts has the keys of
    Manual,         \* those with a manual host in the configuration
    Devices,        \* the PS5s of the PSN account, by the names they are registered with
    Home,           \* those that ever join the local network
    Slots,          \* MAX_CONTEXT_HOSTS, and hosts_max of the service
    DropPings,      \* HOST_DROP_PINGS
    Grace,          \* DISCOVERY_LOST_GRACE_US in pings
    Roaming         \* a console may join the network while the user connects to another way

HostTableAssumption ==
    /\ IsFiniteSet(Consoles) /\ Consoles # {} /\ Consoles = 1..Cardinality(Consoles)
    /\ Registered \subseteq Consoles /\ Manual \subseteq Registered /\ Devices \cup Home \subseteq Consoles
    /\ Slots \in Nat \ {0} /\ Cardinality(Manual) <= Slots
    /\ DropPings \in Nat \ {0} /\ Grace \in Nat \ {0} /\ Roaming \in BOOLEAN

VARIABLES
    lan,        \* (external) the consoles that answer a ping
    service,    \* is it on, and its hosts with the pings since each answered
    table,      \* context.hosts: a slot holds an object or 0
    heap,       \* the objects: what each is, or Free
    active      \* context.active_host, while a connection or a stream uses it; 0 without

vars == <<lan, service, table, heap, active>>

\* An object for each slot, one for each manual host, and one more while it is merged.
Objects == 1..(Slots + Cardinality(Manual) + 1)
Free == [mac |-> 0, type |-> {}, source |-> "none", remote |-> 0, age |-> 0]
Types == {"DISCOVERED", "MANUALLY_ADDED", "REGISTERED"}
Of(type, h) == type \in h.type

\* config.manual_hosts: its objects are made when the configuration is parsed.
Config == 1..Cardinality(Manual)
ManualHost(i) == [mac |-> CHOOSE c \in Manual : Cardinality({d \in Manual : d <= c}) = i,
                  type |-> {"MANUALLY_ADDED", "REGISTERED"}, source |-> "manual",
                  remote |-> 0, age |-> 0]

Used(w) == {s \in 1..Slots : w.table[s] # 0}
At(w, s) == w.heap[w.table[s]]
Unused(w) == Min({o \in Objects : w.heap[o] = Free})
Empty(w) == {s \in 1..Slots : w.table[s] = 0}
Put(w, s, h) == [table |-> [w.table EXCEPT ![s] = Unused(w)],
                 heap |-> [w.heap EXCEPT ![Unused(w)] = h]]
Release(w, gone) == [table |-> [s \in 1..Slots |-> IF s \in gone THEN 0 ELSE w.table[s]],
                     heap |-> [o \in Objects |-> IF \E s \in gone : w.table[s] = o
                                                   THEN Free ELSE w.heap[o]]]

-----------------------------------------------------------------------------
(* update_context_hosts.                                                    *)

\* Manual hosts that the configuration has no longer or that are discovered leave the
\* table, not the heap.
Hidden(w) ==
    {s \in Used(w) :
        /\ Of("MANUALLY_ADDED", At(w, s))
        /\ \/ w.table[s] \notin Config
           \/ \E t \in Used(w) \ {s} : /\ Of("DISCOVERED", At(w, t))
                                       /\ ~Of("MANUALLY_ADDED", At(w, t))
                                       /\ At(w, t).mac = At(w, s).mac}
Hide(w) == [w EXCEPT !.table = [s \in 1..Slots |-> IF s \in Hidden(w) THEN 0 ELSE @[s]]]

\* A device of the account becomes a property of the discovered console with its address.
Twins(w, s) == {t \in Used(w) \ {s} : Of("DISCOVERED", At(w, t)) /\ At(w, t).mac = At(w, s).mac}
MergeOne(w, s) ==
    IF w.table[s] # 0 /\ At(w, s).source = "psn" /\ Twins(w, s) # {}
      THEN Release([w EXCEPT !.heap[w.table[Min(Twins(w, s))]].remote = At(w, s).remote], {s})
      ELSE w
Merge(w) ==
    LET after[s \in 0..Slots] == IF s = 0 THEN w ELSE MergeOne(after[s - 1], s)
    IN  after[Slots]

Compact(w) ==
    LET kept == Subsequence(w.table, Used(w)) IN
    [w EXCEPT !.table = [s \in 1..Slots |-> IF s <= Len(kept) THEN kept[s] ELSE 0]]

Shown(w, i) == \E s \in Used(w) : /\ At(w, s).mac = w.heap[i].mac
                                  /\ At(w, s).type \cap {"DISCOVERED", "MANUALLY_ADDED"} # {}
AddManual(w, i) == IF Shown(w, i) \/ Empty(w) = {} THEN w
                                                   ELSE [w EXCEPT !.table[Min(Empty(w))] = i]

AddManuals(w) ==
    LET after[i \in 0..Cardinality(Manual)] == IF i = 0 THEN w ELSE AddManual(after[i - 1], i)
    IN  after[Cardinality(Manual)]

Update(w) == AddManuals(Compact(Merge(Hide(w))))

-----------------------------------------------------------------------------
(* discovery.c.                                                             *)

Seen(w, c) == {s \in Used(w) : Of("DISCOVERED", At(w, s)) /\ At(w, s).mac = c}
Targets(w, c) == Empty(w) \cup {s \in Used(w) : Of("MANUALLY_ADDED", At(w, s)) /\ At(w, s).mac = c}

\* save_discovered_host: a known one is refreshed; another takes the first slot that is
\* empty or its own manual host's.
Save(w, c) ==
    IF Seen(w, c) # {} THEN [w EXCEPT !.heap[w.table[Min(Seen(w, c))]].age = 0]
    ELSE IF Targets(w, c) = {} THEN w
    ELSE LET s == Min(Targets(w, c))
             found == [mac |-> c, type |-> {"DISCOVERED"} \cup (IF c \in Registered THEN {"REGISTERED"} ELSE {}),
                       source |-> "lan", remote |-> 0, age |-> 0] IN
         Update(IF w.table[s] = 0 THEN Put(w, s, found)
                ELSE [w EXCEPT !.heap[w.table[s]] = [@ EXCEPT !.type = @ \cup {"DISCOVERED"},
                                                              !.source = "lan", !.age = 0]])

\* Without the guards for the host in use.
RemoveLostAnyway(w) ==
    Update(Release(w, {s \in Used(w) : Of("DISCOVERED", At(w, s)) /\ At(w, s).age >= Grace}))

\* remove_lost_discovered_hosts, which spares the host of a connection or a stream.
RemoveLost(w) ==
    Update(Release(w, {s \in Used(w) : /\ Of("DISCOVERED", At(w, s))
                                       /\ w.table[s] # active
                                       /\ At(w, s).age >= Grace}))

\* discovery_cb, on the list of the service.
SaveAll(w, list) ==
    LET after[i \in 0..Len(list)] == IF i = 0 THEN w ELSE Save(after[i - 1], list[i])
    IN  after[Len(list)]
Cb(w, list) == RemoveLost(SaveAll(w, list))

World == [table |-> table, heap |-> heap]
Becomes(w) == table' = w.table /\ heap' = w.heap

Older(w) == [w EXCEPT !.heap = [o \in Objects |->
                IF Of("DISCOVERED", w.heap[o]) /\ w.heap[o].age < Grace
                  THEN [w.heap[o] EXCEPT !.age = @ + 1] ELSE w.heap[o]]]
Names(list) == [i \in 1..Len(list) |-> list[i].mac]

-----------------------------------------------------------------------------
(* The discovery service.                                                   *)

Listening == [on |-> TRUE, hosts |-> <<>>]
Silent == [on |-> FALSE, hosts |-> <<>>]

\* chiaki_discovery_service_init in start_discovery.
StartDiscovery ==
    /\ ~service.on /\ active = 0
    /\ service' = Listening
    /\ Becomes(Update(World))
    /\ UNCHANGED <<lan, active>>

\* discovery_service_drop_old_hosts.
Kept(list) == Subsequence(list, {i \in 1..Len(list) : list[i].missed <= DropPings})

\* discovery_service_ping: those that have not answered for too long are dropped, and the
\* rest is reported if there were any.
Ping ==
    /\ service.on
    /\ LET missed == [i \in 1..Len(service.hosts) |-> [service.hosts[i] EXCEPT !.missed = @ + 1]]
           kept == Kept(missed) IN
       /\ service' = [service EXCEPT !.hosts = kept]
       /\ Becomes(IF Len(kept) < Len(missed) THEN Cb(Older(World), Names(kept)) ELSE Older(World))
    /\ UNCHANGED <<lan, active>>

\* discovery_service_host_received: reported if it is new or something of it has changed.
HostReceived(c) ==
    /\ service.on /\ c \in lan
    /\ LET i == SelectInSeq(service.hosts, LAMBDA h : h.mac = c) IN
       \/ /\ i = 0 /\ Len(service.hosts) < Slots
          /\ service' = [service EXCEPT !.hosts = Append(@, [mac |-> c, missed |-> 0])]
          /\ Becomes(Cb(World, Names(service'.hosts)))
       \/ /\ i # 0
          /\ service' = [service EXCEPT !.hosts[i].missed = 0]
          /\ UNCHANGED <<table, heap>> \/ Becomes(Cb(World, Names(service.hosts)))
    /\ UNCHANGED <<lan, active>>

-----------------------------------------------------------------------------
(* psn_remote.c.                                                            *)

\* remove_existing_psn_hosts.
WithoutPsn(w) ==
    Release([w EXCEPT !.heap = [o \in Objects |->
                IF @[o].source = "psn" \/ \A s \in Used(w) : w.table[s] # o
                  THEN @[o] ELSE [@[o] EXCEPT !.remote = 0]]],
            {s \in Used(w) : At(w, s).source = "psn"})

\* find_registered_source_for_device: the console with the name of the device, or else the
\* first one there is.
Source(d) == IF d \in Registered THEN d ELSE Min(Registered)
AddDevice(w, d) ==
    IF Registered = {} \/ Empty(w) = {} THEN w
    ELSE Put(w, Min(Empty(w)), [mac |-> Source(d), type |-> {"REGISTERED"}, source |-> "psn",
                                remote |-> d, age |-> 0])
AddDevices(w, present) ==
    LET after[d \in 0..Cardinality(Consoles)] ==
            IF d = 0 THEN w ELSE IF d \in present THEN AddDevice(after[d - 1], d) ELSE after[d - 1]
    IN  after[Cardinality(Consoles)]

\* psn_remote_refresh_hosts, not while the connection thread is active.
RefreshHosts ==
    /\ active = 0
    /\ \E present \in SUBSET Devices :
          Becomes(Update(AddDevices(WithoutPsn(World), present)))
    /\ UNCHANGED <<lan, service, active>>

\* psn_remote_clear_cached_hosts: the user signs out.
ClearCachedHosts ==
    /\ active = 0
    /\ Becomes(Update(WithoutPsn(World)))
    /\ UNCHANGED <<lan, service, active>>

-----------------------------------------------------------------------------
(* Connections.                                                             *)

\* The user takes a card; at home not the one over the Internet.
Connect ==
    /\ active = 0
    /\ \E s \in Used(World) :
          /\ Of("REGISTERED", At(World, s))
          /\ \/ At(World, s).source # "psn" \/ Roaming
             \/ At(World, s).mac \notin lan \cup ToSet(Names(service.hosts))
          /\ active' = table[s]
    /\ UNCHANGED <<lan, service, table, heap>>

\* host_stream: stop_discovery(true) keeps the hosts.
StopDiscovery ==
    /\ active # 0 /\ service.on
    /\ service' = Silent
    /\ Becomes(Update(World))
    /\ UNCHANGED <<lan, active>>

\* Time passes while nothing pings.
TimePasses ==
    /\ ~service.on
    /\ Becomes([World EXCEPT !.heap = [o \in Objects |-> IF Of("DISCOVERED", @[o])
                                          THEN [@[o] EXCEPT !.age = Grace] ELSE @[o]]])
    /\ UNCHANGED <<lan, service, active>>

Disconnect == active # 0 /\ active' = 0 /\ UNCHANGED <<lan, service, table, heap>>

\* A console is switched on, or off and out of reach.
Joins(c) == /\ c \in Home \ lan /\ (Roaming \/ active = 0)
            /\ lan' = lan \cup {c} /\ UNCHANGED <<service, table, heap, active>>
Leaves(c) == c \in lan /\ lan' = lan \ {c} /\ UNCHANGED <<service, table, heap, active>>

-----------------------------------------------------------------------------
\* chiaki_init: the manual hosts are in the table, discovery is not on yet.
Blank == [table |-> [s \in 1..Slots |-> 0],
          heap |-> [o \in Objects |-> IF o \in Config THEN ManualHost(o) ELSE Free]]
Init ==
    /\ lan = {} /\ active = 0
    /\ service = Silent
    /\ table = Update(Blank).table /\ heap = Update(Blank).heap

Next == \/ StartDiscovery \/ Ping \/ RefreshHosts \/ ClearCachedHosts
        \/ Connect \/ StopDiscovery \/ TimePasses \/ Disconnect
        \/ \E c \in Consoles : HostReceived(c) \/ Joins(c) \/ Leaves(c)

Spec == Init /\ [][Next]_vars /\ WF_vars(Ping)

-----------------------------------------------------------------------------
TypeOK ==
    /\ lan \subseteq Consoles /\ service.on \in BOOLEAN /\ Len(service.hosts) <= Slots
    /\ table \in [1..Slots -> {0} \cup Objects]
    /\ heap \in [Objects -> [mac : {0} \cup Consoles, type : SUBSET Types, remote : {0} \cup Consoles,
                             source : {"none", "lan", "manual", "psn"}, age : 0..Grace]]
    /\ active \in {0} \cup Objects

\* The table refers to living objects, to each once and without a gap, and every object that
\* is neither in it nor in the configuration has been freed (discovery.c, 226-254,
\* host_storage.c, 149-275).
TableIsSound ==
    /\ \A s \in Used(World) : At(World, s) # Free /\ \A t \in 1..(s - 1) : table[t] \notin {0, table[s]}
    /\ \A o \in Objects \ Config : heap[o] # Free => \E s \in 1..Slots : table[s] = o

\* A console that was found has one card (host_storage.c, 187-189).
OneCard ==
    \A s, t \in Used(World) :
        (Of("DISCOVERED", At(World, s)) /\ At(World, s).mac = At(World, t).mac) => s = t

\* The host of a connection is not freed under it (discovery.c, 231-239).
ActiveLives == active # 0 => heap[active] # Free

\* A card and the device behind it are the same console: "When a LAN-discovered host and a
\* PSN_REMOTE host share the same MAC address they represent the same physical console."
\* (host_storage.c, 187-188).
SameConsole == \A s \in Used(World) : At(World, s).remote \in {0, At(World, s).mac}

\* A console that has been out of reach for good loses its card, unless a connection uses it:
\* "remove discovered hosts if they haven't been seen for longer than the grace window"
\* (discovery.c, 225).
LostHostsLeave ==
    \A c \in Consoles :
        <>[](c \notin lan /\ service.on /\ active = 0) => <>[](Seen(World, c) = {})
=============================================================================
