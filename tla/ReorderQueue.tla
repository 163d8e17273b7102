---------------------------- MODULE ReorderQueue ----------------------------
(***************************************************************************)
(* The reorder queue of lib/src/reorderqueue.c: a ring of 2^size_exp       *)
(* entries indexed by sequence number, used by Takion to put the packets   *)
(* of the data channel back in order.  The caller hands every packet over  *)
(* with push and gets it back from pull or from the drop callback.         *)
(*                                                                         *)
(* begin, count, queue and hint are the fields of ChiakiReorderQueue.      *)
(* first, pos and owner are history: the stream positions behind the       *)
(* wrapping sequence numbers, and who has to free each packet.             *)
(***************************************************************************)
EXTENDS SeqNum, FiniteSets

CONSTANTS
    Packets,        \* packets the caller can own
    NULL,
    Size,           \* 1 << size_exp
    DropStrategy,   \* "BEGIN" or "END"
    Start,          \* stream position of seq_num_start
    Reach,          \* how far from the head a pushed position may lie
    MaxPos          \* bound on stream positions (TLC only; no code counterpart)

ASSUME SizeAssumption ==
    /\ Size \in Nat /\ Size > 1          \* size_exp 0 is never used
    /\ Modulus = Size * (Modulus \div Size)
    /\ 2 * Size < Modulus
ASSUME PacketsAssumption == NULL \notin Packets
ASSUME PositionsAssumption == Start \in Nat /\ MaxPos \in Nat /\ Reach \in Nat
ASSUME DropStrategyAssumption == DropStrategy \in {"BEGIN", "END"}

VARIABLES
    begin,      \* sequence number of the head
    count,      \* entries between head and end, gaps included
    queue,      \* ring of [set, user]
    hint,       \* first_set_hint_index
    first,      \* stream position of begin
    pos,        \* stream position a packet was pushed at
    owner,      \* "caller" or "queue"
    pulled,     \* <<position, packet>> if the last call was a successful pull
    refused,    \* position of the packet the last call refused, if it was such a push
    found,      \* index returned by the last call if it was find_first_set
    phase       \* "open", "closed" after fini, "aborted" by a failed assert

implVars == <<begin, count, queue, hint>>
vars == <<begin, count, queue, hint, first, pos, owner, pulled, refused, found, phase>>

Invalid  == -1      \* FIRST_SET_HINT_INVALID, find_first_set returning false
NoCall   == -2
Nowhere  == -1
Nothing  == <<>>
Unset    == [set |-> FALSE, user |-> NULL]

Idx(s) == s % Size
At(i)  == Idx(Add(begin, i))            \* slot of the i-th entry
Set(i) == queue[At(i)].set
End    == Add(begin, count)
Window == {At(i) : i \in 0 .. count - 1}

\* Faulty variant: fini stops one entry early.
HeldButLast == {queue[At(i)].user : i \in {j \in 0 .. count - 2 : Set(j)}}

\* Packets the queue still has to give back.
Held == {queue[s].user : s \in {t \in Window : queue[t].set}}

-----------------------------------------------------------------------------
(* Hint maintenance. *)

\* reorder_queue_offset_for_seq over a window of n entries from b
OffsetForSeq(b, n, s) == IF Distance(b, s) < n THEN Distance(b, s) ELSE Invalid

\* push, after an entry was set
HintAfterSet(b, n, s) ==
    IF hint = Invalid \/ Lt(s, Add(b, hint)) THEN OffsetForSeq(b, n, s) ELSE hint

\* Faulty variant: an invalid hint is decremented too.
HintAlwaysShifted(n) == IF n = 0 THEN Invalid ELSE hint - 1

\* pull and skip_gap, after begin advanced by one and n entries remain
HintAfterAdvance(n) ==
    IF n = 0 \/ hint \in {Invalid, 0} THEN Invalid ELSE hint - 1

-----------------------------------------------------------------------------
(* push *)

InWindow(s)  == Ge(s, begin) /\ Lt(s, End)
Overflows(s) == Lt(Add(begin, Size), Add(s, 1))
Duplicate(s) == InWindow(s) /\ queue[Idx(s)].set

\* Faulty variant: no test against begin.
NeverLate(s) == FALSE

\* drop_it: the drop callback gets the new packet, the caller owns it again.
Late(s) == ~InWindow(s) /\ Lt(s, begin)
NoRoomFor(s) == ~InWindow(s) /\ Ge(s, End) /\ Overflows(s) /\ DropStrategy = "END"
Refuse(s)    == Duplicate(s) \/ Late(s) \/ NoRoomFor(s)

\* "drop first until empty or enough space": how many heads go.
Evictions(s) ==
    {k \in 0 .. count :
        /\ k = count \/ ~Lt(Add(begin, Size + k), Add(s, 1))
        /\ \A j \in 0 .. k - 1 : Lt(Add(begin, Size + j), Add(s, 1))}

\* Faulty variant: an emptied queue keeps its old head.
HeadKept(s, k) == Add(begin, k)

\* The head after k entries went: an emptied queue is moved to the new packet.
NewBegin(s, k) == IF Overflows(s) /\ k = count THEN s ELSE Add(begin, k)

\* Faulty variant: set flags of an earlier lap survive.
NothingCleared(b, n, s) == {}

\* Slots the window grows over lose the set flag they kept from earlier use.
ClearedByGrowth(b, n, s) == {Idx(Add(b, i)) : i \in n .. Distance(b, s)}

Entry(p) == [set |-> TRUE, user |-> p]

\* The packet fills a gap of the window.
PushInside(p, n) ==
    LET s == Wrap(n) IN
    /\ InWindow(s) /\ ~Duplicate(s)
    /\ queue' = [queue EXCEPT ![Idx(s)] = Entry(p)]
    /\ hint' = HintAfterSet(begin, count, s)
    /\ owner' = [owner EXCEPT ![p] = "queue"]
    /\ pos' = [pos EXCEPT ![p] = n]
    /\ UNCHANGED <<begin, count, first, phase>>

\* assert(ge(seq_num, end))
PushAborts(s) ==
    /\ ~InWindow(s) /\ ~Late(s) /\ ~Ge(s, End)
    /\ phase' = "aborted"
    /\ UNCHANGED <<implVars, first, pos, owner>>

\* The window grows up to the packet, after k heads went to make room.
PushBeyond(p, n, k) ==
    LET s        == Wrap(n)
        b        == NewBegin(s, k)
        newCount == Distance(b, Add(s, 1))
        cleared  == ClearedByGrowth(b, count - k, s)
        evicted  == {queue[At(i)].user : i \in {j \in 0 .. k - 1 : Set(j)}}
    IN
    /\ ~InWindow(s) /\ ~Refuse(s) /\ Ge(s, End)
    /\ IF Overflows(s) THEN k \in Evictions(s) ELSE k = 0
    /\ begin' = b
    /\ count' = newCount
    /\ queue' = [t \in 0 .. Size - 1 |->
                    IF t = Idx(s) THEN Entry(p)
                    ELSE IF t \in cleared THEN [queue[t] EXCEPT !.set = FALSE]
                    ELSE queue[t]]
    /\ hint' = HintAfterSet(b, newCount, s)
    /\ first' = first + Distance(begin, b)
    /\ owner' = [q \in Packets |-> IF q = p THEN "queue"
                                   ELSE IF q \in evicted THEN "caller"
                                   ELSE owner[q]]
    /\ pos' = [q \in Packets |-> IF q = p THEN n
                                 ELSE IF q \in evicted THEN 0
                                 ELSE pos[q]]
    /\ UNCHANGED phase

Push(p, n) ==
    /\ phase = "open"
    /\ owner[p] = "caller"
    /\ n \in 0 .. MaxPos
    /\ pulled' = Nothing
    /\ found' = NoCall
    /\ \/ /\ Refuse(Wrap(n))
          /\ refused' = n
          /\ UNCHANGED <<implVars, first, pos, owner, phase>>
       \/ /\ refused' = Nowhere
          /\ \/ PushInside(p, n)
             \/ PushAborts(Wrap(n))
             \/ \E k \in 0 .. count : PushBeyond(p, n, k)

-----------------------------------------------------------------------------
(* pull, skip_gap, drop, find_first_set, fini *)

Release(ps) ==
    /\ owner' = [q \in Packets |-> IF q \in ps THEN "caller" ELSE owner[q]]
    /\ pos' = [q \in Packets |-> IF q \in ps THEN 0 ELSE pos[q]]

Advance ==
    /\ begin' = Add(begin, 1)
    /\ count' = count - 1
    /\ hint' = HintAfterAdvance(count - 1)
    /\ first' = first + 1

Pull ==
    /\ phase = "open"
    /\ count > 0 /\ Set(0)
    /\ pulled' = <<pos[queue[At(0)].user], queue[At(0)].user>>
    /\ Release({queue[At(0)].user})
    /\ Advance
    /\ found' = NoCall
    /\ refused' = Nowhere
    /\ UNCHANGED <<queue, phase>>

SkipGap ==
    /\ phase = "open"
    /\ count > 0
    /\ Release(IF Set(0) THEN {queue[At(0)].user} ELSE {})
    /\ queue' = IF Set(0) THEN [queue EXCEPT ![At(0)] = Unset] ELSE queue
    /\ Advance
    /\ pulled' = Nothing
    /\ found' = NoCall
    /\ refused' = Nowhere
    /\ UNCHANGED phase

\* Faulty variant: only the dropped entry itself is trimmed.
TrimmedByOne(i) == {IF i # count - 1 THEN count ELSE i}

\* Entries that stay after the unset tail behind a dropped last entry went.
Trimmed(i) ==
    IF i # count - 1 THEN {count}
    ELSE {n \in 0 .. i : /\ n = 0 \/ Set(n - 1)
                         /\ \A j \in n .. i - 1 : ~Set(j)}

\* The hint moves to the next set entry only if it pointed at the dropped one.
HintsAfterDrop(i, n) ==
    IF n = 0 THEN {Invalid}
    ELSE IF hint # i THEN {hint}
    ELSE IF \A j \in i + 1 .. n - 1 : ~Set(j) THEN {Invalid}
    ELSE {j \in i + 1 .. n - 1 : Set(j) /\ \A l \in i + 1 .. j - 1 : ~Set(l)}

Drop(i) ==
    /\ phase = "open"
    /\ i < count /\ Set(i)
    /\ Release({queue[At(i)].user})
    /\ queue' = [queue EXCEPT ![At(i)] = Unset]
    /\ count' \in Trimmed(i)
    /\ hint' \in HintsAfterDrop(i, count')
    /\ pulled' = Nothing
    /\ found' = NoCall
    /\ refused' = Nowhere
    /\ UNCHANGED <<begin, first, phase>>

\* find_first_set looks only from the hint on.
FindStart == IF hint # Invalid /\ hint < count THEN hint ELSE 0

FindFirstSet ==
    LET later == {i \in FindStart .. count - 1 : Set(i)} IN
    /\ phase = "open"
    /\ \/ /\ later = {}
          /\ found' = Invalid
          /\ UNCHANGED hint
       \/ \E i \in later :
             /\ \A j \in later : i <= j
             /\ found' = i
             /\ hint' = i
    /\ pulled' = Nothing
    /\ refused' = Nowhere
    /\ UNCHANGED <<begin, count, queue, first, pos, owner, phase>>

Fini ==
    /\ phase = "open"
    /\ phase' = "closed"
    /\ Release(Held)
    /\ pulled' = Nothing
    /\ found' = NoCall
    /\ refused' = Nowhere
    /\ UNCHANGED <<implVars, first>>

-----------------------------------------------------------------------------
Init ==
    /\ begin = Wrap(Start)
    /\ count = 0
    /\ queue = [s \in 0 .. Size - 1 |-> Unset]
    /\ hint = Invalid
    /\ first = Start
    /\ pos = [p \in Packets |-> 0]
    /\ owner = [p \in Packets |-> "caller"]
    /\ pulled = Nothing
    /\ found = NoCall
    /\ refused = Nowhere
    /\ phase = "open"

Next ==
    \/ \E p \in Packets, n \in first - Reach .. first + Reach : Push(p, n)
    \/ Pull
    \/ SkipGap
    \/ \E i \in 0 .. Size - 1 : Drop(i)
    \/ FindFirstSet
    \/ Fini

Spec == Init /\ [][Next]_vars

-----------------------------------------------------------------------------
(* Properties *)

TypeOK ==
    /\ begin \in SeqNums
    /\ count \in 0 .. Size
    /\ queue \in [0 .. Size - 1 -> [set : BOOLEAN, user : Packets \union {NULL}]]
    /\ \A s \in 0 .. Size - 1 : queue[s].set => queue[s].user \in Packets
    /\ hint \in {Invalid} \union 0 .. Size - 1
    /\ first \in Nat
    /\ pos \in [Packets -> Nat]
    /\ owner \in [Packets -> {"caller", "queue"}]
    /\ pulled \in {Nothing} \union (Nat \X Packets)
    /\ refused \in {Nowhere} \union Nat
    /\ found \in {NoCall, Invalid} \union 0 .. Size - 1
    /\ phase \in {"open", "closed", "aborted"}

\* A packet handed to push is in exactly one set entry of the window until it
\* is pulled or given to the drop callback, and in none afterwards: nothing
\* leaks, nothing is freed twice, no stale set flag of an earlier lap is read.
NoTwoEntries ==
    \A i, j \in 0 .. count - 1 :
        Set(i) /\ Set(j) /\ queue[At(i)].user = queue[At(j)].user => i = j
HeldIffOwned ==
    \A p \in Packets :
        owner[p] = "queue" <=> \E i \in 0 .. count - 1 : Set(i) /\ queue[At(i)].user = p
OneOwner == phase = "open" => NoTwoEntries /\ HeldIffOwned

\* After fini every packet has been given back.
NothingLeaked == phase = "closed" => \A p \in Packets : owner[p] = "caller"

\* The entry before the end is always set, so a non-empty queue holds a packet
\* (the "shouldn't happen if count > 0" of takion_flush_data_queue).
TailIsSet == phase = "open" /\ count > 0 => Set(count - 1)

\* find_first_set fails only on an empty queue, wherever its hint points.
FindFailsOnlyIfEmpty == found = Invalid => count = 0

\* Takion relies on both to find out whether it may skip a gap.
GapsAreFound == TailIsSet /\ FindFailsOnlyIfEmpty

\* reorderqueue.c: assert(ge(seq_num, end)) in push.
AssertHolds == phase # "aborted"

\* The ring with its wrapping numbers behaves as a buffer over endless
\* positions that delivers in stream order, each position at most once, and refuses
\* only what is late, a duplicate, or (END) ahead of a full window.
Positions == {n \in first .. first + count - 1 : Set(n - first)}
Abstract == INSTANCE InOrderBuffer WITH
    next <- first,
    held <- [n \in IF phase = "open" THEN Positions ELSE {} |->
                <<pos[queue[At(n - first)].user], queue[At(n - first)].user>>],
    delivered <- pulled,
    refused <- refused,
    KeepHead <- DropStrategy = "END"
DeliversInOrder == Abstract!AbsSpec
=============================================================================
