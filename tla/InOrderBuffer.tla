--------------------------- MODULE InOrderBuffer ----------------------------
(***************************************************************************)
(* What a reorder queue promises, without wrap-around, ring or hint: an    *)
(* item is a pair <<position in an endless stream, payload>>; at most Size consecutive     *)
(* positions are buffered; whatever leaves the buffer towards the consumer *)
(* leaves in stream order, each position at most once; and an item is      *)
(* refused only if it is late, a duplicate, or ahead of a window that may  *)
(* not move (KeepHead).                                                    *)
(***************************************************************************)
EXTENDS Integers, Functions

CONSTANTS Size, Start, KeepHead

VARIABLES
    next,       \* first position neither delivered nor given up
    held,       \* buffered position -> item
    refused,    \* position of the item the last step refused, if it did
    delivered   \* item handed out by the last step, if it was a delivery

absVars == <<next, held, refused, delivered>>

Nothing == <<>>
Nowhere == -1

AbsInit ==
    /\ next = Start
    /\ held = [n \in {} |-> 0]
    /\ refused = Nowhere
    /\ delivered = Nothing

\* Buffer item i at its position n; positions below next' are given up for it.
Accept(n, i) ==
    /\ refused' = Nowhere
    /\ i[1] = n
    /\ n \in next' .. next' + Size - 1
    /\ n \notin DOMAIN held
    /\ next' >= next
    /\ KeepHead => next' = next
    /\ held' = [m \in {k \in DOMAIN held : k >= next'} \union {n} |->
                   IF m = n THEN i ELSE held[m]]
    /\ delivered' = Nothing

\* Hand out the item everyone is waiting for.
Deliver ==
    /\ refused' = Nowhere
    /\ next \in DOMAIN held
    /\ delivered' = held[next]
    /\ next' = next + 1
    /\ held' = Restrict(held, DOMAIN held \ {next})

\* Stop waiting for the head position, or throw its item away.
SkipHead ==
    /\ refused' = Nowhere
    /\ next' = next + 1
    /\ held' = Restrict(held, DOMAIN held \ {next})
    /\ delivered' = Nothing

\* Throw away one buffered item without moving the head.
Discard(n) ==
    /\ refused' = Nowhere
    /\ n \in DOMAIN held
    /\ held' = Restrict(held, DOMAIN held \ {n})
    /\ delivered' = Nothing
    /\ UNCHANGED next

\* Refuse an item for position n.
Refuse(n) ==
    /\ n < next \/ n \in DOMAIN held \/ (KeepHead /\ n >= next + Size)
    /\ refused' = n
    /\ delivered' = Nothing
    /\ UNCHANGED <<next, held>>

\* Answer a question about the buffer.
Quiet ==
    /\ refused' = Nowhere
    /\ delivered' = Nothing
    /\ UNCHANGED <<next, held>>

\* Throw everything away.
Close ==
    /\ refused' = Nowhere
    /\ held' = [n \in {} |-> 0]
    /\ delivered' = Nothing
    /\ UNCHANGED next

AbsNext ==
    \/ \E n \in DOMAIN held' : Accept(n, held'[n])
    \/ Deliver
    \/ Refuse(refused')
    \/ SkipHead
    \/ \E n \in DOMAIN held : Discard(n)
    \/ Quiet
    \/ Close

AbsSpec == AbsInit /\ [][AbsNext]_absVars
=============================================================================
