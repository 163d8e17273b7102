------------------------------- MODULE StunPorts -------------------------------
(***************************************************************************)
(* Guessing the ports of a NAT: stun_port_allocation_test of               *)
(* lib/src/remote/stun.h and the candidates that                           *)
(* chiaki_holepunch_session_create_offer and send_offer of holepunch.c     *)
(* make of it.                                                             *)
(*                                                                         *)
(* Four servers tell from which port our request came.  When the NAT gives *)
(* another port to every destination, the steps between the four give the  *)
(* ports it will give next, and these are what the console is offered.     *)
(* Ports are counted modulo Ports (65536), and the NAT (external) skips    *)
(* those up to Low (1024) when it starts over, as the code supposes.       *)
(* Others behind the same NAT take ports as well.                          *)
(***************************************************************************)
EXTENDS Integers, Sequences, SequencesExt

CONSTANTS
    Ports, Low,     \* UINT16_MAX + 1, and the last of the well-known ports
    Dynamic,        \* 49152, where guesses without a rule start over
    Steps,          \* how far apart the ports are the NAT gives
    Homes,          \* the outer addresses of the NAT
    Guesses,        \* the ports that are offered of a regular NAT
    RandomGuesses,  \* RANDOM_ALLOCATION_GUESSES_NUMBER
    Taken           \* bound on what others take

StunAssumption ==
    /\ {Ports, Low, Dynamic, Homes, Guesses, RandomGuesses, Taken} \subseteq Nat \ {0}
    /\ Low < Ports - 1 /\ Steps \subseteq 0..(Ports - 1 - Low)

VARIABLES
    nat,        \* (external) the port it gives next, its step, and the ports others took
                \* in this phase
    replies,    \* what the servers saw: our address and port, and how it came there
    offer       \* which offer is made, the ports in it, and whether the NAT was found irregular

vars == <<nat, replies, offer>>

Last16 == Ports - 1

\* The next port of the NAT.
After(p, step) == IF p + step > Last16 THEN p + step - Last16 + Low ELSE p + step

Init ==
    /\ nat \in [next : (Low + 1)..Last16, step : Steps, taken : {0}]
    /\ replies = <<>>
    /\ offer = [made |-> "none", ports |-> {}, step |-> 0, random |-> FALSE]

-----------------------------------------------------------------------------
\* Somebody else takes a port.
Take ==
    /\ nat.step > 0 /\ nat.taken < Taken
    /\ nat' = [nat EXCEPT !.next = After(@, nat.step), !.taken = @ + 1]
    /\ UNCHANGED <<replies, offer>>

\* A server is asked and answers.  The port it was asked from is the next one; `regular'
\* tells whether nobody came between and the NAT did not start over.
Reply ==
    /\ offer.made = "none" /\ Len(replies) < 4
    /\ \E home \in 1..Homes :
        replies' = Append(replies,
            [addr |-> home, port |-> nat.next,
             regular |-> replies # <<>> => nat.next = Last(replies).port + nat.step])
    /\ nat' = [nat EXCEPT !.next = After(@, nat.step),
                          !.taken = IF Len(replies) = 3 THEN 0 ELSE @]
    /\ UNCHANGED offer

Addr(k) == replies[k].addr
Port(k) == replies[k].port
\* Division as in C.
Quotient(a, b) == IF a >= 0 THEN a \div b ELSE -((-a) \div b)
Diff16(a, b) == (a - b) % Ports

Found(step, random) == [step |-> step, random |-> random]
Two == Found(IF Addr(1) = Addr(2) THEN Port(2) - Port(1) ELSE 0, FALSE)
Three ==
    CASE Addr(1) # Addr(2) /\ Addr(1) = Addr(3) -> Found(Quotient(Port(3) - Port(1), 2), FALSE)
      [] Addr(1) # Addr(2) /\ Addr(2) = Addr(3) -> Found(Port(3) - Port(2), FALSE)
      [] Addr(1) # Addr(2) /\ Addr(3) \notin {Addr(1), Addr(2)} -> Found(0, FALSE)
      [] Addr(1) = Addr(2) -> Found(Port(2) - Port(1),
                                    Addr(1) = Addr(3) /\ Port(3) - Port(2) # Port(2) - Port(1))

\* All four, the first two from different addresses.
FourMoved ==
    CASE Addr(1) = Addr(4) /\ Addr(1) = Addr(3) ->
            Found(Port(4) - Port(3), Quotient(Port(3) - Port(1), 2) # Port(4) - Port(3))
      [] Addr(1) = Addr(4) /\ Addr(1) # Addr(3) -> Found(Quotient(Port(4) - Port(1), 4), FALSE)
      [] Addr(1) # Addr(4) /\ Addr(1) = Addr(3) -> Found(Quotient(Port(3) - Port(1), 2), FALSE)
      [] Addr(1) \notin {Addr(3), Addr(4)} /\ Addr(2) = Addr(3) /\ Addr(2) = Addr(4) ->
            Found(Port(4) - Port(3), Port(3) - Port(2) # Port(4) - Port(3))
      [] Addr(1) \notin {Addr(3), Addr(4)} /\ Addr(2) # Addr(3) /\ Addr(2) = Addr(4) ->
            Found(Quotient(Port(4) - Port(1), 4), FALSE)
      [] Addr(1) \notin {Addr(3), Addr(4)} /\ Addr(2) = Addr(3) /\ Addr(2) # Addr(4) ->
            Found(Quotient(Port(3) - Port(1), 2), FALSE)
      [] OTHER -> Found(IF Addr(3) = Addr(4) THEN Port(3) - Port(4) ELSE 0, FALSE)

\* Faulty variant: the first step is believed.
FirstAlike == Found(Diff16(Port(2), Port(1)), FALSE)

\* All four from one address: two steps of three decide, as uint16_t.
FourAlike ==
    LET a == Diff16(Port(2), Port(1))
        b == Diff16(Port(3), Port(2))
        c == Diff16(Port(4), Port(3))
    IN  IF a \in {b, c} THEN Found(a, FALSE)
        ELSE IF b = c THEN Found(b, FALSE)
        ELSE Found(a, TRUE)

Four ==
    CASE Addr(1) # Addr(2) -> FourMoved
      [] Addr(1) = Addr(2) /\ Addr(2) # Addr(3) ->
            Found(Port(2) - Port(1),
                  Addr(2) = Addr(4) /\ Quotient(Port(4) - Port(2), 2) # Port(2) - Port(1))
      [] Addr(1) = Addr(2) /\ Addr(2) = Addr(3) /\ Addr(3) # Addr(4) ->
            Found(Port(2) - Port(1), Port(3) - Port(2) # Port(2) - Port(1))
      [] OTHER -> FourAlike

\* stun_port_allocation_test: the step, and the port the offer counts from.
Tested ==
    CASE Len(replies) = 1 -> [found |-> Found(0, FALSE), port |-> Port(1)]
      [] Len(replies) = 2 -> [found |-> Two, port |-> (Port(2) + 2 * Two.step) % Ports]
      [] Len(replies) = 3 -> [found |-> Three, port |-> (Port(3) + Three.step) % Ports]
      [] Len(replies) = 4 -> [found |-> Four, port |-> Port(4)]

\* The port that follows p, for a step that may be negative.
Checked(step) == [p \in Int |->
    LET q == p + step
    IN  IF q < Low /\ p > Low THEN Last16 - (Low - q)
        ELSE IF q < 1 THEN q + Last16
        ELSE IF q > Last16 THEN q - Last16 + Low
        ELSE q]
\* The ports after p, when each is followed by the next.
Ahead(next, p) == LET at[n \in 0..Guesses] == IF n = 0 THEN p ELSE next[at[n - 1]] IN at
Following(next, p) == {Ahead(next, p)[n] % Ports : n \in 1..Guesses}

\* For a NAT without a rule.
Neighbours(p) ==
    {IF p + i > Last16 THEN Dynamic + (p + i - Ports) ELSE p + i : i \in 0..(RandomGuesses - 1)}

\* chiaki_holepunch_session_create_offer: servers that did not answer are given up.
CreateOffer ==
    /\ offer.made = "none" /\ replies # <<>>
    /\ LET t == Tested IN
       offer' = [made |-> "ctrl", step |-> t.found.step, random |-> t.found.random,
                 ports |-> IF t.found.step = 0 THEN {t.port}
                           ELSE IF t.found.random THEN Neighbours(t.port)
                           ELSE Following(Checked(t.found.step), t.port)]
    /\ UNCHANGED <<nat, replies>>

\* send_offer, for data: one server, then a request to the console itself, which takes the
\* port it is to be reached at.
SentPort(step) == [p \in Int |->
    LET up == IF p + step < 0 THEN p + step + Last16 ELSE p + step
    IN  IF up > Last16 THEN up - Last16 ELSE up]
SendOffer ==
    /\ offer.made = "ctrl" /\ ~offer.random
    /\ offer' = [offer EXCEPT !.made = "data",
                    !.ports = IF offer.step = 0 THEN {nat.next}
                              ELSE Following(SentPort(offer.step), nat.next)]
    /\ nat' = [nat EXCEPT !.next = After(@, nat.step), !.taken = 0]
    /\ UNCHANGED replies

Next == Take \/ Reply \/ CreateOffer \/ SendOffer

Spec == Init /\ [][Next]_vars

-----------------------------------------------------------------------------
TypeOK ==
    /\ nat \in [next : 0..Last16, step : Steps, taken : 0..Taken]
    /\ \A i \in DOMAIN replies : replies[i].port \in 0..Last16 /\ replies[i].addr \in 1..Homes
    /\ offer.made \in {"none", "ctrl", "data"}
    /\ offer.ports \subseteq 0..Last16 /\ offer.random \in BOOLEAN

\* All servers saw one address, and all steps between them but one were those of the NAT.
OneHome == \A j, k \in DOMAIN replies : Addr(j) = Addr(k)
Disturbed == {k \in DOMAIN replies : ~replies[k].regular}
Telling == Len(replies) = 4 /\ OneHome /\ (\A j, k \in Disturbed : j = k)

\* The port the NAT gives to the path to the console is among those that are offered,
\* although others take ports in the meantime, and although one of the three steps of the
\* test was disturbed by them or by the NAT starting over; the second offer, which does not
\* leave out the well-known ports, is true as long as the NAT does not start over (stun.h,
\* 420-447; holepunch.c, 2929-2950, 3431-3447).
NextIsOffered ==
    Telling /\ nat.taken + 1 <= Guesses =>
        /\ offer.made = "ctrl" => nat.next \in offer.ports
        /\ /\ offer.made = "data"
           /\ \A p \in offer.ports : p > Low + nat.step
           => nat.next \in offer.ports
=============================================================================
