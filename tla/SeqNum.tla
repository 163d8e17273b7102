------------------------------- MODULE SeqNum -------------------------------
(***************************************************************************)
(* Serial-number arithmetic of lib/include/chiaki/seqnum.h (RFC 1982).     *)
(* A sequence number is a residue modulo Modulus (2^16 or 2^32 in the      *)
(* code, generated by CHIAKI_DEFINE_SEQNUM); it stands for an ever growing *)
(* position of a packet in its stream.                                     *)
(***************************************************************************)
EXTENDS Integers

CONSTANT Modulus            \* 2^bits

SeqNums == 0 .. Modulus - 1
Half    == Modulus \div 2   \* 1 << (bits - 1)

ASSUME ModulusAssumption ==
    /\ Modulus \in Nat /\ Modulus > 0
    /\ Modulus = 2 * Half

\* The number a stream position is sent under, and the cast of every sum.
Wrap(n)    == n % Modulus
Add(a, b) == Wrap(a + b)

\* Faulty variant: compared as plain integers.
LtNoWrap(a, b) == a < b

\* chiaki_seq_num_##bits##_lt / _gt: at a distance of exactly Half neither holds.
Lt(a, b) == \/ a < b /\ b - a < Half
            \/ a > b /\ a - b > Half
Gt(a, b) == \/ a < b /\ b - a > Half
            \/ a > b /\ a - b < Half
Le(a, b) == a = b \/ Lt(a, b)
Ge(a, b) == a = b \/ Gt(a, b)

\* Steps of +1 that lead from a to b.
Distance(a, b) == Wrap(b - a)
=============================================================================
