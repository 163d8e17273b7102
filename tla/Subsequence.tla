---------------------------- MODULE Subsequence -----------------------------
(***************************************************************************)
(* What is left of an array when some of its entries are taken out and the *)
(* others move up, as the loops of the send buffers do it.                 *)
(***************************************************************************)
EXTENDS Integers, Sequences

\* What the first i entries of s leave, for each i, when those at the positions K stay.
LeftOf(s, K) ==
    LET left[i \in 0 .. Len(s)] ==
            IF i = 0 THEN << >>
            ELSE IF i \in K THEN Append(left[i - 1], s[i]) ELSE left[i - 1]
    IN  left

Subsequence(s, K) == LeftOf(s, K)[Len(s)]
=============================================================================
