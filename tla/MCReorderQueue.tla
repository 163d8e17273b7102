--------------------------- MODULE MCReorderQueue ---------------------------
(* TLC instance of ReorderQueue: the packets are interchangeable. *)
EXTENDS ReorderQueue, TLC

Symmetry == Permutations(Packets)
=============================================================================
