------------------------------- MODULE MCFifo -------------------------------
(* A small instance of Fifo for TLC.                                       *)
EXTENDS Fifo, TLC

Symmetry == Permutations(Threads) \cup Permutations(Elems)
=============================================================================
