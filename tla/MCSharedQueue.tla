--------------------------- MODULE MCSharedQueue ---------------------------
(* A small ring shared by two processes.                                     *)
EXTENDS SharedQueue, TLC

Symmetry == Permutations(Proc)

=============================================================================
