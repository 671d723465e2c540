---------------------------- MODULE MCSharedArea ----------------------------
EXTENDS SharedArea, TLC

Symmetry == Permutations(Proc)
=============================================================================
