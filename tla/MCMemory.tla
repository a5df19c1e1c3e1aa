------------------------------ MODULE MCMemory ------------------------------
(* Two callers, one ordinary text and one shaped like a credential, a table *)
(* read one row to a page, and exports that stop at the third.              *)
EXTENDS Memory, TLC

\* A cosine may be negative; 1 is below the floor of 2.
MCSimilarities == {-1, 1, 2, 3}

Symmetry == Permutations(Callers)
=============================================================================
