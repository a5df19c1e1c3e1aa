--------------------------- MODULE MCKeyPool --------------------------------
(* Two calls on three keys of which one works, with one spare try.  Calls    *)
(* are alike and every property is safety, so permuting them is sound.      *)
EXTENDS KeyPool, TLC

Symmetry == Permutations(Callers)

=============================================================================
