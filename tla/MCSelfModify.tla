--------------------------- MODULE MCSelfModify -----------------------------
(* Requests in one checkout, about a branch that may be pushed to once more *)
(* between the diff and the merge.                                          *)
EXTENDS SelfModify, TLC

\* Requests of one kind are alike.
Symmetry == Permutations(Applies) \cup Permutations(Rollbacks)
=============================================================================
