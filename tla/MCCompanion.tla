----------------------------- MODULE MCCompanion -----------------------------
(* Two requests at a time, two people, and an engine that keeps one session. *)
EXTENDS Companion, TLC

Symmetry == Permutations(Procs) \cup Permutations(People)
=============================================================================
