------------------------------ MODULE MCVault ------------------------------
(* Two requests or commands on one host's directories, and conversations of  *)
(* three messages, numbered by their time.  Processes are alike, and every   *)
(* property is an invariant, so permuting them is sound.                     *)
EXTENDS Vault, TLC

Symmetry == Permutations(Procs)
=============================================================================
