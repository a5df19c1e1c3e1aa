--------------------------- MODULE MCPresence -------------------------------
(* Two posters and two listeners; every queue holds one entry, so that each *)
(* is full as soon as it is used.                                           *)
EXTENDS Presence
=============================================================================
