--------------------------- MODULE MCTerminalAgents -------------------------
(* Two agents in a table with room for one, and one page that follows.      *)
EXTENDS TerminalAgents
=============================================================================
