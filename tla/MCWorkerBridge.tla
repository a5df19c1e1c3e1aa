--------------------------- MODULE MCWorkerBridge ---------------------------
(* One command that streams and one that does not, a worker that stays and  *)
(* one that may stop at any time, a budget of one tick, one abandoned poll. *)
EXTENDS WorkerBridge
=============================================================================
