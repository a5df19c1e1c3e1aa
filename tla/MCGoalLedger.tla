--------------------------- MODULE MCGoalLedger -----------------------------
(* An operator beside the loop, a second goal to open, and a second task to *)
(* plan beside one that is made ready again.                                *)
EXTENDS GoalLedger
=============================================================================
