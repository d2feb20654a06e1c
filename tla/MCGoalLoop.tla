----------------------------- MODULE MCGoalLoop -----------------------------
(* Two goals, a message and its retries, or one of the other calls.         *)
EXTENDS GoalLoop, TLC
=============================================================================
