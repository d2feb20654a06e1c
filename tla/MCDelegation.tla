--------------------------- MODULE MCDelegation ---------------------------
(* A batch of two tasks: a sibling that fails, is stopped or outlives.      *)
EXTENDS Delegation, TLC
=============================================================================
