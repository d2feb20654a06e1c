---------------------------- MODULE MCUpdateLedger ----------------------------
(* Two updates, so that one can end while the other is being claimed.       *)
EXTENDS UpdateLedger, TLC
=============================================================================
