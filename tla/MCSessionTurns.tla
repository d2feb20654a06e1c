--------------------------- MODULE MCSessionTurns ---------------------------
(* Instances of SessionTurns for TLC; the bounds are in the .cfg files. *)
EXTENDS SessionTurns, TLC

MCOwners == Permutations(Owners)
=============================================================================
