-------------------------- MODULE MCSessionJournal --------------------------
(* Instances of SessionJournal for TLC; the bounds are in the .cfg files. *)
EXTENDS SessionJournal, TLC
=============================================================================
