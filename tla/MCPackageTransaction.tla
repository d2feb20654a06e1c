------------------------ MODULE MCPackageTransaction ------------------------
(* Instances of PackageTransaction for TLC; the bounds are in the .cfg.     *)
EXTENDS PackageTransaction, TLC
=============================================================================
