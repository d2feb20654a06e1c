----------------------- MODULE MCWorkspaceTransaction -----------------------
(* Instances of WorkspaceTransaction for TLC; the bounds are in the .cfg.   *)
EXTENDS WorkspaceTransaction, TLC
=============================================================================
