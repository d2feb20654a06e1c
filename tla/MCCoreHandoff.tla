---------------------------- MODULE MCCoreHandoff ----------------------------
(* Instances of CoreHandoff for TLC.                                        *)
EXTENDS CoreHandoff

==============================================================================
