---------------------------- MODULE MCSourceMirror ----------------------------
(* Three trees: enough to edit, to be rejected and to go back.              *)
EXTENDS SourceMirror, TLC
=============================================================================
