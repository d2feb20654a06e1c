-------------------------- MODULE MCPluginUpdates --------------------------
(* A small instance of PluginUpdates for TLC.                               *)
EXTENDS PluginUpdates
CONSTANTS t1, t2, r1, r2
MCThread == {t1, t2}
MCRequest == {r1, r2}
============================================================================
