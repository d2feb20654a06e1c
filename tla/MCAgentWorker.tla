--------------------------- MODULE MCAgentWorker ---------------------------
(* A worker used from several threads, as the sessions of agents use it.    *)
EXTENDS AgentJobs, TLC

Jobs == [w \in Worker |-> 3]
=============================================================================
