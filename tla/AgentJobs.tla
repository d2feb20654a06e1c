------------------------------ MODULE AgentJobs ------------------------------
(* The workers with a record of how their jobs ended, which shows that they *)
(* keep the promises of JobBoard. The record is part of no decision.        *)
EXTENDS AgentWorker

VARIABLE ended   \* per worker <<job, terminal event>>, in order

jobsVars == <<workerVars, ended>>

JobsInit == WorkerInit /\ ended = [w \in Worker |-> <<>>]

Reports(w) == pc[w] \in {"refuse", "report"} /\ pc'[w] = "clear"

JobsNext == \E w \in Worker :
              /\ Thread(w) \/ Client(w)
              /\ ended' = IF Reports(w) THEN [ended EXCEPT ![w] = Append(@, <<job[w], result[w]>>)]
                                        ELSE ended

JobsSpec == JobsInit /\ [][JobsNext]_jobsVars

(* The refinement: a job begins with its first check and ends with its      *)
(* terminal event; until then it waits, in the queue or in the thread.      *)
NotBegun(w) == pc[w] \in {"took", "begin", "refuse"} /\ job[w] # 0
Begun(w) == pc[w] \in {"work", "asked", "asking", "acting", "finishing", "report"}

JobsIn(q) == {q[i].id : i \in {k \in 1..Len(q) : q[k].kind = "job"}}
Backlog(w) == JobsIn(jobs[w]) \cup (IF NotBegun(w) THEN {job[w]} ELSE {})

(* Jobs are numbered as they are accepted: those that wait are the last.    *)
Coming(w) == LET n == Cardinality(Backlog(w)) IN [i \in 1..n |-> issued[w] - n + i]
Runs(w) == IF Begun(w) THEN job[w] ELSE 0
AskedFor(w) == cancelled[w] \ (IF pc[w] = "clear" THEN {job[w]} ELSE {})

Board == INSTANCE JobBoard WITH
  Job <- UNION {1..MaxJobs[w] : w \in Worker},
  waiting <- [w \in Worker |-> Coming(w)],
  running <- [w \in Worker |-> Runs(w)],
  asked <- [w \in Worker |-> AskedFor(w)],
  closed <- stopping

ImplementsBoard == Board!Spec
=============================================================================
