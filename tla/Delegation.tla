------------------------------ MODULE Delegation ------------------------------
(* Parallel delegation (plugins/workflows/runner.py, plugins/subagents/): a  *)
(* turn of the main chat hands a batch of tasks to a bounded pool of         *)
(* threads; each creates a child chat with a worker of its own and waits for *)
(* its task. The user stops children, the plugin is replaced by a new        *)
(* generation beside them, and the application closes. The workers are those *)
(* of AgentWorker, in short: of their queue, flags and events only what the  *)
(* batch, the catalog and closing depend on is kept, and what a user writes  *)
(* to a child chat after its task is left out.                               *)
EXTENDS Naturals, Sequences, FiniteSets

CONSTANTS Request,       \* the tasks of the batch, in its order
          MaxParallel    \* max_parallel

ASSUME DelegationAssumption ==
  /\ Request \subseteq Nat /\ IsFiniteSet(Request)
  /\ MaxParallel \in Nat \ {0}

Generation == 1..2

VARIABLES
  parent,      \* the turn that delegates; it is over once its batch has ended
  cancel,      \* somebody cancelled its job
  source,      \* the generation whose coordinator the batch was prepared by
  thread,      \* per request, where its pool thread is
  result,      \* per request, the result of execute_one
  place,       \* per child, where its worker thread is
  queue, halted, stopping,   \* _jobs; its task is in _cancelled_jobs; _stop_flag
  completion,  \* per child, the future of its task
  bound,       \* the generation whose catalog the worker's on_activity belongs to
  entries, active, closed,   \* per generation: _chats, _active, closed
  generation, reload,        \* the active generation; how far the next one is
  exit,        \* the application's end
  slipped      \* history: children that went to work or rested during a reload

batchVars == <<parent, cancel, source, thread, result>>
childVars == <<place, queue, halted, stopping, completion>>
catalogVars == <<bound, entries, active, closed>>
reloadVars == <<generation, reload>>
delegationVars == <<batchVars, childVars, catalogVars, reloadVars, exit, slipped>>

DelegationInit ==
  /\ parent = "idle" /\ cancel = FALSE /\ source = 1
  /\ thread = [r \in Request |-> "none"] /\ result = [r \in Request |-> "none"]
  /\ place = [r \in Request |-> "none"] /\ queue = [r \in Request |-> <<>>]
  /\ halted = [r \in Request |-> FALSE] /\ stopping = [r \in Request |-> FALSE]
  /\ completion = [r \in Request |-> "none"] /\ bound = [r \in Request |-> 1]
  /\ entries = [g \in Generation |-> {}] /\ active = [g \in Generation |-> {}]
  /\ closed = [g \in Generation |-> FALSE]
  /\ generation = 1 /\ reload = "none" /\ exit = "open" /\ slipped = {}

-----------------------------------------------------------------------------
(* The batch.                                                               *)

(* cancel_check of the turn raises.                                         *)
Cancelled == cancel \/ exit # "open"

(* The runtime admits no operation while it changes generations.            *)
Delegate ==
  /\ parent = "idle" /\ ~Cancelled /\ reload = "none"
  /\ parent' = "collect" /\ source' = generation
  /\ thread' = [r \in Request |-> "queued"]
  /\ UNCHANGED <<cancel, result, childVars, catalogVars, reloadVars, exit, slipped>>

CancelTurn ==
  /\ parent = "collect" /\ ~cancel
  /\ cancel' = TRUE
  /\ UNCHANGED <<parent, source, thread, result, childVars, catalogVars, reloadVars, exit, slipped>>

Raises(r) == thread' = [thread EXCEPT ![r] = "raised"] /\ UNCHANGED result
Ends(r, how) ==
  thread' = [thread EXCEPT ![r] = "done"] /\ result' = [result EXCEPT ![r] = how]

(* An ordinary error is the request's result, unless the turn was cancelled. *)
Fails(r) == IF Cancelled THEN Raises(r) ELSE Ends(r, "failed")

(* A thread of the pool is free for the next request; run begins with a     *)
(* check.                                                                   *)
Starts(r) ==
  /\ thread[r] = "queued" /\ \A q \in Request : thread[q] = "queued" => r <= q
  /\ Cardinality({q \in Request : thread[q] \in {"create", "wait"}}) < MaxParallel
  /\ IF Cancelled THEN Raises(r)
     ELSE thread' = [thread EXCEPT ![r] = "create"] /\ UNCHANGED result
  /\ UNCHANGED <<parent, cancel, source, childVars, catalogVars, reloadVars, exit, slipped>>

Submits(r) ==
  /\ place' = [place EXCEPT ![r] = "get"]
  /\ queue' = [queue EXCEPT ![r] = <<"task">>]
  /\ completion' = [completion EXCEPT ![r] = "pending"]
  /\ thread' = [thread EXCEPT ![r] = "wait"] /\ UNCHANGED result

(* Mutant of CreateChild: a closed catalog takes another child.             *)
CreateInClosed(r) ==
  /\ thread[r] = "create"
  /\ entries' = [entries EXCEPT ![source] = @ \cup {r}]
  /\ bound' = [bound EXCEPT ![r] = source]
  /\ Submits(r)
  /\ UNCHANGED <<parent, cancel, source, halted, stopping, active, closed, reloadVars, exit, slipped>>

(* create_child, under the lock of the catalog. When the worker's thread    *)
(* cannot be started the child stays in the catalog without one.            *)
CreateChild(r) ==
  /\ thread[r] = "create"
  /\ IF closed[source] THEN Fails(r) /\ UNCHANGED <<entries, bound, place, queue, completion>>
     ELSE /\ entries' = [entries EXCEPT ![source] = @ \cup {r}]
          /\ bound' = [bound EXCEPT ![r] = source]
          /\ \/ Submits(r)
             \/ Fails(r) /\ UNCHANGED <<place, queue, completion>>
  /\ UNCHANGED <<parent, cancel, source, halted, stopping, active, closed, reloadVars, exit, slipped>>

(* Mutant of Waits: a task stopped in its child chat counts as an error.    *)
WaitsForSuccess(r) ==
  /\ thread[r] = "wait"
  /\ \/ Cancelled /\ Raises(r)
     \/ completion[r] = "completed" /\ Ends(r, "completed")
     \/ completion[r] \in {"completed", "failed", "cancelled"} /\ Fails(r)
  /\ UNCHANGED <<parent, cancel, source, childVars, catalogVars, reloadVars, exit, slipped>>

(* wait and completed: the poll may see the end of the task after a         *)
(* cancellation it has not looked for yet. A report that is too long is an  *)
(* error.                                                                   *)
Waits(r) ==
  /\ thread[r] = "wait"
  /\ \/ Cancelled /\ Raises(r)
     \/ completion[r] \in {"completed", "cancelled"} /\ Ends(r, completion[r])
     \/ completion[r] \in {"completed", "failed"} /\ Fails(r)
  /\ UNCHANGED <<parent, cancel, source, childVars, catalogVars, reloadVars, exit, slipped>>

Aborts ==
  /\ parent' = "aborted"
  /\ thread' = [r \in Request |-> IF thread[r] = "queued" THEN "dropped" ELSE thread[r]]

(* Mutant of Collects: one child that failed ends the batch.                *)
CollectsUntilFailure ==
  /\ parent = "collect"
  /\ \/ (Cancelled \/ \E r \in Request : thread[r] = "raised" \/ result[r] = "failed") /\ Aborts
     \/ (\A r \in Request : thread[r] = "done") /\ parent' = "returned" /\ UNCHANGED thread
  /\ UNCHANGED <<cancel, source, result, childVars, catalogVars, reloadVars, exit, slipped>>

(* _collect and _run_many: threads that have begun outlive an aborted batch. *)
Collects ==
  /\ parent = "collect"
  /\ \/ (Cancelled \/ \E r \in Request : thread[r] = "raised") /\ Aborts
     \/ (\A r \in Request : thread[r] = "done") /\ parent' = "returned" /\ UNCHANGED thread
  /\ UNCHANGED <<cancel, source, result, childVars, catalogVars, reloadVars, exit, slipped>>

-----------------------------------------------------------------------------
(* The children's worker threads, and the user who stops one.               *)

(* What happens to a child between the moment a new catalog looks whether   *)
(* it works and the moment its worker reports to that catalog.              *)
Slips(r) == slipped' = IF reload \in {"restored", "active"} THEN slipped \cup {r} ELSE slipped

StopChild(r) ==
  /\ exit = "open" /\ r \in entries[generation] /\ ~halted[r]
  /\ queue[r] # <<>> \/ place[r] \in {"took", "working"}
  /\ halted' = [halted EXCEPT ![r] = TRUE]
  /\ UNCHANGED <<batchVars, place, queue, stopping, completion, catalogVars, reloadVars, exit, slipped>>

Takes(r) ==
  /\ place[r] = "get" /\ queue[r] # <<>>
  /\ queue' = [queue EXCEPT ![r] = Tail(@)]
  /\ place' = [place EXCEPT ![r] = IF Head(queue[r]) = "stop" THEN "dead" ELSE "took"]
  /\ UNCHANGED <<batchVars, halted, stopping, completion, catalogVars, reloadVars, exit, slipped>>

Resolved(r, how) == completion' = [completion EXCEPT ![r] = how]

(* _run_job of a worker that is stopping.                                   *)
Refuses(r) ==
  /\ place[r] = "took" /\ stopping[r]
  /\ Resolved(r, "cancelled")
  /\ place' = [place EXCEPT ![r] = "get"] /\ halted' = [halted EXCEPT ![r] = FALSE]
  /\ UNCHANGED <<batchVars, queue, stopping, catalogVars, reloadVars, exit, slipped>>

(* on_activity of whichever catalog the worker is bound to.                 *)
Begins(r) ==
  /\ place[r] = "took" /\ ~stopping[r]
  /\ place' = [place EXCEPT ![r] = "working"]
  /\ active' = [active EXCEPT ![bound[r]] = @ \cup {r}] /\ Slips(r)
  /\ UNCHANGED <<batchVars, queue, halted, stopping, completion, bound, entries, closed,
                 reloadVars, exit>>

(* Mutant of Finishes: a cancelled job does not tell who waits for it.      *)
FinishesSilently(r) ==
  /\ place[r] = "working"
  /\ \/ (stopping[r] \/ halted[r]) /\ UNCHANGED completion
     \/ ~(stopping[r] \/ halted[r]) /\ Resolved(r, "completed")
     \/ Resolved(r, "failed")
  /\ place' = [place EXCEPT ![r] = "cleared"] /\ halted' = [halted EXCEPT ![r] = FALSE]
  /\ UNCHANGED <<batchVars, queue, stopping, catalogVars, reloadVars, exit, slipped>>

(* _complete_job and the end of _run_job: a job that is to stop is          *)
(* cancelled at its next check.                                             *)
Finishes(r) ==
  /\ place[r] = "working"
  /\ \/ (stopping[r] \/ halted[r]) /\ Resolved(r, "cancelled")
     \/ ~(stopping[r] \/ halted[r]) /\ Resolved(r, "completed")
     \/ Resolved(r, "failed")
  /\ place' = [place EXCEPT ![r] = "cleared"] /\ halted' = [halted EXCEPT ![r] = FALSE]
  /\ UNCHANGED <<batchVars, queue, stopping, catalogVars, reloadVars, exit, slipped>>

Rests(r) ==
  /\ place[r] = "cleared"
  /\ place' = [place EXCEPT ![r] = "get"]
  /\ active' = [active EXCEPT ![bound[r]] = @ \ {r}] /\ Slips(r)
  /\ UNCHANGED <<batchVars, queue, halted, stopping, completion, bound, entries, closed,
                 reloadVars, exit>>

-----------------------------------------------------------------------------
(* A new generation of the plugin: its catalog is filled while it is staged, *)
(* its coordinator is published, and once it is active the workers are told. *)
ExportCatalog ==
  /\ generation = 1 /\ reload = "none" /\ parent # "collect" /\ exit = "open"
  /\ reload' = "exported" /\ entries' = [entries EXCEPT ![2] = entries[1]]
  /\ UNCHANGED <<batchVars, childVars, bound, active, closed, generation, exit, slipped>>

RestoreCatalog ==
  /\ reload = "exported" /\ reload' = "restored"
  /\ active' = [active EXCEPT ![2] = {r \in entries[2] : place[r] \in {"took", "working"}}]
  /\ UNCHANGED <<batchVars, childVars, bound, entries, closed, generation, exit, slipped>>

DiscardCatalog ==
  /\ reload \in {"exported", "restored"} /\ reload' = "none"
  /\ entries' = [entries EXCEPT ![2] = {}] /\ active' = [active EXCEPT ![2] = {}]
  /\ slipped' = {}
  /\ UNCHANGED <<batchVars, childVars, bound, closed, generation, exit>>

Activate ==
  /\ reload = "restored" /\ reload' = "active" /\ generation' = 2
  /\ UNCHANGED <<batchVars, childVars, catalogVars, exit, slipped>>

(* Mutant of Reconfigure: the workers keep the observer of the old catalog. *)
ReconfigureRuntimes ==
  /\ reload = "active" /\ reload' = "none"
  /\ UNCHANGED <<batchVars, childVars, catalogVars, generation, exit, slipped>>

Reconfigure ==
  /\ reload = "active" /\ reload' = "none"
  /\ bound' = [r \in Request |-> IF r \in entries[2] THEN 2 ELSE bound[r]]
  /\ UNCHANGED <<batchVars, childVars, entries, active, closed, generation, exit, slipped>>

-----------------------------------------------------------------------------
(* The end of the application: the interface stops and joins the workers it *)
(* shows, then the runtime closes its catalog.                              *)
Stop(children) ==
  /\ stopping' = [r \in Request |-> stopping[r] \/ r \in children]
  /\ queue' = [r \in Request |-> IF r \in children /\ ~stopping[r] /\ place[r] # "none"
                                 THEN Append(queue[r], "stop") ELSE queue[r]]
  /\ UNCHANGED <<place, halted, completion>>

Joined(children) == \A r \in children : place[r] \in {"none", "dead"}

Quit ==
  /\ exit = "open" /\ exit' = "stopping"
  /\ \E shown \in SUBSET entries[generation] : Stop(shown)
  /\ UNCHANGED <<batchVars, catalogVars, reloadVars, slipped>>

(* Mutant of CloseCatalog: it does not stop what the interface did not show. *)
CloseCatalogShown ==
  /\ exit = "stopping" /\ parent # "collect" /\ reload = "none"
  /\ Joined({r \in Request : stopping[r]})
  /\ exit' = "closing" /\ closed' = [closed EXCEPT ![generation] = TRUE]
  /\ UNCHANGED <<batchVars, childVars, bound, entries, active, reloadVars, slipped>>

CloseCatalog ==
  /\ exit = "stopping" /\ parent # "collect" /\ reload = "none"
  /\ Joined({r \in Request : stopping[r]})
  /\ exit' = "closing" /\ closed' = [closed EXCEPT ![generation] = TRUE]
  /\ Stop(entries[generation])
  /\ UNCHANGED <<batchVars, bound, entries, active, reloadVars, slipped>>

JoinCatalog ==
  /\ exit = "closing" /\ Joined(entries[generation])
  /\ exit' = "closed"
  /\ UNCHANGED <<batchVars, childVars, catalogVars, reloadVars, slipped>>

-----------------------------------------------------------------------------
PoolThread(r) == Starts(r) \/ CreateChild(r) \/ Waits(r)
ChildThread(r) == Takes(r) \/ Refuses(r) \/ Begins(r) \/ Finishes(r) \/ Rests(r)
Replacement == RestoreCatalog \/ Activate \/ Reconfigure
Closing == CloseCatalog \/ JoinCatalog

DelegationNext ==
  \/ Delegate \/ CancelTurn \/ Collects
  \/ \E r \in Request : PoolThread(r) \/ ChildThread(r) \/ StopChild(r)
  \/ ExportCatalog \/ DiscardCatalog \/ Replacement
  \/ Quit \/ Closing

(* Threads are scheduled, tasks end by themselves or at their next check,   *)
(* and a staged generation is activated or discarded. Nothing is assumed of *)
(* the user.                                                                *)
Fairness ==
  /\ WF_delegationVars(Collects) /\ WF_delegationVars(Replacement) /\ WF_delegationVars(Closing)
  /\ \A r \in Request : WF_delegationVars(PoolThread(r)) /\ WF_delegationVars(ChildThread(r))

DelegationSpec == DelegationInit /\ [][DelegationNext]_delegationVars
DelegationFairSpec == DelegationSpec /\ Fairness

-----------------------------------------------------------------------------
DelegationTypeOK ==
  /\ parent \in {"idle", "collect", "returned", "aborted"}
  /\ cancel \in BOOLEAN /\ source \in Generation /\ generation \in Generation
  /\ thread \in [Request -> {"none", "queued", "create", "wait", "done", "raised", "dropped"}]
  /\ result \in [Request -> {"none", "completed", "failed", "cancelled"}]
  /\ place \in [Request -> {"none", "get", "took", "working", "cleared", "dead"}]
  /\ queue \in [Request -> Seq({"task", "stop"})]
  /\ halted \in [Request -> BOOLEAN] /\ stopping \in [Request -> BOOLEAN]
  /\ completion \in [Request -> {"none", "pending", "completed", "failed", "cancelled"}]
  /\ bound \in [Request -> Generation]
  /\ entries \in [Generation -> SUBSET Request] /\ active \in [Generation -> SUBSET Request]
  /\ closed \in [Generation -> BOOLEAN]
  /\ reload \in {"none", "exported", "restored", "active"}
  /\ exit \in {"open", "stopping", "closing", "closed"}
  /\ slipped \subseteq Request

(* A request that has a result has that of its own child: a report only for *)
(* a task that completed, a cancelled one only for a task stopped in its    *)
(* child chat, a failure only for a task that failed, whose report was too  *)
(* long or that never began.                                                *)
ResultsAreTrue ==
  \A r \in Request :
    /\ result[r] \in {"completed", "cancelled"} => completion[r] = result[r]
    /\ result[r] = "failed" => completion[r] \in {"none", "failed", "completed"}

(* A batch gives up only because its turn was cancelled or is closing: a    *)
(* child that fails or is stopped costs neither its siblings nor the report. *)
SiblingsReport ==
  /\ parent = "aborted" => Cancelled
  /\ parent = "returned" => \A r \in Request : result[r] # "none"

BatchIsTrue == DelegationTypeOK /\ ResultsAreTrue /\ SiblingsReport

(* When the runtime has closed no child of the active generation has a      *)
(* thread, and no pool thread that outlived its turn starts another one.    *)
CloseIsFinal ==
  exit = "closed" =>
    \A r \in Request : place[r] \notin {"none", "dead"} => source # generation

(* While the application is open and no generation is being replaced, the   *)
(* catalog counts exactly the children that work. A child that went to work *)
(* or rested during a replacement may be counted wrongly from then on.      *)
CountIsTrue ==
  exit = "open" /\ reload = "none" =>
    \A r \in entries[generation] \ slipped :
      /\ place[r] = "working" => r \in active[generation]
      /\ place[r] \in {"none", "get", "dead"} => r \notin active[generation]

(* What the catalog says of its children is true, and true to the end.      *)
CatalogIsTrue == CloseIsFinal /\ CountIsTrue

(* A turn that delegates gets its results or is cancelled, and the          *)
(* application that quits closes, whatever the threads of a batch, the      *)
(* children and a replacement are doing then.                               *)
DelegationEnds ==
  (parent = "collect" \/ exit = "stopping") ~> (parent # "collect" /\ exit \in {"open", "closed"})
=============================================================================
