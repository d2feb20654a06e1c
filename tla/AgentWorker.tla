----------------------------- MODULE AgentWorker -----------------------------
(* Background threads that run one job after the other (raychat/workers.py): *)
(* the queue of jobs and controls, cancellation, approvals, the events that *)
(* are published and the flags that others read. Clients call from other    *)
(* threads, between any two steps; each call is its section of the state    *)
(* lock. Lifecycle events that nobody acts on are left out.                 *)
EXTENDS Naturals, Sequences, FiniteSets, SequencesExt

CONSTANTS Worker,
          Unborn,          \* the workers whose thread starts with the first job
          MaxJobs,         \* bound: jobs submitted to each worker
          MaxControls,     \* bound: resets and reconfigurations of a worker
          MaxApprovals     \* bound: approvals a worker asks for

ASSUME WorkerAssumption ==
  /\ Unborn \subseteq Worker /\ MaxJobs \in [Worker -> Nat]
  /\ {MaxControls, MaxApprovals} \subseteq Nat

VARIABLES jobs,        \* _jobs
          accepted,    \* _accepted_jobs
          cancelled,   \* _cancelled_jobs
          stopping,    \* _stop_flag
          processing,  \* _processing
          controls,    \* _pending_controls
          pc,          \* where the thread is
          job,         \* the job it took; _active_job until "observe"
          result,      \* how that job ends
          approvals,   \* the last approval identifier
          pending,     \* _pending_approval; 0 for None
          answered,    \* _approval_answered
          answers,     \* _approval_answers: <<approval, decision>>
          events,      \* published and not yet drained
          issued       \* the last job identifier

queueVars == <<jobs, accepted, cancelled, stopping, controls, issued>>
threadVars == <<processing, pc, job, result>>
approvalVars == <<approvals, pending, answered, answers>>
workerVars == <<queueVars, threadVars, approvalVars, events>>

JobItem(j) == [kind |-> "job", id |-> j]
Control == [kind |-> "control", id |-> 0]
StopItem == [kind |-> "stop", id |-> 0]

Event(kind, j, a) == [kind |-> kind, job |-> j, approval |-> a]
Publish(w, kind, a) == events' = [events EXCEPT ![w] = Append(@, Event(kind, job[w], a))]

WorkerInit ==
  /\ jobs = [w \in Worker |-> <<>>]
  /\ accepted = [w \in Worker |-> {}] /\ cancelled = [w \in Worker |-> {}]
  /\ stopping = [w \in Worker |-> FALSE] /\ processing = [w \in Worker |-> FALSE]
  /\ controls = [w \in Worker |-> 0]
  /\ pc = [w \in Worker |-> IF w \in Unborn THEN "unborn" ELSE "get"]
  /\ job = [w \in Worker |-> 0] /\ result = [w \in Worker |-> "none"]
  /\ approvals = [w \in Worker |-> 0] /\ pending = [w \in Worker |-> 0]
  /\ answered = [w \in Worker |-> FALSE] /\ answers = [w \in Worker |-> <<>>]
  /\ events = [w \in Worker |-> <<>>]
  /\ issued = [w \in Worker |-> 0]

(* What a handoff asks before it takes the conversations away.              *)
Quiescent(w) ==
  accepted[w] = {} /\ ~processing[w] /\ controls[w] = 0 /\ jobs[w] = <<>>

(* _check_stopped raises.                                                   *)
Stopped(w) == stopping[w] \/ job[w] \in cancelled[w]

Active(w) == pc[w] \in {"begin", "refuse", "work", "asked", "asking", "acting",
                        "finishing", "report", "clear"}

Goto(w, place) == pc' = [pc EXCEPT ![w] = place]
Unwind(w, place, how) == Goto(w, place) /\ result' = [result EXCEPT ![w] = how]

-----------------------------------------------------------------------------
(* Calls of other threads. Whatever raises in a worker that is stopping is  *)
(* not enabled there.                                                       *)
Submit(w) ==
  /\ ~stopping[w] /\ issued[w] < MaxJobs[w]
  /\ issued' = [issued EXCEPT ![w] = @ + 1]
  /\ accepted' = [accepted EXCEPT ![w] = @ \cup {issued'[w]}]
  /\ jobs' = [jobs EXCEPT ![w] = Append(@, JobItem(issued'[w]))]
  /\ pc' = [pc EXCEPT ![w] = IF @ = "unborn" THEN "get" ELSE @]
  /\ UNCHANGED <<cancelled, stopping, controls, processing, job, result, approvalVars, events>>

(* cancel_current: an answer that races with it is refused from now on.     *)
Cancel(w, j) ==
  /\ j \in accepted[w]
  /\ cancelled' = [cancelled EXCEPT ![w] = @ \cup {j}]
  /\ IF Active(w) /\ j = job[w]
     THEN pending' = [pending EXCEPT ![w] = 0] /\ answered' = [answered EXCEPT ![w] = FALSE]
     ELSE UNCHANGED <<pending, answered>>
  /\ UNCHANGED <<jobs, accepted, stopping, controls, issued, threadVars, approvals, answers, events>>

(* Mutant of Answerable: a second answer counts too.                        *)
AnswerableTwice(w, a) == a # 0 /\ a = pending[w]

(* respond_approval: the first answer to the approval that is up counts.    *)
Answerable(w, a) == a # 0 /\ a = pending[w] /\ ~answered[w]

Respond(w, a, decision) ==
  /\ Answerable(w, a)
  /\ answered' = [answered EXCEPT ![w] = TRUE]
  /\ answers' = [answers EXCEPT ![w] = Append(@, <<a, decision>>)]
  /\ UNCHANGED <<queueVars, threadVars, approvals, pending, events>>

(* reset and reconfigure.                                                   *)
AddControl(w) ==
  /\ ~stopping[w] /\ controls[w] < MaxControls
  /\ controls' = [controls EXCEPT ![w] = @ + 1]
  /\ jobs' = [jobs EXCEPT ![w] = Append(@, Control)]
  /\ pc' = [pc EXCEPT ![w] = IF @ = "unborn" THEN "get" ELSE @]
  /\ UNCHANGED <<accepted, cancelled, stopping, issued, processing, job, result, approvalVars, events>>

Stop(w) ==
  /\ ~stopping[w]
  /\ stopping' = [stopping EXCEPT ![w] = TRUE]
  /\ jobs' = [jobs EXCEPT ![w] = Append(@, StopItem)]
  /\ UNCHANGED <<accepted, cancelled, controls, issued, threadVars, approvalVars, events>>

-----------------------------------------------------------------------------
(* The thread.                                                              *)
Get(w) ==
  /\ pc[w] = "get" /\ jobs[w] # <<>>
  /\ jobs' = [jobs EXCEPT ![w] = Tail(@)]
  /\ IF Head(jobs[w]) = StopItem
     THEN Goto(w, "closing") /\ UNCHANGED job
     ELSE Goto(w, "took") /\ job' = [job EXCEPT ![w] = Head(jobs[w]).id]
  /\ UNCHANGED <<accepted, cancelled, stopping, controls, issued, processing, result, approvalVars, events>>

(* _run and _run_job: a worker that is stopping cancels what it still takes. *)
Take(w) ==
  /\ pc[w] = "took"
  /\ processing' = [processing EXCEPT ![w] = TRUE]
  /\ IF job[w] = 0 THEN Goto(w, "control") /\ UNCHANGED result
     ELSE IF stopping[w] THEN Unwind(w, "refuse", "cancelled")
     ELSE Goto(w, "begin") /\ UNCHANGED result
  /\ UNCHANGED <<queueVars, job, approvalVars, events>>

Keeps == UNCHANGED <<queueVars, processing, job, approvalVars>>

(* Mutant of Begin: whether the job was cancelled meanwhile is not asked.   *)
BeginUnchecked(w) ==
  /\ pc[w] = "begin"
  /\ Goto(w, "work") /\ UNCHANGED result
  /\ UNCHANGED events /\ Keeps

(* _perform_job up to its first check: the observer or the factory of the   *)
(* conversation may raise.                                                  *)
Begin(w) ==
  /\ pc[w] = "begin"
  /\ \/ Stopped(w) /\ Unwind(w, "refuse", "cancelled")
     \/ ~Stopped(w) /\ Goto(w, "work") /\ UNCHANGED result
     \/ Unwind(w, "refuse", "error")
  /\ UNCHANGED events /\ Keeps

(* The task looks at the flags now and then; anything may raise in it.      *)
SeesStop(w) ==
  /\ pc[w] \in {"work", "asked", "acting", "finishing"} /\ Stopped(w)
  /\ Unwind(w, "report", "cancelled")
  /\ UNCHANGED events /\ Keeps

Raise(w) ==
  /\ pc[w] \in {"work", "acting"}
  /\ Unwind(w, "report", "error")
  /\ UNCHANGED events /\ Keeps

(* _approval_callback                                                       *)
Ask(w) ==
  /\ pc[w] = "work" /\ ~Stopped(w) /\ approvals[w] < MaxApprovals
  /\ Goto(w, "asked")
  /\ UNCHANGED <<result, events>> /\ Keeps

Post(w) ==
  /\ pc[w] = "asked"
  /\ approvals' = [approvals EXCEPT ![w] = @ + 1]
  /\ pending' = [pending EXCEPT ![w] = approvals'[w]]
  /\ answered' = [answered EXCEPT ![w] = FALSE]
  /\ Goto(w, "asking")
  /\ Publish(w, "approval_required", approvals'[w])
  /\ UNCHANGED <<queueVars, processing, job, result, answers>>

ClearsApproval(w) ==
  /\ pending' = [pending EXCEPT ![w] = IF @ = approvals[w] THEN 0 ELSE @]
  /\ answered' = [answered EXCEPT ![w] = IF pending[w] = approvals[w] THEN FALSE ELSE @]

(* Mutant of Answered: an answer to any approval is taken.                  *)
AnsweredAny(w) == answers[w] # <<>>

Answered(w) == answers[w] # <<>> /\ Head(answers[w])[1] = approvals[w]

(* An answer to an earlier approval is dropped. A denied action is answered *)
(* for, an approved one carried out; both end in a result.                  *)
TakeAnswer(w) ==
  /\ pc[w] = "asking" /\ answers[w] # <<>> /\ ~Stopped(w)
  /\ answers' = [answers EXCEPT ![w] = Tail(@)]
  /\ IF Answered(w) THEN Goto(w, "acting") /\ ClearsApproval(w)
                    ELSE UNCHANGED <<pc, pending, answered>>
  /\ UNCHANGED <<queueVars, processing, job, result, approvals, events>>

StopAsking(w) ==
  /\ pc[w] = "asking" /\ Stopped(w)
  /\ Unwind(w, "report", "cancelled") /\ ClearsApproval(w)
  /\ UNCHANGED <<queueVars, processing, job, approvals, answers, events>>

Act(w) ==
  /\ pc[w] = "acting" /\ ~Stopped(w)
  /\ Goto(w, "work") /\ Publish(w, "result", 0)
  /\ UNCHANGED result /\ Keeps

(* The reply is published before the last check of the job.                 *)
Reply(w) ==
  /\ pc[w] = "work" /\ ~Stopped(w)
  /\ Goto(w, "finishing") /\ Publish(w, "done", 0)
  /\ UNCHANGED result /\ Keeps

Finish(w) ==
  /\ pc[w] = "finishing" /\ ~Stopped(w)
  /\ Unwind(w, "report", "completed")
  /\ UNCHANGED events /\ Keeps

(* _complete_job: the terminal event.                                       *)
Report(w) ==
  /\ pc[w] \in {"refuse", "report"}
  /\ Publish(w, result[w], 0)
  /\ Goto(w, "clear")
  /\ UNCHANGED <<queueVars, processing, job, result, approvalVars>>

(* Mutants of Clear: a cancellation outlives its job; the worker calls      *)
(* itself idle before its activity observer ran.                            *)
ClearKeepsCancelled(w) ==
  /\ pc[w] = "clear"
  /\ accepted' = [accepted EXCEPT ![w] = @ \ {job[w]}]
  /\ Unwind(w, "observe", "none")
  /\ UNCHANGED <<jobs, cancelled, stopping, controls, issued, processing, job, approvalVars, events>>

ClearReleases(w) ==
  /\ pc[w] = "clear"
  /\ accepted' = [accepted EXCEPT ![w] = @ \ {job[w]}]
  /\ cancelled' = [cancelled EXCEPT ![w] = @ \ {job[w]}]
  /\ processing' = [processing EXCEPT ![w] = FALSE]
  /\ Unwind(w, "observe", "none")
  /\ UNCHANGED <<jobs, stopping, controls, issued, job, approvalVars, events>>

(* The end of _run_job; the activity observer runs after it.                *)
Clear(w) ==
  /\ pc[w] = "clear"
  /\ accepted' = [accepted EXCEPT ![w] = @ \ {job[w]}]
  /\ cancelled' = [cancelled EXCEPT ![w] = @ \ {job[w]}]
  /\ Unwind(w, "observe", "none")
  /\ UNCHANGED <<jobs, stopping, controls, issued, processing, job, approvalVars, events>>

Release(w) ==
  /\ pc[w] \in {"control", "observe"}
  /\ processing' = [processing EXCEPT ![w] = FALSE]
  /\ controls' = [controls EXCEPT ![w] = IF pc[w] = "control" THEN @ - 1 ELSE @]
  /\ job' = [job EXCEPT ![w] = 0]
  /\ Goto(w, "get")
  /\ UNCHANGED <<jobs, accepted, cancelled, stopping, issued, result, approvalVars, events>>

(* The conversation is closed; the thread ends.                             *)
Close(w) ==
  /\ pc[w] = "closing" /\ Goto(w, "dead")
  /\ UNCHANGED <<queueVars, processing, job, result, approvalVars, events>>

Thread(w) == \/ Get(w) \/ Take(w) \/ Begin(w) \/ SeesStop(w) \/ Raise(w)
             \/ Ask(w) \/ Post(w) \/ TakeAnswer(w) \/ StopAsking(w) \/ Act(w)
             \/ Reply(w) \/ Finish(w) \/ Report(w) \/ Clear(w) \/ Release(w) \/ Close(w)

(* get_event: whoever reads the events takes them in order.                 *)
Drained(w) == events[w] # <<>> /\ events' = [events EXCEPT ![w] = Tail(@)]

Drain(w) == Drained(w) /\ UNCHANGED <<queueVars, threadVars, approvalVars>>

Client(w) == \/ Submit(w) \/ AddControl(w) \/ Stop(w) \/ Drain(w)
             \/ \E j \in 1..MaxJobs[w] : Cancel(w, j)
             \/ \E a \in 1..MaxApprovals, d \in BOOLEAN : Respond(w, a, d)

WorkerNext == \E w \in Worker : Thread(w) \/ Client(w)
WorkerSpec == WorkerInit /\ [][WorkerNext]_workerVars

-----------------------------------------------------------------------------
Places == {"unborn", "get", "took", "control", "begin", "refuse", "work", "asked", "asking",
           "acting", "finishing", "report", "clear", "observe", "closing", "dead"}

EventKinds == {"approval_required", "result", "done", "completed", "error", "cancelled",
               "session_restored"}

TypeOK ==
  /\ jobs \in [Worker -> Seq([kind : {"job", "control", "stop"}, id : Nat])]
  /\ accepted \in [Worker -> SUBSET Nat] /\ cancelled \in [Worker -> SUBSET Nat]
  /\ \A w \in Worker : cancelled[w] \subseteq accepted[w]
  /\ stopping \in [Worker -> BOOLEAN] /\ processing \in [Worker -> BOOLEAN]
  /\ controls \in [Worker -> Nat] /\ issued \in [Worker -> Nat]
  /\ pc \in [Worker -> Places] /\ job \in [Worker -> Nat]
  /\ result \in [Worker -> {"none", "cancelled", "error", "completed"}]
  /\ approvals \in [Worker -> Nat] /\ pending \in [Worker -> Nat]
  /\ answered \in [Worker -> BOOLEAN]
  /\ answers \in [Worker -> Seq(Nat \X BOOLEAN)]
  /\ events \in [Worker -> Seq([kind : EventKinds, job : Nat, approval : Nat])]

(* A worker that calls itself quiescent runs no job, no control and no      *)
(* activity observer, and has none to come: what handoffs, restorations and *)
(* the export of child sessions rely on before they touch its conversation. *)
QuietMeansIdle ==
  \A w \in Worker : Quiescent(w) => pc[w] \in {"unborn", "get", "closing", "dead"}

(* The approval that can be answered is the one the job waits for, and at   *)
(* most one answer to it is on its way: the first.                          *)
OneAnswer ==
  \A w \in Worker :
    pending[w] # 0 =>
      /\ pc[w] = "asking" /\ pending[w] = approvals[w]
      /\ Cardinality({i \in 1..Len(answers[w]) : answers[w][i][1] = pending[w]})
           = IF answered[w] THEN 1 ELSE 0

(* A job goes on with an action only on an answer to the approval that is   *)
(* up, not on one that was meant for an earlier job or came twice.          *)
GrantWasGiven ==
  [][\A w \in Worker : pc[w] = "asking" /\ pc'[w] = "acting"
                         => pending[w] = approvals[w] /\ answered[w]]_workerVars

(* What others see of a worker is what its thread does, and every action    *)
(* that needs an approval has its own, answered once.                       *)
WorkerIsSound == [](TypeOK /\ QuietMeansIdle /\ OneAnswer) /\ GrantWasGiven

=============================================================================
