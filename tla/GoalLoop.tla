------------------------------- MODULE GoalLoop -------------------------------
(* Goal mode (plugins/goals/): a turn that ends while a goal is set is       *)
(* reviewed by a judge and goes on until the judge is content, while /goal   *)
(* sets and clears the goal from the command thread. The answer of the model *)
(* and that of the judge are requests to an isolated worker. Before any turn *)
(* the host may instead make one of the other calls of IsolatedRequest. A    *)
(* turn is one request, whose answer is its done action; its journal never   *)
(* refuses; the goal's objective is its revision.                            *)
EXTENDS IsolatedRequest

CONSTANTS MaxRevision,   \* bound: goals set and cleared by commands
          MaxRequest,    \* bound: requests to the model and the judge
          MaxMessage     \* bound: messages of the user

ASSUME GoalAssumption ==
  MaxRevision \in Nat /\ MaxRequest \in Nat /\ MaxMessage \in Nat

Thread == {"turn", "lane"}

VARIABLES
  goal,        \* _status: the revision of the goal, 0 without one
  revision,    \* _revision
  memory,      \* ctx.state: the goal in the session's plugin state
  saved,       \* the same in the journal's selected snapshot
  live,        \* a turn of the session is open (_rollback_state is not None)
  rollback,    \* the goal in _rollback_state
  turn,        \* where the thread of the conversation is
  reviewed,    \* the goal under review
  draft,       \* final_done: the number of the answer it holds
  lane,        \* where the command thread is
  saving,      \* per thread, how far _GoalHooks.save is
  seen,        \* per thread, the status that save read
  requests, messages,  \* counters
  judged,      \* history: the goals the judge called complete
  completed,   \* history: the goals accept_decision ended
  shown,       \* history: per message, the answers the user has seen
  rejected,    \* history: the answers the judge sent back
  raced        \* history: one of the cases GoalIsKept excludes

goalVars == <<goal, revision>>
stateVars == <<memory, saved, live, rollback>>
turnVars == <<turn, reviewed, draft>>
saveVars == <<saving, seen>>
bounds == <<requests, messages>>
ghosts == <<judged, completed, shown, rejected>>
vars == <<requestVars, goalVars, stateVars, turnVars, lane, saveVars, bounds, ghosts, raced>>

Init ==
  /\ RequestInit
  /\ goal = 0 /\ revision = 0
  /\ memory = 0 /\ saved = 0 /\ live = FALSE /\ rollback = 0
  /\ turn = "idle" /\ reviewed = 0 /\ draft = 0 /\ lane = "idle"
  /\ saving = [t \in Thread |-> "none"] /\ seen = [t \in Thread |-> 0]
  /\ requests = 0 /\ messages = 0
  /\ judged = {} /\ completed = {} /\ rejected = {} /\ raced = FALSE
  /\ shown = [n \in 1..MaxMessage |-> {}]

\* The memory of the loop goes with its process, and so do the histories.
LoopReset ==
  /\ goal' = 0 /\ revision' = 0
  /\ memory' = 0 /\ live' = FALSE /\ rollback' = 0
  /\ turn' = "idle" /\ reviewed' = 0 /\ draft' = 0 /\ lane' = "idle"
  /\ saving' = [t \in Thread |-> "none"] /\ seen' = [t \in Thread |-> 0]
  /\ requests' = 0 /\ messages' = 0
  /\ judged' = {} /\ completed' = {} /\ rejected' = {} /\ raced' = FALSE
  /\ shown' = [n \in 1..MaxMessage |-> {}]

\* A host that died, and a host that makes one of the other calls, does
\* nothing of this module.
Up == host # "dead" /\ kind \in {"none", "chat"}

-----------------------------------------------------------------------------
(* _GoalHooks.save, by either thread: no lock covers its three steps.       *)

SaveReads(t) ==
  /\ saving[t] = "due"
  /\ saving' = [saving EXCEPT ![t] = "read"] /\ seen' = [seen EXCEPT ![t] = goal]
  /\ UNCHANGED memory

SaveClears(t) ==
  /\ saving[t] = "read"
  /\ saving' = [saving EXCEPT ![t] = "cleared"] /\ memory' = 0
  /\ UNCHANGED seen

SaveWrites(t) ==
  /\ saving[t] = "cleared"
  /\ saving' = [saving EXCEPT ![t] = "done"] /\ memory' = seen[t]
  /\ UNCHANGED seen

Save(t) ==
  /\ Up
  /\ SaveReads(t) \/ SaveClears(t) \/ SaveWrites(t)
  /\ UNCHANGED <<requestVars, goalVars, saved, live, rollback, turnVars, lane,
                 bounds, ghosts, raced>>

\* Both threads are between the change of the goal or the start of a save and
\* the checkpoint that follows.
Both(t) == raced' = (raced \/ (IF t = "lane" THEN saving["turn"] # "none" ELSE lane # "idle"))

-----------------------------------------------------------------------------
(* The command thread.                                                      *)

Apply(status) ==
  /\ Up /\ lane = "idle" /\ revision < MaxRevision
  /\ revision' = revision + 1 /\ goal' = status
  /\ lane' = "save" /\ saving' = [saving EXCEPT !["lane"] = "due"]
  /\ Both("lane")
  /\ UNCHANGED <<requestVars, stateVars, turnVars, seen, bounds, ghosts>>

SetGoal == Apply(revision + 1)
ClearGoal == Apply(0)

\* Mutant of Checkpoint: a turn that is undone goes back behind it.
CheckpointSavedOnly ==
  /\ Up /\ lane = "save" /\ saving["lane"] = "done"
  /\ saved' = memory /\ UNCHANGED rollback
  /\ lane' = "idle" /\ saving' = [saving EXCEPT !["lane"] = "none"]
  /\ UNCHANGED <<requestVars, goalVars, memory, live, turnVars, seen, bounds, ghosts, raced>>

\* ctx.checkpoint(): with a turn open, in the state it would return to as well.
Checkpoint ==
  /\ Up /\ lane = "save" /\ saving["lane"] = "done"
  /\ saved' = memory /\ rollback' = IF live THEN memory ELSE rollback
  /\ lane' = "idle" /\ saving' = [saving EXCEPT !["lane"] = "none"]
  /\ UNCHANGED <<requestVars, goalVars, memory, live, turnVars, seen, bounds, ghosts, raced>>

-----------------------------------------------------------------------------
(* The conversation's thread.                                               *)

\* A request, and where the thread waits for it.
Ask(pc) ==
  /\ requests < MaxRequest /\ requests' = requests + 1
  /\ Request("chat") /\ turn' = pc

\* session.send opens its turn.
Send ==
  /\ Ask("send") /\ live' = TRUE /\ rollback' = memory
  /\ UNCHANGED <<goalVars, memory, saved, reviewed, draft, lane, saveVars, ghosts, raced>>

Message ==
  /\ Up /\ turn = "idle" /\ messages < MaxMessage /\ ~asked
  /\ messages' = messages + 1 /\ Send

\* The turn is undone, and the thread goes on somewhere.
Abort(pc) ==
  /\ live' = FALSE /\ memory' = IF live THEN rollback ELSE memory
  /\ saving' = [saving EXCEPT !["turn"] = "none"]
  /\ turn' = pc /\ raced' = (raced \/ (live /\ lane # "idle"))
  /\ UNCHANGED <<requestVars, goalVars, saved, rollback, reviewed, draft, lane, seen,
                 bounds, ghosts>>

Sent == Up /\ turn = "send" /\ host = "over"

\* send_once and send: a failure is retried while there is a goal.
SendEnds ==
  /\ Sent
  /\ \/ answer = "cancelled" /\ Abort("idle")
     \/ answer = "failed" /\ Abort("failed")
     \/ /\ answer = "answered" /\ turn' = "end"
        /\ saving' = [saving EXCEPT !["turn"] = "due"] /\ Both("turn")
        /\ UNCHANGED <<requestVars, goalVars, stateVars, reviewed, draft, lane, seen,
                       bounds, ghosts>>

SendFailed ==
  /\ Up /\ turn = "failed" /\ \E retryable \in BOOLEAN :
       turn' = IF retryable /\ goal # 0 THEN "resend" ELSE "idle"
  /\ UNCHANGED <<requestVars, goalVars, stateVars, reviewed, draft, lane, saveVars,
                 bounds, ghosts, raced>>

\* commit_turn after the hooks of TURN_END, which a cancellation may end.
Commit ==
  /\ Up /\ turn = "end"
  /\ \/ asked /\ Abort("idle")
     \/ /\ saving["turn"] = "done"
        /\ saved' = memory /\ live' = FALSE
        /\ saving' = [saving EXCEPT !["turn"] = "none"]
        /\ turn' = "look" /\ draft' = requests
        /\ UNCHANGED <<requestVars, goalVars, memory, rollback, reviewed, lane, seen,
                       bounds, ghosts, raced>>

Goes(pc) ==
  /\ turn' = pc
  /\ UNCHANGED <<requestVars, goalVars, stateVars, reviewed, draft, lane, saveVars,
                 bounds, ghosts, raced>>

\* Mutant of Raises: the wait for a retry does not ask.
RaisesAwake ==
  /\ Up /\ asked
  /\ turn \in {"look", "review", "complete", "incomplete", "finish", "again"}
  /\ turn' = "idle"
  /\ UNCHANGED <<requestVars, goalVars, stateVars, reviewed, draft, lane, saveVars,
                 bounds, ghosts, raced>>

\* cancel_check, or the check in the callback of an event. Behind the decision
\* it leaves a completed goal unsaved.
Unsaved == turn = "finish" /\ reviewed \in completed

Raises ==
  /\ Up /\ asked
  /\ turn \in {"resend", "look", "review", "rejudge", "complete", "incomplete",
               "finish", "again"}
  /\ turn' = "idle" /\ raced' = (raced \/ Unsaved)
  /\ UNCHANGED <<requestVars, goalVars, stateVars, reviewed, draft, lane, saveVars,
                 bounds, ghosts>>

\* Mutant of Look: the answer is shown before it is judged.
LookShown ==
  /\ Up /\ turn = "look"
  /\ turn' = IF goal = 0 THEN "finish" ELSE "review"
  /\ reviewed' = goal /\ shown' = [shown EXCEPT ![messages] = @ \cup {draft}]
  /\ UNCHANGED <<requestVars, goalVars, stateVars, draft, lane, saveVars, bounds, judged,
                 completed, rejected, raced>>

\* run: the answer stands without a goal, or goes to the judge.
Look ==
  /\ Up /\ turn = "look"
  /\ turn' = IF goal = 0 THEN "finish" ELSE "review"
  /\ reviewed' = goal
  /\ UNCHANGED <<requestVars, goalVars, stateVars, draft, lane, saveVars, bounds, ghosts, raced>>

Review ==
  /\ Up /\ turn = "review" /\ ~asked /\ Ask("judge")
  /\ UNCHANGED <<goalVars, stateVars, reviewed, draft, lane, saveVars, messages, ghosts, raced>>

\* decide and review_once. A reply that is no decision can be retried too.
Judged == Up /\ turn = "judge" /\ host = "over"

Decides ==
  /\ Judged /\ answer = "answered" /\ ~asked
  /\ \E decision \in {"complete", "incomplete"} :
       /\ turn' = decision
       /\ judged' = IF decision = "complete" THEN judged \cup {reviewed} ELSE judged
  /\ UNCHANGED <<requestVars, goalVars, stateVars, reviewed, draft, lane, saveVars, bounds,
                 completed, shown, rejected, raced>>

JudgeFails ==
  /\ Judged
  /\ \/ (answer = "cancelled" \/ asked) /\ Goes("idle")
     \/ /\ answer # "cancelled" /\ ~asked
        /\ \E retryable \in BOOLEAN :
             /\ answer = "answered" => retryable
             /\ Goes(CASE goal = 0 -> "finish"
                       [] goal \notin {0, reviewed} -> "look"
                       [] goal = reviewed -> IF retryable THEN "rejudge" ELSE "idle")

\* wait_for_retry, of the agent and of the judge.
Retry ==
  /\ Up
  /\ \/ /\ turn = "resend" /\ goal # 0 /\ ~asked
        /\ Send /\ UNCHANGED messages
     \/ (turn = "resend" /\ goal = 0 /\ Goes("idle"))
     \/ (turn = "rejudge" /\ goal # reviewed /\ Goes("look"))
     \/ /\ turn = "rejudge" /\ goal = reviewed /\ ~asked /\ Ask("judge")
        /\ UNCHANGED <<goalVars, stateVars, reviewed, draft, lane, saveVars, messages, ghosts, raced>>

\* Mutant of Accept: the goal is not looked at again.
AcceptUnchecked ==
  /\ Up /\ turn \in {"complete", "incomplete"}
  /\ \/ /\ goal = 0 /\ turn' = "finish"
        /\ UNCHANGED <<goal, completed, rejected, saving, raced>>
     \/ /\ goal # 0 /\ turn = "complete"
        /\ turn' = "finish" /\ goal' = 0 /\ completed' = completed \cup {goal}
        /\ UNCHANGED <<rejected, saving, raced>>
     \/ /\ goal # 0 /\ turn = "incomplete"
        /\ turn' = "continue" /\ rejected' = rejected \cup {draft}
        /\ saving' = [saving EXCEPT !["turn"] = "due"] /\ Both("turn")
        /\ UNCHANGED <<goal, completed>>
  /\ UNCHANGED <<requestVars, revision, stateVars, reviewed, draft, lane, seen, bounds,
                 judged, shown>>

\* accept_decision, with the goal it finds.
Accept ==
  /\ Up /\ turn \in {"complete", "incomplete"}
  /\ \/ /\ goal = 0 /\ turn' = "finish"
        /\ UNCHANGED <<goal, completed, rejected, saving, raced>>
     \/ /\ goal \notin {0, reviewed} /\ turn' = "look"
        /\ UNCHANGED <<goal, completed, rejected, saving, raced>>
     \/ /\ goal = reviewed /\ goal # 0 /\ turn = "complete"
        /\ turn' = "finish" /\ goal' = 0 /\ completed' = completed \cup {goal}
        /\ UNCHANGED <<rejected, saving, raced>>
     \/ /\ goal = reviewed /\ goal # 0 /\ turn = "incomplete"
        /\ turn' = "continue" /\ rejected' = rejected \cup {draft}
        /\ saving' = [saving EXCEPT !["turn"] = "due"] /\ Both("turn")
        /\ UNCHANGED <<goal, completed>>
  /\ UNCHANGED <<requestVars, revision, stateVars, reviewed, draft, lane, seen, bounds,
                 judged, shown>>

\* The answer is shown; the event's callback may still raise.
Finish ==
  /\ Up /\ turn = "finish"
  /\ shown' = [shown EXCEPT ![messages] = @ \cup {draft}]
  /\ \/ /\ turn' = "after" /\ saving' = [saving EXCEPT !["turn"] = "due"] /\ Both("turn")
     \/ asked /\ turn' = "idle" /\ raced' = (raced \/ Unsaved) /\ UNCHANGED saving
  /\ UNCHANGED <<requestVars, goalVars, stateVars, reviewed, draft, lane, seen, bounds,
                 judged, completed, rejected>>

\* The middleware's own checkpoint.
Checkpoints ==
  /\ Up /\ turn \in {"after", "continue"} /\ saving["turn"] = "done"
  /\ saved' = memory /\ saving' = [saving EXCEPT !["turn"] = "none"]
  /\ turn' = IF turn = "after" THEN "idle" ELSE "again"
  /\ UNCHANGED <<requestVars, goalVars, memory, live, rollback, reviewed, draft, lane,
                 seen, bounds, ghosts, raced>>

\* Runtime.run goes on with the judge's feedback as the next prompt.
Continue == Up /\ turn = "again" /\ ~asked /\ Send /\ UNCHANGED messages

\* The worker forgets the cancellation with its job.
JobEnds ==
  /\ Up /\ turn = "idle" /\ asked /\ asked' = FALSE
  /\ UNCHANGED <<commandVars, host, kind, sent, taken, primary, answer, kept, workerVars,
                 frames, severed, goalVars, stateVars, turnVars, lane, saveVars, bounds,
                 ghosts, raced>>

-----------------------------------------------------------------------------

TurnStep ==
  \/ SendEnds \/ SendFailed \/ Commit \/ Raises \/ Look \/ Review \/ Decides
  \/ JudgeFails \/ Retry \/ Accept \/ Finish \/ Checkpoints \/ Continue
  \/ Save("turn")

LaneStep == SetGoal \/ ClearGoal \/ Save("lane") \/ Checkpoint

loopVars == <<goalVars, stateVars, turnVars, lane, saveVars, bounds, ghosts, raced>>

\* A call that is no request of the loop.
OtherCall ==
  /\ host = "idle" /\ revision = 0
  /\ Request("conversation") \/ Request("plugin_command") \/ RequestCommand

Busy == turn # "idle" \/ host \notin {"idle", "over", "dead"}

Outside ==
  /\ UNCHANGED loopVars
  /\ \/ OtherCall \/ HostStep \/ WorkerStep \/ Watch \/ OwnerStep \/ ProgramStep
     \/ Busy /\ Cancel

\* Of the loop only what the journal holds outlives the host.
Dies ==
  /\ HostDies /\ LoopReset
  /\ UNCHANGED saved

Next == Message \/ TurnStep \/ JobEnds \/ LaneStep \/ Outside \/ Dies

Spec == Init /\ [][Next]_vars

\* The host's loops, the threads that own a call and the watcher poll; a worker
\* that boots or leaves runs straight through, and so does the loop between its
\* calls. A worker at work, a program, the user and every fault take their time; so
\* may the readers while a process that could not be killed holds the pipes.
FairSpec ==
  /\ Spec
  /\ WF_vars(HostStep /\ UNCHANGED loopVars) /\ WF_vars(Watch /\ UNCHANGED loopVars)
  /\ WF_vars(OwnerStep /\ ~(loop = "read" /\ members) /\ UNCHANGED loopVars)
  /\ WF_vars(Boot /\ UNCHANGED loopVars) /\ WF_vars(Exit /\ UNCHANGED loopVars)
  /\ WF_vars(TurnStep)

-----------------------------------------------------------------------------

Goal == 0..MaxRevision

TypeOK ==
  /\ {goal, revision, memory, saved, rollback, reviewed} \subseteq Goal
  /\ {live, raced} \subseteq BOOLEAN
  /\ turn \in {"idle", "send", "failed", "resend", "end", "look", "review", "judge", "rejudge",
               "complete", "incomplete", "finish", "after", "continue", "again"}
  /\ lane \in {"idle", "save"}
  /\ saving \in [Thread -> {"none", "due", "read", "cleared", "done"}]
  /\ seen \in [Thread -> Goal]
  /\ requests \in 0..MaxRequest /\ draft \in 0..MaxRequest /\ messages \in 0..MaxMessage
  /\ judged \subseteq Goal /\ completed \subseteq Goal /\ rejected \subseteq 0..MaxRequest
  /\ shown \in [1..MaxMessage -> SUBSET (0..MaxRequest)]

\* An answer the judge sent back is never shown as the answer, a message gets
\* one answer at most, and a goal is completed only by a judge of that very goal:
\* setting or clearing it during a review ends the review's say
\* (filtered_event, accept_decision).
JudgeDecides ==
  /\ completed \subseteq judged
  /\ \A n \in DOMAIN shown :
       /\ shown[n] \cap rejected = {}
       /\ \A d, e \in shown[n] : d = e

Quiet == Up /\ turn = "idle" /\ lane = "idle" /\ saving["turn"] = "none"

\* With nothing under way the goal is the one a restart restores, after any mix
\* of completed, retried, cancelled and undone turns and of commands beside
\* them. Excluded are two saves at once, a turn undone between the save and the
\* checkpoint of a command, and a cancellation between the judge's acceptance
\* and the save behind it.
GoalIsStored == Quiet /\ ~raced => memory = goal /\ saved = goal

\* The goal is ended by its judge alone, and stored as it is.
GoalIsKept == TypeOK /\ JudgeDecides /\ GoalIsStored

Held == host = "command" /\ (outsider \/ (loop = "read" /\ members))

\* What somebody waits for: the end of a cancelled message or call, that of a
\* command, and that of the worker of a dead host.
Owed ==
  \/ asked /\ (turn # "idle" \/ host \notin {"over", "dead"})
  \/ host = "command"
  \/ host = "dead" /\ Alive

\* A cancelled message ends whether its thread waits for a worker, for a retry
\* or for nothing; a cancelled call ends, a command in time whatever it does,
\* and a worker does not outlive a dead host. Only a command that left a process
\* with its pipes, in another session or as killpg raised, is waited for as long as
\* that process.
CallsEnd == <>[]Held \/ []<>~Owed
=============================================================================
