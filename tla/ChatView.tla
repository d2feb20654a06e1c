------------------------------- MODULE ChatView -------------------------------
(* One chat of the terminal interface (raychat/ui/controller.py, state.py,  *)
(* message_queue.py) over its two workers: the conversation's own and the   *)
(* one that runs background commands. The interface is one thread; it reads *)
(* events, drains the queue and handles keys frame by frame, and the        *)
(* workers go on between any two of those steps. Drawing, the review a user *)
(* gives an approval and the other chats are left out.                      *)
EXTENDS AgentWorker

CONSTANT MaxInputs   \* bound: messages, pauses, edits, /clear, /resume and
                     \* core update results together; a command counts twice

ASSUME ViewAssumption ==
  /\ Worker = {"turn", "command"} /\ Unborn = {"command"}
  /\ MaxInputs \in Nat

VARIABLES phase,
          turn, command,   \* active_job_id, command_job_id; 0 for None
          startedIdle,     \* command_started_idle
          shown,           \* pending_approval_id
          line, editing,   \* message_queue: its items; an edit transaction is open
          picker,          \* the sessions are offered for /resume
          paused,          \* live.paused
          quitting, exited,
          alone,           \* the command began while no task ran (running=False)
          resumes,         \* the jobs that are /resume
          restored,        \* those that have restored their session
          raised,          \* where the interface raised an error
          sent, dropped,   \* history: messages submitted; removed by the user
          forgot,          \* history: the running turn was forgotten by the chat
          typed, extras

viewOnly == <<phase, turn, command, startedIdle, shown, line, editing, picker, paused, quitting,
              exited, alone, resumes, restored, raised, sent, dropped, forgot, typed, extras>>
vars == <<workerVars, viewOnly>>
turnView == <<phase, turn, shown>>
commandView == <<command, startedIdle>>
keyboard == <<line, editing, dropped>>
ending == <<quitting, exited, forgot>>
threadView == <<alone, restored>>
record == <<resumes, sent>>
counters == <<typed, extras>>
idleKeys == <<picker, paused>>

Init ==
  /\ WorkerInit
  /\ phase = "IDLE" /\ turn = 0 /\ command = 0 /\ startedIdle = FALSE /\ shown = 0
  /\ line = <<>> /\ editing = FALSE /\ picker = FALSE /\ paused = FALSE
  /\ quitting = FALSE /\ exited = FALSE
  /\ alone = FALSE /\ resumes = {} /\ restored = {} /\ raised = {}
  /\ sent = <<>> /\ dropped = {} /\ forgot = FALSE
  /\ typed = 0 /\ extras = 0

Up == raised = {} /\ ~exited

Room(n) == typed + extras + 2 * issued["command"] + n <= MaxInputs

(* Mutant of StopAll: a thread that waits for jobs is not woken.            *)
StopAllSilently ==
  /\ stopping' = [w \in Worker |-> TRUE]
  /\ UNCHANGED <<jobs, accepted, cancelled, controls, issued, threadVars, events>>

(* stop() of every worker: on leaving, and after an error in the interface. *)
StopAll ==
  /\ stopping' = [w \in Worker |-> TRUE]
  /\ jobs' = [w \in Worker |-> IF stopping[w] THEN jobs[w] ELSE Append(jobs[w], StopItem)]
  /\ UNCHANGED <<accepted, cancelled, controls, issued, threadVars, events>>

(* An error leaves the loop of the interface; _close stops the workers.     *)
Fails(place) ==
  /\ raised' = {place} /\ StopAll
  /\ UNCHANGED <<approvalVars, turnView, commandView, threadView, record, paused>>

(* state.start; it refuses while another task is under way.                 *)
Busy == phase \in {"RUNNING", "APPROVAL", "STOPPING"}

(* _submit_task and _submit. The supervisor records the dispatch, or has    *)
(* taken it away: then nothing is submitted.                                *)
StartTurn(place, messages) ==
  IF Busy THEN Fails(place)
  ELSE /\ phase' = "RUNNING" /\ Submit("turn") /\ turn' = issued'["turn"]
       /\ sent' = sent \o messages
       /\ resumes' = IF place = "picker" THEN resumes \cup {turn'} ELSE resumes
       /\ UNCHANGED <<commandView, shown, threadView, raised, paused>>

Refused ==
  /\ paused' = TRUE
  /\ UNCHANGED <<workerVars, turnView, commandView, threadView, record, raised, extras>>

-----------------------------------------------------------------------------
(* Keys.                                                                    *)
CanType == Up /\ ~quitting /\ ~editing /\ ~picker

Queues(m) == line' = Append(line, m)

Occupied == phase \in {"RUNNING", "STOPPING"} \/ turn # 0 \/ command # 0 \/ line # <<>>

(* Mutant of Waits: the queue is not looked at.                             *)
WaitsUnordered == paused \/ phase \in {"RUNNING", "STOPPING"} \/ turn # 0 \/ command # 0

(* _process_update_key and _process_session_key: what is typed has to wait. *)
Waits == paused \/ Occupied

TypeMessage ==
  /\ CanType /\ (phase = "APPROVAL" => paused) /\ Room(1)
  /\ typed' = typed + 1
  /\ \/ /\ Waits /\ Queues(typed')
        /\ UNCHANGED <<workerVars, turnView, commandView, threadView, record, raised,
                       paused, extras>>
     \/ /\ ~Waits /\ StartTurn("key", <<typed'>>)
        /\ UNCHANGED <<line, extras>>
     \/ ~Waits /\ Refused /\ Queues(typed')
  /\ UNCHANGED <<editing, picker, ending, dropped>>

(* _start_background_command, by a command typed while the chat is busy or  *)
(* a background command of the application at any time. One at a time.      *)
StartCommand ==
  /\ CanType /\ ~paused /\ command = 0
  /\ \/ /\ startedIdle' = (turn = 0)
        /\ IF turn = 0 /\ Busy
           THEN raised' = {"command"} /\ StopAll /\ UNCHANGED <<approvalVars, phase,
                                                                command>>
           ELSE /\ phase' = (IF turn = 0 THEN "RUNNING" ELSE phase) /\ Room(2)
                /\ Submit("command") /\ command' = issued'["command"]
                /\ UNCHANGED raised
        /\ UNCHANGED <<line, counters, paused, turn, shown, threadView, record>>
     \/ /\ Refused /\ Room(1) /\ typed' = typed + 1 /\ Queues(typed')
  /\ UNCHANGED <<editing, picker, ending, dropped>>

Elements(q) == {q[i] : i \in 1..Len(q)}
ClearLine == line' = <<>> /\ editing' = FALSE /\ dropped' = dropped \cup Elements(line)

(* Mutant of StopCommand: the phase outlives it.                            *)
StopCommandRunning ==
  /\ command # 0
  /\ IF command \in accepted["command"] THEN Cancel("command", command) ELSE UNCHANGED workerVars
  /\ command' = 0 /\ startedIdle' = FALSE
  /\ UNCHANGED <<phase, turn, shown>>

(* _process_cancel_key, first its command: the chat goes on at once.        *)
StopCommand ==
  /\ command # 0
  /\ IF command \in accepted["command"] THEN Cancel("command", command) ELSE UNCHANGED workerVars
  /\ phase' = IF startedIdle /\ turn = 0 THEN "IDLE" ELSE phase
  /\ command' = 0 /\ startedIdle' = FALSE
  /\ UNCHANGED <<turn, shown>>

(* Mutant of Stoppable: not while an approval is up.                        *)
StoppableRunning == {"RUNNING", "DONE"}

(* Where request_stop has an effect.                                        *)
Stoppable == {"RUNNING", "APPROVAL", "DONE"}

(* Mutant of StopTurn: the interface keeps the approval.                    *)
StopTurnKeepsApproval ==
  /\ command = 0 /\ turn # 0 /\ phase # "STOPPING"
  /\ Cancel("turn", turn)
  /\ phase' = IF phase \in Stoppable THEN "STOPPING" ELSE phase
  /\ UNCHANGED <<turn, shown, commandView>>

(* ... then its turn, unless that has ended unnoticed; request_stop.        *)
StopTurn ==
  /\ command = 0 /\ turn # 0 /\ phase # "STOPPING"
  /\ Cancel("turn", turn)
  /\ shown' = 0 /\ phase' = IF phase \in Stoppable THEN "STOPPING" ELSE phase
  /\ UNCHANGED <<turn, commandView>>

EscapeTwice ==
  /\ Up /\ ~quitting /\ ~picker
  /\ StopCommand \/ StopTurn
  /\ ClearLine
  /\ UNCHANGED <<idleKeys, ending, threadView, record, raised, counters>>

(* _resolve_approval; granted or denied, the task goes on.                  *)
Resolve ==
  /\ Up /\ phase = "APPROVAL" /\ shown # 0 /\ ~picker
  /\ Respond("turn", shown, TRUE)
  /\ phase' = "RUNNING" /\ shown' = 0
  /\ UNCHANGED <<turn, commandView, keyboard, idleKeys, ending, threadView, record,
                 raised, counters>>

(* The queue is opened for editing; the edit is saved, with the messages    *)
(* that were emptied deleted, or discarded.                                 *)
OpenEdit ==
  /\ Up /\ ~quitting /\ ~editing /\ ~picker /\ phase # "APPROVAL" /\ line # <<>> /\ Room(1)
  /\ editing' = TRUE /\ extras' = extras + 1
  /\ UNCHANGED <<workerVars, turnView, commandView, line, idleKeys, ending, threadView,
                 record, raised, dropped, typed>>

FinishEdit ==
  /\ Up /\ editing /\ phase # "APPROVAL" /\ editing' = FALSE
  /\ \E n \in 0..Len(line) : \E at \in [1..n -> 1..Len(line)] :
       /\ \A i, k \in 1..n : i < k => at[i] < at[k]
       /\ line' = [i \in 1..n |-> line[at[i]]]
       /\ dropped' = dropped \cup (Elements(line) \ Elements(line'))
  /\ UNCHANGED <<workerVars, turnView, commandView, idleKeys, ending, threadView, record,
                 raised, counters>>

(* /clear in an idle chat: a reset of the conversation goes before the next *)
(* job.                                                                     *)
ClearChat ==
  /\ CanType /\ ~Waits /\ phase # "APPROVAL" /\ Room(1)
  /\ AddControl("turn") /\ phase' = "IDLE" /\ extras' = extras + 1
  /\ UNCHANGED <<turn, commandView, shown, keyboard, idleKeys, ending, threadView,
                 record, raised, typed>>

(* /resume offers the sessions; the picked one is resumed by a job.         *)
OpenPicker ==
  /\ CanType /\ ~Waits /\ phase # "APPROVAL" /\ Room(1)
  /\ picker' = TRUE /\ extras' = extras + 1
  /\ UNCHANGED <<workerVars, turnView, commandView, keyboard, paused, ending, threadView,
                 record, raised, typed>>

(* A session that cannot be submitted at once, because the supervisor took  *)
(* dispatch away before or does so now, is queued as its command. The chat  *)
(* has no job then, whatever was running.                                   *)
Pick ==
  /\ Up /\ picker /\ picker' = FALSE
  /\ \/ ~paused /\ StartTurn("picker", <<>>) /\ UNCHANGED <<line, counters, forgot>>
     \/ /\ paused' = TRUE /\ Room(1) /\ typed' = typed + 1 /\ Queues(typed')
        /\ turn' = 0 /\ forgot' = (forgot \/ (turn # 0 /\ Busy))
        /\ UNCHANGED <<workerVars, phase, shown, commandView, threadView, record, raised,
                       extras>>
  /\ UNCHANGED <<editing, quitting, exited, dropped>>

ClosePicker ==
  /\ Up /\ picker /\ picker' = FALSE
  /\ UNCHANGED <<workerVars, turnView, commandView, keyboard, paused, ending, threadView,
                 record, raised, counters>>

-----------------------------------------------------------------------------
(* Frames. Events of other jobs than the one shown are dropped; while the   *)
(* task is being stopped only its end counts.                               *)
Terminal == {"completed", "error", "cancelled"}

Current(e, shownJob) == e.job = shownJob

(* Mutant of Accepted: a task that is being stopped still asks and shows.   *)
AcceptedAll(e) == Current(e, turn)

Accepted(e) == Current(e, turn) /\ (phase = "STOPPING" => e.kind \in Terminal)

(* begin_approval raises outside a running task; one that is asked for by a *)
(* task nobody stopped yet is declined once the interface is quitting.      *)
AskApproval(e) ==
  \/ /\ quitting
     /\ IF Answerable("turn", e.approval)
        THEN /\ answered' = [answered EXCEPT !["turn"] = TRUE]
             /\ answers' = [answers EXCEPT !["turn"] = Append(@, <<e.approval, FALSE>>)]
        ELSE UNCHANGED <<answered, answers>>
     /\ UNCHANGED <<phase, shown, raised>>
  \/ /\ ~quitting /\ UNCHANGED <<answered, answers>>
     /\ IF phase \in {"RUNNING", "APPROVAL"}
        THEN phase' = "APPROVAL" /\ shown' = e.approval /\ UNCHANGED raised
        ELSE raised' = {"approval"} /\ UNCHANGED <<phase, shown>>

(* Mutant of PhaseAfter: a task that completed while it was being stopped.  *)
PhaseAfterStays(kind) ==
  CASE kind = "result" -> IF phase \in {"STOPPING", "ERROR", "DONE"} THEN phase ELSE "RUNNING"
    [] kind = "done" -> "DONE"
    [] kind = "error" -> "ERROR"
    [] kind \in {"cancelled", "session_restored"} -> "IDLE"
    [] kind = "completed" -> phase

(* SessionState.apply and _finish_worker_job.                               *)
PhaseAfter(kind) ==
  CASE kind = "result" -> IF phase \in {"STOPPING", "ERROR", "DONE"} THEN phase ELSE "RUNNING"
    [] kind = "done" -> "DONE"
    [] kind = "error" -> "ERROR"
    [] kind \in {"cancelled", "session_restored"} -> "IDLE"
    [] kind = "completed" -> IF phase = "STOPPING" /\ ~quitting THEN "IDLE" ELSE phase

(* _process_worker_event                                                    *)
TurnEvent ==
  /\ Up /\ Drained("turn")
  /\ LET e == Head(events["turn"]) IN
     IF ~Accepted(e) THEN UNCHANGED <<turnView, raised, answered, answers>>
     ELSE IF e.kind = "approval_required" THEN AskApproval(e) /\ UNCHANGED turn
     ELSE /\ phase' = PhaseAfter(e.kind)
          /\ shown' = IF e.kind \in {"result", "done", "error", "cancelled"} THEN 0 ELSE shown
          /\ turn' = IF e.kind \in Terminal THEN 0 ELSE turn
          /\ UNCHANGED <<raised, answered, answers>>
  /\ UNCHANGED <<queueVars, threadVars, approvals, pending, commandView, keyboard,
                 idleKeys, ending, threadView, record, counters>>

(* _process_command_events: a command that was started in an idle chat is   *)
(* shown like a task.                                                       *)
CommandEvent ==
  /\ Up /\ Drained("command")
  /\ LET e == Head(events["command"]) IN
     IF ~Current(e, command) THEN UNCHANGED <<phase, command>>
     ELSE /\ phase' = IF startedIdle /\ turn = 0 /\ e.kind # "completed" THEN PhaseAfter(e.kind) ELSE phase
          /\ command' = IF e.kind \in Terminal THEN 0 ELSE command
  /\ UNCHANGED <<queueVars, threadVars, approvalVars, turn, shown, startedIdle, keyboard, idleKeys,
                 ending, threadView, record, raised, counters>>

(* _continue_update: the result of a core update is put to the conversation *)
(* by a job of its own.                                                     *)
UpdateTurn ==
  /\ Up /\ ~paused /\ ~quitting /\ turn = 0 /\ command = 0 /\ Quiescent("turn") /\ Room(1)
  /\ extras' = extras + 1
  /\ StartTurn("update", <<>>)
  /\ UNCHANGED <<keyboard, picker, ending, typed>>

(* Mutants of DrainQueue: the queue goes on beside a command; it waits for  *)
(* an idle phase, which a task that ended does not leave behind.            *)
DrainBesideCommand ==
  /\ Up /\ ~paused /\ ~editing /\ line # <<>> /\ ~quitting
  /\ turn = 0 /\ phase # "APPROVAL"
  /\ StartTurn("drain", <<Head(line)>>)
  /\ line' = Tail(line) /\ UNCHANGED extras
  /\ UNCHANGED <<editing, picker, ending, dropped, typed>>

DrainIdleOnly ==
  /\ Up /\ ~paused /\ ~editing /\ line # <<>> /\ ~quitting
  /\ turn = 0 /\ command = 0 /\ phase = "IDLE"
  /\ \/ StartTurn("drain", <<Head(line)>>) /\ line' = Tail(line) /\ UNCHANGED extras
     \/ Refused /\ UNCHANGED line
  /\ UNCHANGED <<editing, picker, ending, dropped, typed>>

(* _drain_queue: the oldest message, put back if its dispatch is refused.   *)
DrainQueue ==
  /\ Up /\ ~paused /\ ~editing /\ line # <<>> /\ ~quitting
  /\ turn = 0 /\ command = 0 /\ phase # "APPROVAL"
  /\ \/ StartTurn("drain", <<Head(line)>>) /\ line' = Tail(line) /\ UNCHANGED extras
     \/ Refused /\ UNCHANGED line
  /\ UNCHANGED <<editing, picker, ending, dropped, typed>>

(* The supervisor takes dispatch away to hand over, and gives it back.      *)
Pause ==
  /\ ~paused /\ Room(1) /\ paused' = TRUE /\ extras' = extras + 1
  /\ UNCHANGED <<workerVars, turnView, commandView, keyboard, picker, ending, threadView,
                 record, raised, typed>>

Continue ==
  /\ paused /\ paused' = FALSE
  /\ UNCHANGED <<workerVars, turnView, commandView, keyboard, picker, ending, threadView,
                 record, raised, counters>>

(* _request_quit, in this chat or in another: an approval that is up here   *)
(* is declined, every worker stopped.                                       *)
Quit(here) ==
  /\ Up /\ ~quitting /\ quitting' = TRUE
  /\ phase' = IF here /\ phase \in Stoppable THEN "STOPPING" ELSE phase
  /\ IF here /\ Answerable("turn", shown)
     THEN /\ answered' = [answered EXCEPT !["turn"] = TRUE]
          /\ answers' = [answers EXCEPT !["turn"] = Append(@, <<shown, FALSE>>)]
     ELSE UNCHANGED <<answered, answers>>
  /\ StopAll
  /\ UNCHANGED <<approvals, pending, turn, commandView, shown, keyboard, idleKeys,
                 exited, forgot, threadView, record, raised, counters>>

(* The interface leaves when the threads of its workers have ended.         *)
Exit ==
  /\ quitting \/ raised # {}
  /\ ~exited /\ \A w \in Worker : pc[w] \in {"unborn", "dead"}
  /\ exited' = TRUE
  /\ UNCHANGED <<workerVars, turnView, commandView, keyboard, idleKeys, quitting,
                 forgot, threadView, record, raised, counters>>

-----------------------------------------------------------------------------
(* The threads. Only a turn asks for approvals; only /resume restores. A    *)
(* command looks once, when it starts, whether a job of the chat is under   *)
(* way: then it is refused, or may run beside it. Otherwise it refreshes    *)
(* and checkpoints the idle session.                                        *)
Resume ==
  /\ pc["turn"] = "work" /\ job["turn"] \in resumes \ restored /\ ~Stopped("turn")
  /\ Publish("turn", "session_restored", 0)
  /\ restored' = restored \cup {job["turn"]}
  /\ UNCHANGED <<queueVars, threadVars, approvalVars>>

TurnThread ==
  /\ Thread("turn")
  /\ pc'["turn"] = "asked" => job["turn"] \notin resumes
  /\ UNCHANGED viewOnly

CommandThread ==
  /\ Thread("command") /\ pc'["command"] # "asked"
  /\ alone' = IF pc["command"] = "begin" THEN pc'["command"] = "work" /\ turn = 0
              ELSE alone /\ pc'["command"] # "clear"
  /\ UNCHANGED <<turnView, commandView, keyboard, idleKeys, ending, record, restored,
                 raised, counters>>

RestoredThread ==
  /\ Resume
  /\ UNCHANGED <<turnView, commandView, keyboard, idleKeys, ending, alone, record,
                 raised, counters>>

Key == \/ TypeMessage \/ EscapeTwice \/ OpenEdit \/ FinishEdit \/ ClearChat
       \/ OpenPicker \/ Pick \/ ClosePicker
       \/ StartCommand \/ Resolve \/ Quit(TRUE) \/ Quit(FALSE)

Next == \/ Key \/ TurnEvent \/ CommandEvent \/ UpdateTurn \/ DrainQueue
        \/ Pause \/ Continue \/ Exit
        \/ TurnThread \/ CommandThread \/ RestoredThread

Spec == Init /\ [][Next]_vars

(* The frames go on, and so do the threads: requests, tools and commands    *)
(* are bounded and look at the flags. Nothing is assumed of the user.       *)
FairSpec == Spec /\ WF_vars(TurnEvent) /\ WF_vars(CommandEvent) /\ WF_vars(DrainQueue) /\ WF_vars(Exit)
                 /\ WF_vars(TurnThread) /\ WF_vars(CommandThread)

-----------------------------------------------------------------------------
ViewTypeOK ==
  /\ phase \in {"IDLE", "RUNNING", "APPROVAL", "STOPPING", "DONE", "ERROR"}
  /\ turn \in Nat /\ command \in Nat /\ shown \in Nat
  /\ {startedIdle, alone, editing, picker, paused, quitting, exited, forgot} \subseteq BOOLEAN
  /\ line \in Seq(1..typed) /\ sent \in Seq(1..typed) /\ dropped \subseteq 1..typed
  /\ shown # 0 /\ ~quitting => phase = "APPROVAL"
  /\ restored \subseteq resumes /\ resumes \subseteq Nat
  /\ raised \subseteq {"key", "drain", "update", "command", "picker", "approval"}

(* The phase on the screen and the jobs agree: a task is shown as running   *)
(* or being stopped only while there is one to end it. A core that is       *)
(* handed a chat in such a phase would wait for a job it does not have. Not *)
(* so in a chat that forgot its turn: see TurnRemembered.                   *)
PhaseHasJob ==
  Busy /\ ~quitting /\ ~forgot => turn # 0 \/ (command # 0 /\ startedIdle)

(* The state of the interface never refuses what a frame or a key asks of   *)
(* it, but for a session picked after something else was started, and for   *)
(* what is started in a chat that forgot its turn.                          *)
OnlyPickRaises ==
  raised \subseteq {"picker"} \/ (forgot /\ raised \subseteq {"drain", "update", "command"})

(* No message that was typed gets lost: it waits, was submitted or was      *)
(* removed by the user, whatever the supervisor refused in between; and     *)
(* messages are submitted in the order they were typed.                     *)
MessagesKept ==
  /\ raised = {} => 1..typed = Elements(line) \cup Elements(sent) \cup dropped
  /\ \A i, k \in 1..Len(sent \o line) : i < k => (sent \o line)[i] < (sent \o line)[k]

(* handoff_quiescent; what is captured then has no thread at work on it,    *)
(* not even one of a command that was stopped and is forgotten by the chat, *)
(* and shows no task as running, unless the chat forgot its turn.           *)
HandoffQuiet == turn = 0 /\ command = 0 /\ \A w \in Worker : Quiescent(w)

HandoffIsQuiet ==
  HandoffQuiet =>
    /\ \A w \in Worker : pc[w] \in {"unborn", "get", "closing", "dead"}
    /\ quitting \/ forgot \/ ~Busy

(* An approval is up exactly as long as the task waits for it: the decision *)
(* that the user gives is taken by what is on the screen. Not so in a chat  *)
(* that forgot its turn.                                                    *)
ApprovalShown ==
  phase = "APPROVAL" /\ ~quitting /\ ~forgot /\ Up =>
    shown # 0 /\ shown = pending["turn"] /\ pc["turn"] = "asking" /\ job["turn"] = turn

(* What the screen shows, and what the chat tells the supervisor, is what   *)
(* the threads do, and its state refuses nothing that is asked of it: both  *)
(* as long as the chat did not forget its turn. Then, too, no chat is       *)
(* handed over with a thread at work.                                       *)
ScreenIsTrue == ViewTypeOK /\ PhaseHasJob /\ ApprovalShown /\ OnlyPickRaises /\ HandoffIsQuiet

(* A task that is being stopped ends.                                       *)
StopEnds == phase = "STOPPING" ~> phase # "STOPPING" \/ exited

(* Leaving ends both threads, whatever they wait for.                       *)
QuitEnds == quitting ~> exited

(* The queue runs empty, unless the user keeps an approval or an edit open  *)
(* or the supervisor keeps dispatch to itself.                              *)
MessagesMove ==
  line # <<>> ~> line = <<>> \/ ~Up \/ quitting
                   \/ []<>(paused \/ editing \/ phase = "APPROVAL")

(* Nothing the user asks of a chat hangs: stopping, leaving, the queue.     *)
ChatMoves == StopEnds /\ QuitEnds /\ MessagesMove

(* ui/state.py asserts that nobody starts a task while one is active. The   *)
(* code admits it: the picker of /resume stays open while the result of a   *)
(* core update starts a turn, and choosing a session then starts another.   *)
NeverTwoTasks == raised = {}

(* What runs, the chat knows of. The code admits otherwise: the picker is   *)
(* still open when the result of a core update starts a turn, and what is   *)
(* chosen is refused by a supervisor that takes dispatch away. _submit_task *)
(* returns None, which becomes active_job_id: the turn goes on unseen, the  *)
(* phase stays RUNNING with nothing to end it, the chat is handed over that *)
(* way, and the queue raises when it drains.                                *)
TurnRemembered == Busy /\ ~quitting => turn # 0 \/ (command # 0 /\ startedIdle)

(* workers.py says that one thread owns each conversation. The code admits  *)
(* otherwise: a command that began in an idle chat, and so refreshes and    *)
(* checkpoints its session, is stopped and forgotten, and the next message  *)
(* starts a turn while it still unwinds.                                    *)
OneThreadOwns ==
  ~(alone /\ pc["command"] = "work" /\ pc["turn"] = "work" /\ job["turn"] \notin resumes)
=============================================================================
