---------------------------- MODULE IsolatedRequest ----------------------------
(* One request of the host that ends in another process: a request to a      *)
(* provider, a task of a child conversation or a plugin command in an        *)
(* isolated worker (raychat/transport.py, raychat/worker_entry.py), or a     *)
(* command the host runs itself. A plugin command runs a CommandRun inside   *)
(* the worker. The user may cancel, the worker may crash and the host may    *)
(* die at any step. Elapsed time is a choice: a deadline may pass and a      *)
(* grace may end at any moment they are waited for.                          *)
EXTENDS CommandRun, Sequences

VARIABLES
  host,       \* run_child, or the thread in run_command; "dead" after a crash
  kind,       \* the mode of the request
  asked,      \* the user cancelled: cancel_check raises
  sent,       \* _write_input has closed the worker's input
  taken,      \* frames _Frames has consumed
  primary,    \* _run_process: how the exchange ended
  answer,     \* what the caller of run_child gets
  kept,       \* complete_snapshot was called
  worker,     \* where the main thread of the worker is
  cancelled,  \* the worker's event of that name, set by its signal handlers
  code,       \* exit code of the worker
  frames,     \* records in the output pipe
  signals,    \* signals the worker's main thread has yet to handle
  watcher,    \* the thread that watches the parent
  severed     \* history: the process that ran a command died with it running

hostVars == <<host, kind, asked, sent, taken, primary, answer, kept>>
workerVars == <<worker, cancelled, code, signals, watcher>>
requestVars == <<commandVars, hostVars, workerVars, frames, severed>>

RequestInit ==
  /\ CommandInit
  /\ host = "idle" /\ kind = "none" /\ asked = FALSE /\ sent = FALSE
  /\ taken = <<>> /\ primary = "none" /\ answer = "none" /\ kept = FALSE
  /\ worker = "none" /\ cancelled = FALSE /\ code = "none"
  /\ frames = <<>> /\ signals = {} /\ watcher = "none" /\ severed = FALSE

Alive == worker \in {"boot", "read", "work", "command", "close", "leave"}

-----------------------------------------------------------------------------
(* The host.                                                                *)

(* run_child, after any earlier request of this thread.                      *)
Request(k) ==
  /\ host \in {"idle", "over"} /\ kind' = k
  /\ host' = "exchange" /\ worker' = "boot" /\ answer' = "none" /\ kept' = FALSE
  /\ UNCHANGED <<commandVars, asked, sent, taken, primary,
                 cancelled, code, signals, watcher, frames, severed>>

RequestCommand ==
  /\ host = "idle" /\ kind' = "command" /\ host' = "command"
  /\ RunCommand
  /\ UNCHANGED <<asked, sent, taken, primary, answer, kept, workerVars, frames, severed>>

Cancel ==
  /\ ~asked /\ asked' = TRUE
  /\ UNCHANGED <<commandVars, host, kind, sent, taken, primary, answer, kept,
                 workerVars, frames, severed>>

WriteInput ==
  /\ host = "exchange" /\ ~sent /\ sent' = TRUE
  /\ UNCHANGED <<commandVars, host, kind, asked, taken, primary, answer, kept,
                 workerVars, frames, severed>>

Failed == "error" \in {taken[i] : i \in DOMAIN taken}

(* The reader goes on while the worker is stopped; an error record ends it. *)
ReadFrame ==
  /\ host \in {"exchange", "stop", "grace", "kill"} /\ frames # <<>> /\ ~Failed
  /\ taken' = Append(taken, Head(frames)) /\ frames' = Tail(frames)
  /\ UNCHANGED <<commandVars, host, kind, asked, sent, primary, answer, kept,
                 workerVars, severed>>

(* _exchange: cancel_check and the reader's failure on every turn of its    *)
(* loop, which the end of writer, reader and worker leaves without either.  *)
Exchanged == sent /\ worker = "gone" /\ (frames = <<>> \/ Failed)

LeaveExchange(how) ==
  /\ host = "exchange" /\ host' = "stop" /\ primary' = how
  /\ UNCHANGED <<commandVars, kind, asked, sent, taken, answer, kept,
                 workerVars, frames, severed>>

ExchangeRaises ==
  /\ ~Exchanged
  /\ \/ asked /\ LeaveExchange("cancelled")
     \/ ~asked /\ Failed /\ LeaveExchange("failed")
     \/ ~asked /\ worker = "gone" /\ LeaveExchange("failed")

Complete == ~Failed /\ code = "ok" /\ "final" \in {taken[i] : i \in DOMAIN taken}

(* Mutant of ExchangeEnds: a final record is an answer.                     *)
ExchangeEndsUnchecked ==
  Exchanged /\ LeaveExchange(
    IF "final" \in {taken[i] : i \in DOMAIN taken} THEN "answered" ELSE "failed")

ExchangeEnds ==
  Exchanged /\ LeaveExchange(IF Complete THEN "answered" ELSE "failed")

(* _stop. Before the worker has its handlers SIGTERM ends it.               *)
Terminate ==
  /\ host = "stop" /\ host' = "grace"
  /\ worker' = IF worker = "boot" THEN "gone" ELSE worker
  /\ code' = IF worker = "boot" THEN "killed" ELSE code
  /\ signals' = IF Alive /\ worker # "boot" THEN signals \cup {"TERM"} ELSE signals
  /\ UNCHANGED <<commandVars, kind, asked, sent, taken, primary, answer, kept,
                 cancelled, watcher, frames, severed>>

(* The death of the worker, with or without the command it runs.            *)
WorkerDies(how) ==
  /\ worker' = "gone" /\ code' = how
  /\ IF worker = "command" THEN Abandoned ELSE UNCHANGED commandVars
  /\ severed' = (severed \/ (worker = "command" /\ ~CallOver))
  /\ UNCHANGED <<cancelled, signals, watcher, frames>>

(* The grace ends with the worker or runs out.                              *)
GraceEnds ==
  /\ host = "grace" /\ host' = "kill"
  /\ UNCHANGED <<commandVars, kind, asked, sent, taken, primary, answer, kept,
                 workerVars, frames, severed>>

(* Mutant of KillWorker: SIGTERM is trusted.                                *)
TrustTerm ==
  /\ host = "kill"
  /\ UNCHANGED <<commandVars, workerVars, frames, severed>>
  /\ IF primary = "answered" /\ kind = "conversation"
     THEN host' = "check" /\ UNCHANGED answer
     ELSE host' = "return" /\ answer' = primary
  /\ UNCHANGED <<kind, asked, sent, taken, primary, kept>>

KillWorker ==
  /\ host = "kill"
  /\ IF Alive THEN WorkerDies("killed")
     ELSE UNCHANGED <<commandVars, workerVars, frames, severed>>
  /\ IF primary = "answered" /\ kind = "conversation"
     THEN host' = "check" /\ UNCHANGED answer
     ELSE host' = "return" /\ answer' = primary
  /\ UNCHANGED <<kind, asked, sent, taken, primary, kept>>

Snapshots == {i \in DOMAIN taken : taken[i] = "snapshot"}

(* ProcessConversation.run after run_child.                                 *)
KeepSnapshot ==
  /\ host = "check" /\ host' = "return"
  /\ \/ /\ \E i \in Snapshots : Snapshots = {i}
        /\ kept' = ~asked
        /\ answer' = IF asked THEN "cancelled" ELSE "answered"
     \/ /\ ~\E i \in Snapshots : Snapshots = {i}
        /\ answer' = "failed"
        /\ UNCHANGED kept
  /\ UNCHANGED <<commandVars, kind, asked, sent, taken, primary,
                 workerVars, frames, severed>>

CommandReturns ==
  /\ host = "command" /\ CallOver /\ host' = "return"
  /\ answer' = IF caller = "result" THEN "answered"
                 ELSE IF verdict = "cancelled" THEN "cancelled" ELSE "failed"
  /\ UNCHANGED <<commandVars, kind, asked, sent, taken, primary, kept,
                 workerVars, frames, severed>>

(* The caller has its answer, and what only the call knew is gone.          *)
Return ==
  /\ host = "return" /\ host' = "over"
  /\ sent' = FALSE /\ taken' = <<>> /\ primary' = "none" /\ frames' = <<>>
  /\ worker' = "none" /\ cancelled' = FALSE /\ code' = "none"
  /\ signals' = {} /\ watcher' = "none"
  /\ UNCHANGED <<commandVars, kind, asked, answer, kept, severed>>

HostDies ==
  /\ host \notin {"idle", "over", "dead"} /\ host' = "dead"
  /\ IF host = "command" THEN Abandoned ELSE UNCHANGED commandVars
  /\ severed' = (severed \/ (host = "command" /\ ~CallOver))
  /\ UNCHANGED <<kind, asked, sent, taken, primary, answer, kept, workerVars, frames>>

-----------------------------------------------------------------------------
(* The worker.                                                              *)

(* Mutant of Boot: the first look at the parent is left to the watcher, which
   trusts the parent it finds.                                              *)
BootTrusting ==
  /\ worker = "boot"
  /\ worker' = "read" /\ watcher' = IF host = "dead" THEN "over" ELSE "watching"
  /\ UNCHANGED <<commandVars, hostVars, cancelled, code, signals, frames, severed>>

(* main: the handlers are in place before the watcher and the first check.  *)
Boot ==
  /\ worker = "boot" /\ watcher' = "watching"
  /\ IF host = "dead" THEN worker' = "leave" /\ code' = "cancelled"
     ELSE worker' = "read" /\ UNCHANGED code
  /\ UNCHANGED <<commandVars, hostVars, cancelled, signals, frames, severed>>

(* The input ends with the request, or cut off with the host.               *)
ReadRequest ==
  /\ worker = "read"
  /\ \/ sent /\ worker' = "work" /\ UNCHANGED <<code, frames>>
     \/ /\ ~sent /\ host = "dead" /\ worker' = "leave"
        /\ code' = "failed" /\ frames' = Append(frames, "error")
  /\ UNCHANGED <<commandVars, hostVars, cancelled, signals, watcher, severed>>

Says(frame) == frames' = Append(frames, frame)

SayFinal ==
  /\ \/ worker = "work" /\ kind = "chat"
     \/ worker = "close"
     \/ worker = "command" /\ caller = "result"
  /\ Says("final") /\ worker' = "leave" /\ code' = "ok"
  /\ UNCHANGED <<commandVars, hostVars, cancelled, signals, watcher, severed>>

SayError ==
  /\ \/ worker \in {"work", "close"}
     \/ worker = "command" /\ caller = "raised" /\ ~cancelled
  /\ Says("error") /\ worker' = "leave" /\ code' = "failed"
  /\ UNCHANGED <<commandVars, hostVars, cancelled, signals, watcher, severed>>

(* The session of the conversation is closed between its snapshot and the   *)
(* final record.                                                            *)
ExportSnapshot ==
  /\ worker = "work" /\ kind = "conversation"
  /\ Says("snapshot") /\ worker' = "close"
  /\ UNCHANGED <<commandVars, hostVars, cancelled, code, signals, watcher, severed>>

PluginCommand ==
  /\ worker = "work" /\ kind = "plugin_command" /\ worker' = "command"
  /\ RunCommand
  /\ UNCHANGED <<hostVars, cancelled, code, signals, watcher, frames, severed>>

(* Mutant of HandleSignal: the handler exits at once.                       *)
HandleByExit ==
  /\ Alive /\ worker # "boot"
  /\ \E s \in signals : signals' = signals \ {s}
  /\ cancelled' = TRUE /\ worker' = "leave" /\ code' = "cancelled"
  /\ UNCHANGED <<commandVars, hostVars, watcher, frames, severed>>

(* terminate: the handler raises where the main thread is. In a command it  *)
(* waits for the command's end first.                                       *)
HandleSignal ==
  /\ Alive /\ worker # "boot"
  /\ \E s \in signals : signals' = signals \ {s}
  /\ cancelled' = TRUE
  /\ IF worker = "command" /\ ~CallOver
     THEN /\ IF caller = "joining" THEN Interrupt ELSE UNCHANGED commandVars
          /\ UNCHANGED <<worker, code>>
     ELSE worker' = "leave" /\ code' = "cancelled" /\ UNCHANGED commandVars
  /\ UNCHANGED <<hostVars, watcher, frames, severed>>

(* _WorkerCancelled leaves the command, and main turns it into a code.      *)
Unwind ==
  /\ worker = "command" /\ caller = "raised" /\ cancelled
  /\ worker' = "leave" /\ code' = "cancelled"
  /\ UNCHANGED <<commandVars, hostVars, cancelled, signals, watcher, frames, severed>>

Exit ==
  /\ worker = "leave" /\ worker' = "gone" /\ watcher' = "over"
  /\ UNCHANGED <<commandVars, hostVars, cancelled, code, signals, frames, severed>>

Crash ==
  /\ Alive /\ WorkerDies("killed")
  /\ UNCHANGED hostVars

(* _watch_parent.                                                           *)
ParentExited ==
  /\ watcher = "watching" /\ Alive /\ host = "dead"
  /\ watcher' = "signalled" /\ signals' = signals \cup {"INT"}
  /\ UNCHANGED <<commandVars, hostVars, worker, cancelled, code, frames, severed>>

ExitByWatcher ==
  /\ watcher = "signalled" /\ Alive /\ WorkerDies("cancelled")
  /\ UNCHANGED hostVars

-----------------------------------------------------------------------------

HostStep ==
  \/ WriteInput \/ ReadFrame \/ ExchangeRaises \/ ExchangeEnds
  \/ Terminate \/ GraceEnds \/ KillWorker \/ KeepSnapshot \/ CommandReturns
  \/ Return

WorkerStep ==
  \/ Boot \/ ReadRequest \/ SayFinal \/ SayError \/ ExportSnapshot \/ PluginCommand
  \/ HandleSignal \/ Unwind \/ Exit \/ Crash
Watch == ParentExited \/ ExitByWatcher

RunsCommand == host = "command" \/ worker = "command"
CheckRaises == IF host = "command" THEN asked ELSE cancelled

OwnerStep ==
  /\ RunsCommand
  /\ LoopStep(CheckRaises) \/ DeadlinePasses \/ JoinCommand
  /\ UNCHANGED <<hostVars, workerVars, frames, severed>>

ProgramStep == Program /\ UNCHANGED <<hostVars, workerVars, frames, severed>>

-----------------------------------------------------------------------------

Frame == {"snapshot", "final", "error"}

RequestTypeOK ==
  /\ CommandTypeOK
  /\ host \in {"idle", "command", "exchange", "stop", "grace", "kill", "check",
               "return", "over", "dead"}
  /\ kind \in {"none", "chat", "conversation", "plugin_command", "command"}
  /\ {asked, sent, kept, cancelled, severed} \subseteq BOOLEAN
  /\ taken \in Seq(Frame) /\ frames \in Seq(Frame)
  /\ primary \in {"none", "answered", "cancelled", "failed"}
  /\ answer \in {"none", "answered", "cancelled", "failed"}
  /\ worker \in {"none", "boot", "read", "work", "command", "close", "leave", "gone"}
  /\ code \in {"none", "ok", "failed", "cancelled", "killed"}
  /\ signals \subseteq {"TERM", "INT"}
  /\ watcher \in {"none", "watching", "signalled", "over"}

(* A command ends with its call (run_command; "complete process-tree          *)
(* ownership"): once the caller goes on, no process of its group is left and
   all it wrote is captured; a worker that ended by itself and a request that
   is over left none either, and no worker outlives its request. The code does
   not keep it in two cases, left out by name: the process that ran the command
   was killed while it ran, and nobody ends the command, whose session is its
   own (`severed`); killpg raised, and another process of the group lives on
   (`spared`).                                                               *)
NothingOutlives ==
  /\ CallOver /\ ~spared => ~Grouped /\ ~outsider /\ captured = written
  /\ ~severed /\ ~spared /\ (worker = "gone" \/ host = "return") => ~Grouped
  /\ host = "return" => ~Alive

(* An answer is what the worker meant (run_child, ProcessConversation.run): it
   ended by itself after one final record, its command was neither cancelled
   nor broken off, and the host keeps the snapshot of a conversation exactly
   when it has its answer, and no longer wants to cancel it. A result without
   a timeout is that of a command that ended by itself.                     *)
AnswerIsMeant ==
  /\ (host = "return" /\ answer = "answered" /\ kind # "command") =>
       /\ code = "ok" /\ ~severed
       /\ kind = "plugin_command" => caller = "result" /\ ~cancelled
  /\ (kept <=> (answer = "answered" /\ kind = "conversation"))
  /\ (caller = "result" /\ ~late) => leader = "exited"

(* What a call returns and what it leaves behind.                            *)
CallIsWhole == RequestTypeOK /\ NothingOutlives /\ AnswerIsMeant
=============================================================================
