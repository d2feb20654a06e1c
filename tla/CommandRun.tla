------------------------------ MODULE CommandRun ------------------------------
(* run_command (plugins/process/runner.py) on POSIX: the calling thread      *)
(* waits for a thread with an event loop of its own; the loop starts the     *)
(* command in a session of its own, polls its exit, its deadline and the     *)
(* caller's cancellation, kills its process group and reads its pipes to     *)
(* their end. The program is any: it forks, leaves its group, writes and     *)
(* ends as it likes. Of the output only how much there is matters.           *)
EXTENDS Naturals

CONSTANT MaxOutput     \* bound: pieces of output the program writes

ASSUME OutputAssumption == MaxOutput \in Nat

VARIABLES
  caller,     \* _run_in_thread: waiting, interrupted, or over and with what
  loop,       \* _run_command, where the event loop is
  leader,     \* the process the command was started as
  members,    \* another process of its group is alive
  outsider,   \* a descendant in another session is alive and holds the pipes
  spared,     \* history: killpg raised while another process of the group was alive
  late,       \* the deadline has passed
  verdict,    \* how _wait_for_command ended
  written, captured   \* output of the program, and what the readers took

programVars == <<leader, members, outsider, written, spared>>
commandVars == <<caller, loop, late, verdict, captured, programVars>>

CommandInit ==
  /\ caller = "none" /\ loop = "none" /\ late = FALSE /\ verdict = "none"
  /\ leader = "none" /\ members = FALSE /\ outsider = FALSE /\ spared = FALSE
  /\ written = 0 /\ captured = 0

Grouped == leader = "running" \/ members
CallOver == caller \in {"result", "raised"}

RunCommand ==
  /\ caller = "none" /\ caller' = "joining" /\ loop' = "start"
  /\ UNCHANGED <<late, verdict, captured, programVars>>

-----------------------------------------------------------------------------
(* The program.                                                             *)

Forks ==
  /\ leader = "running" /\ ~members /\ members' = TRUE
  /\ UNCHANGED <<caller, loop, late, verdict, captured, leader, outsider, written, spared>>

Escapes ==
  /\ Grouped /\ ~outsider /\ outsider' = TRUE
  /\ UNCHANGED <<caller, loop, late, verdict, captured, leader, members, written, spared>>

Writes ==
  /\ Grouped \/ outsider
  /\ written < MaxOutput /\ written' = written + 1
  /\ UNCHANGED <<caller, loop, late, verdict, captured, leader, members, outsider, spared>>

Ends ==
  /\ \/ leader = "running" /\ leader' = "exited" /\ UNCHANGED <<members, outsider>>
     \/ members /\ members' = FALSE /\ UNCHANGED <<leader, outsider>>
     \/ outsider /\ outsider' = FALSE /\ UNCHANGED <<leader, members>>
  /\ UNCHANGED <<caller, loop, late, verdict, captured, written, spared>>

Program == Forks \/ Escapes \/ Writes \/ Ends

-----------------------------------------------------------------------------
(* The event loop. `asked` says that the caller's cancel_check raises; an   *)
(* interrupted caller has set `stopped`, which check_cancelled raises for.  *)

SpawnCommand ==
  /\ loop = "start"
  /\ \/ loop' = "poll" /\ leader' = "running" /\ UNCHANGED verdict
     \/ loop' = "done" /\ verdict' = "failed" /\ UNCHANGED leader
  /\ UNCHANGED <<caller, late, captured, members, outsider, written, spared>>

DeadlinePasses ==
  /\ loop = "poll" /\ ~late /\ late' = TRUE
  /\ UNCHANGED <<caller, loop, verdict, captured, programVars>>

Stopped(asked) == asked \/ caller = "interrupted"

(* The exit of a leader is seen when the loop has heard of it, which may be *)
(* after the deadline: a late command is then timed out though it exited.   *)
Poll(asked) ==
  /\ loop = "poll"
  /\ \/ Stopped(asked) /\ verdict' = "cancelled"
     \/ ~Stopped(asked) /\ leader = "exited" /\ verdict' = "exited"
     \/ ~Stopped(asked) /\ late /\ verdict' = "timedout"
  /\ loop' = "kill"
  /\ UNCHANGED <<caller, late, captured, programVars>>

(* Mutant of KillGroup: an exited leader leaves no group behind.            *)
KillRunning ==
  /\ loop = "kill" /\ loop' = "read"
  /\ leader' = IF leader = "running" THEN "killed" ELSE leader
  /\ members' = (members /\ leader # "running")
  /\ UNCHANGED <<caller, late, verdict, captured, outsider, written, spared>>

(* terminate_posix_process_group, also after an ordinary exit; killpg may    *)
(* raise, and then only the leader is killed and the call fails.             *)
KillGroup ==
  /\ loop = "kill" /\ loop' = "read"
  /\ leader' = IF leader = "running" THEN "killed" ELSE leader
  /\ \/ members' = FALSE /\ UNCHANGED <<verdict, spared>>
     \/ /\ spared' = members /\ UNCHANGED members
        /\ verdict' = IF verdict = "cancelled" THEN verdict ELSE "failed"
  /\ UNCHANGED <<caller, late, captured, outsider, written>>

DrainStream ==
  /\ loop \in {"poll", "kill", "read"} /\ captured < written
  /\ captured' = captured + 1
  /\ UNCHANGED <<caller, loop, late, verdict, programVars>>

(* Mutant of CollectReaders: the readers are left at the exit.              *)
LeaveReaders ==
  /\ loop = "read" /\ loop' = "done"
  /\ UNCHANGED <<caller, late, verdict, captured, programVars>>

(* The readers end with the last process that holds the pipes, which one of  *)
(* the group that could not be killed may have closed.                       *)
CollectReaders ==
  /\ loop = "read" /\ ~outsider /\ captured = written
  /\ loop' = "done"
  /\ UNCHANGED <<caller, late, verdict, captured, programVars>>

LoopStep(asked) ==
  SpawnCommand \/ Poll(asked) \/ KillGroup \/ DrainStream \/ CollectReaders

-----------------------------------------------------------------------------
(* The calling thread.                                                      *)

(* A signal handler raised in _join_command.                                *)
Interrupt ==
  /\ caller = "joining" /\ caller' = "interrupted"
  /\ UNCHANGED <<loop, late, verdict, captured, programVars>>

(* Mutant of JoinCommand: an interrupted caller does not wait.              *)
JoinUninterrupted ==
  /\ \/ loop = "done" /\ caller = "joining"
     \/ caller = "interrupted"
  /\ caller' = IF caller = "joining" /\ verdict \in {"exited", "timedout"}
                 THEN "result" ELSE "raised"
  /\ UNCHANGED <<loop, late, verdict, captured, programVars>>

JoinCommand ==
  /\ loop = "done" /\ caller \in {"joining", "interrupted"}
  /\ caller' = IF caller = "joining" /\ verdict \in {"exited", "timedout"}
                 THEN "result" ELSE "raised"
  /\ UNCHANGED <<loop, late, verdict, captured, programVars>>

(* The process of caller and loop is killed: nobody owns the command.       *)
Abandoned ==
  /\ caller' = IF CallOver THEN caller ELSE "dead"
  /\ loop' = IF CallOver THEN loop ELSE "dead"
  /\ UNCHANGED <<late, verdict, captured, programVars>>

CommandTypeOK ==
  /\ caller \in {"none", "joining", "interrupted", "result", "raised", "dead"}
  /\ loop \in {"none", "start", "poll", "kill", "read", "done", "dead"}
  /\ leader \in {"none", "running", "exited", "killed"}
  /\ {members, outsider, spared, late} \subseteq BOOLEAN
  /\ verdict \in {"none", "exited", "timedout", "cancelled", "failed"}
  /\ written \in 0..MaxOutput /\ captured \in 0..written
=============================================================================
