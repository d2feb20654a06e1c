----------------------------- MODULE CoreHandoff -----------------------------
(***************************************************************************)
(* The terminal-owning supervisor of raychat_bootstrap/supervisor.py and   *)
(* the core processes it replaces: startup, planned activation (drain,     *)
(* capture, probe, retire, replace), the restart of the previous release,  *)
(* crash detection and the emergency recovery behind Ctrl+R.               *)
(*                                                                         *)
(* The supervisor is one asyncio loop.  Its main loop and its two tasks    *)
(* (startup and the current transition) interleave at awaits only, so one  *)
(* action here is the code between two awaits.  The cores run in parallel  *)
(* with it; messages travel in order on two pipes per core.                *)
(*                                                                         *)
(* Documents, journals, update results and rendering are not modelled      *)
(* here: a handoff state is only present or absent.                        *)
(***************************************************************************)
EXTENDS Naturals, Sequences, FiniteSets

CONSTANTS
    Release,        \* sealed releases
    Initial,        \* the release the terminal was launched with
    MaxLaunches,    \* bound on core processes launched in one session
    MaxRequests,    \* bound on user requests typed into a core
    MaxEmergencies, \* bound on emergency recoveries chosen in the menu
    MaxCrashes,     \* bound on cores that die on their own; with 0 no dispatch
                    \* intent fails to be saved either
    MaxSpent,       \* bound on all three together, where a request counts twice
    MenuDuringStartup, \* the recovery menu is used before startup has finished
    RecoveringStart \* the terminal may be started with --recover-core

ASSUME HandoffAssumption ==
    /\ Initial \in Release
    /\ MaxLaunches \in Nat \ {0}
    /\ MaxRequests \in Nat
    /\ MaxEmergencies \in Nat
    /\ MaxCrashes \in Nat
    /\ MaxSpent \in Nat
    /\ MenuDuringStartup \in BOOLEAN
    /\ RecoveringStart \in BOOLEAN

Core == 1 .. MaxLaunches
NoCore == 0
Task == {"startup", "transition"}

VARIABLES
    core,      \* per process: its life, the core's own flags, the supervisor's events
    inbox,     \* control messages on the way to each core
    events,    \* messages of each core the main loop has not handled
    current,   \* Supervisor.current
    previous,  \* Supervisor.previous
    routing,   \* Supervisor.routing: input is forwarded to the core
    menu,      \* Supervisor.recovery_menu
    exitCode,  \* Supervisor.exit_code
    task,      \* the startup task and Supervisor.transition
    spent      \* bounded environment steps: requests, emergencies, crashes

vars == <<core, inbox, events, current, previous, routing, menu, exitCode,
          task, spent>>

Request == {"update", "recover", "resume"}
Control == {"activate", "drain", "capture", "continue", "retire", "ack"} \cup Request
Message == {"startup", "ready", "failed", "idle", "handoff", "capture_failed",
            "dispatch", "finished"} \cup Request

Life == {"none", "boot", "up", "gone", "dead"}
Kind == {"normal", "probe", "safe"}

CoreRecord ==
    [life: Life, kind: Kind, release: Release,
     \* flags of the core (CoreBridge and the TUI controller): waiting for a
     \* dispatch acknowledgement, input received and not read; and held, which
     \* marks a recovered core until its first continue
     active: BOOLEAN, draining: BOOLEAN, frozen: BOOLEAN, capture: BOOLEAN,
     retire: BOOLEAN, idleSent: BOOLEAN, saved: BOOLEAN, busy: BOOLEAN,
     waiting: BOOLEAN, typed: Seq(Request), held: BOOLEAN,
     \* events and results the supervisor keeps in its Core object
     ready: BOOLEAN, idle: BOOLEAN, captured: BOOLEAN, hasState: BOOLEAN,
     error: BOOLEAN, expected: BOOLEAN, eof: BOOLEAN]

Absent ==
    [life |-> "none", kind |-> "normal", release |-> Initial,
     active |-> FALSE, draining |-> FALSE, frozen |-> FALSE, capture |-> FALSE,
     retire |-> FALSE, idleSent |-> FALSE, saved |-> FALSE, busy |-> FALSE,
     waiting |-> FALSE, typed |-> <<>>, held |-> FALSE,
     ready |-> FALSE, idle |-> FALSE, captured |-> FALSE, hasState |-> FALSE,
     error |-> FALSE, expected |-> FALSE, eof |-> FALSE]

PC == {"done",
       "launch", "awaitStart", "started",
       "validate", "drain", "awaitIdle", "awaitCapture", "record",
       "probe", "awaitProbe", "retire", "awaitExit", "replace", "awaitReplace",
       "activated", "restart", "awaitRestart", "rejected",
       "kill", "latest", "awaitLatest", "retained", "awaitRetained",
       "safe", "awaitSafe"}

\* A task's program counter and the locals that survive an await: the target
\* release, the core being drained and the child being awaited.
TaskRecord == [pc: PC, target: Release, old: Core \cup {NoCore},
               child: Core \cup {NoCore}]

Idle == [pc |-> "done", target |-> Initial, old |-> NoCore, child |-> NoCore]

TypeOK ==
    /\ core \in [Core -> CoreRecord]
    /\ inbox \in [Core -> Seq(Control)]
    /\ events \in [Core -> Seq(Message)]
    /\ current \in Core \cup {NoCore}
    /\ previous \in Release
    /\ routing \in BOOLEAN
    /\ menu \in BOOLEAN
    /\ exitCode \in {"none", "clean", "error"}
    /\ task \in [Task -> TaskRecord]
    /\ spent \in [requests: 0 .. MaxRequests,
                  emergencies: 0 .. MaxEmergencies,
                  crashes: 0 .. MaxCrashes]

Init ==
    /\ core = [c \in Core |-> Absent]
    /\ inbox = [c \in Core |-> <<>>]
    /\ events = [c \in Core |-> <<>>]
    /\ current = NoCore
    /\ previous = Initial
    /\ routing = FALSE
    /\ menu = FALSE
    /\ exitCode = "none"
    /\ \E start \in IF RecoveringStart THEN {"launch", "kill"} ELSE {"launch"} :
         task = [t \in Task |-> IF t = "startup" THEN [Idle EXCEPT !.pc = start]
                                                ELSE Idle]
    /\ spent = [requests |-> 0, emergencies |-> 0, crashes |-> 0]

------------------------------------------------------------------------------
(* Helpers                                                                  *)

Running == exitCode = "none"

SomeLeft(cost) ==
    2 * spent.requests + spent.emergencies + spent.crashes + cost <= MaxSpent

\* process.returncode is None: a process whose pipe has closed is still
\* unreaped for a moment.
Unreaped(c) == c # NoCore /\ core[c].life \in {"boot", "up", "gone"}

LiveChildren == {c \in Core : Unreaped(c)}
TransitionPending == task["transition"].pc # "done"

\* Core.send: a message to a process that has closed its pipe is lost.
Post(box, c, msgs) ==
    IF c # NoCore /\ core[c].life \in {"boot", "up"}
    THEN [box EXCEPT ![c] = @ \o msgs] ELSE box

\* A finished task keeps nothing.
Goto(t, pc) == IF pc = "done" THEN [task EXCEPT ![t] = Idle]
                              ELSE [task EXCEPT ![t].pc = pc]

\* The flags of a core end with its process; what the supervisor noted stays.
Ended(me) == [me EXCEPT !.active = FALSE, !.draining = FALSE, !.frozen = FALSE,
                        !.capture = FALSE, !.retire = FALSE, !.idleSent = FALSE,
                        !.saved = FALSE, !.busy = FALSE, !.waiting = FALSE,
                        !.typed = <<>>, !.held = FALSE, !.life = "gone"]

\* Mutant of Kill: the process is signalled and not waited for.
KillUnawaited(table, cs) ==
    [c \in Core |-> IF c \in cs THEN [table[c] EXCEPT !.expected = TRUE] ELSE table[c]]

\* _stop(force=True): kill, reap, and wait for the reader to see the end.
Kill(table, cs) ==
    [c \in Core |-> IF c \in cs
                    THEN [Ended(table[c]) EXCEPT
                            !.life = "dead", !.expected = TRUE, !.ready = TRUE,
                            !.idle = TRUE, !.captured = TRUE, !.eof = TRUE]
                    ELSE table[c]]

\* What was sent to killed processes is gone with them.
Unsent(cs) == [c \in Core |-> IF c \in cs THEN <<>> ELSE inbox[c]]

\* _launch: a process is created and sent its launch document.  Creation can
\* fail, and always does once the bound on processes is reached.
Unused == {c \in Core : core[c].life = "none"}
Fresh == CHOOSE c \in Unused : TRUE
Launched(table, release, kind) ==
    [table EXCEPT ![Fresh] = [Absent EXCEPT !.life = "boot", !.kind = kind,
                                            !.release = release]]

\* Verifying a release and creating a process takes longer than one turn of the
\* main loop or the single write the startup task may be waiting for: by then
\* the current core's messages are handled and a settled startup is over.
Settled ==
    /\ current # NoCore => events[current] = <<>>
    /\ task["startup"].pc # "started"
    /\ task["startup"].pc = "awaitStart" => ~core[task["startup"].child].ready

\* _await_ready.  The readiness timeout is thirty seconds and the main loop
\* runs every ten milliseconds: what a core sent is handled when it expires.
\* Mutant of ReadyOK: the reported error is not looked at.
ReadyHeard(c) == core[c].ready /\ Unreaped(c)

ReadyOK(c) == core[c].ready /\ core[c].hasState /\ ~core[c].error /\ Unreaped(c)
ReadyBad(c) == core[c].ready /\ ~ReadyOK(c)
Silent(c) == events[c] = <<>> /\ core[c].life \in {"boot", "up"}
ReadyFails(c) == ReadyBad(c) \/ (~core[c].ready /\ Silent(c))

\* _resume: the current core leaves draining and freezing and gets input again.
Resume(now) ==
    IF Unreaped(now)
    THEN inbox' = Post(inbox, now, <<"continue">>) /\ routing' = TRUE
    ELSE UNCHANGED <<inbox, routing>>

------------------------------------------------------------------------------
(* The startup task: _start and _startup_ready                              *)

StartLaunch ==
    /\ Running
    /\ task["startup"].pc = "launch"
    /\ \/ /\ Unused # {}
          /\ core' = Launched(core, Initial, "normal")
          /\ current' = Fresh
          /\ task' = [task EXCEPT !["startup"].pc = "awaitStart",
                                  !["startup"].child = Fresh]
          /\ UNCHANGED exitCode
       \/ /\ exitCode' = "error"
          /\ task' = Goto("startup", "done")
          /\ UNCHANGED <<core, current>>
    /\ UNCHANGED <<inbox, events, previous, routing, menu, spent>>

\* The frames already received are applied before readiness is judged.
StartReady ==
    LET c == task["startup"].child IN
    /\ Running
    /\ task["startup"].pc = "awaitStart"
    /\ core[c].ready
    /\ events[c] = <<>>
    /\ IF ReadyOK(c)
       THEN task' = Goto("startup", "started") /\ UNCHANGED <<core, exitCode>>
       ELSE /\ exitCode' = "error"
            /\ core' = [core EXCEPT ![current].expected = TRUE]
            /\ task' = Goto("startup", "done")
    /\ UNCHANGED <<inbox, events, current, previous, routing, menu, spent>>

Started ==
    /\ Running
    /\ task["startup"].pc = "started"
    /\ Resume(current)
    /\ task' = Goto("startup", "done")
    /\ UNCHANGED <<core, events, current, previous, menu, exitCode, spent>>

------------------------------------------------------------------------------
(* Planned activation: _candidate, _recover(force=False) and _drain         *)

\* Validation runs the candidate's tests: the current core draws frames meanwhile.
Validate ==
    /\ Running
    /\ task["transition"].pc = "validate"
    /\ current # NoCore =>
         inbox[current] = <<>> /\ (core[current].idleSent => core[current].draining)
    /\ \/ \E r \in Release :
            task' = [task EXCEPT !["transition"].pc = "drain",
                                 !["transition"].target = r]
       \/ task' = Goto("transition", "rejected")
    /\ UNCHANGED <<core, inbox, events, current, previous, routing, menu,
                   exitCode, spent>>

Drain ==
    /\ Running
    /\ task["transition"].pc = "drain"
    /\ IF current = NoCore
       THEN task' = Goto("transition", "done") /\ UNCHANGED <<core, inbox>>
       ELSE /\ core' = [core EXCEPT ![current] =
                          [@ EXCEPT !.idle = FALSE, !.captured = FALSE, !.error = FALSE]]
            /\ inbox' = Post(inbox, current, <<"drain">>)
            /\ task' = [task EXCEPT !["transition"].pc = "awaitIdle",
                                    !["transition"].old = current]
    /\ UNCHANGED <<events, current, previous, routing, menu, exitCode, spent>>

\* No timeout: active work keeps ownership until it has finished.
IdleSeen ==
    LET old == task["transition"].old IN
    /\ Running
    /\ task["transition"].pc = "awaitIdle"
    /\ core[old].idle
    /\ IF Unreaped(old)
       THEN /\ routing' = FALSE
            /\ inbox' = Post(inbox, old, <<"capture">>)
            /\ task' = Goto("transition", "awaitCapture")
       ELSE task' = Goto("transition", "rejected") /\ UNCHANGED <<inbox, routing>>
    /\ UNCHANGED <<core, events, current, previous, menu, exitCode, spent>>

CaptureSeen ==
    LET old == task["transition"].old
        good == core[old].hasState /\ ~core[old].error IN
    /\ Running
    /\ task["transition"].pc = "awaitCapture"
    /\ core[old].captured \/ Silent(old)
    /\ task' = Goto("transition", IF core[old].captured /\ good
                                  THEN "record" ELSE "rejected")
    /\ core' = [core EXCEPT ![old].error = @ /\ ~core[old].captured]
    /\ UNCHANGED <<inbox, events, current, previous, routing, menu, exitCode, spent>>

\* _record: the handoff is saved before anything depends on it.
RecordState ==
    /\ Running
    /\ task["transition"].pc = "record"
    /\ \E pc \in {"probe", "rejected"} : task' = Goto("transition", pc)
    /\ UNCHANGED <<core, inbox, events, current, previous, routing, menu,
                   exitCode, spent>>

\* Launch a child of the transition and wait for it, or continue at "failed".
LaunchChild(release, kind, wait, failed) ==
    /\ Settled
    /\ \/ /\ Unused # {}
          /\ core' = Launched(core, release, kind)
          /\ task' = [task EXCEPT !["transition"].pc = wait,
                                  !["transition"].child = Fresh]
       \/ task' = Goto("transition", failed) /\ UNCHANGED core

ProbeLaunch ==
    /\ Running
    /\ task["transition"].pc = "probe"
    /\ LaunchChild(task["transition"].target, "probe", "awaitProbe", "rejected")
    /\ UNCHANGED <<inbox, events, current, previous, routing, menu, exitCode, spent>>

\* The probe is stopped whatever it reported.
ProbeReady ==
    LET c == task["transition"].child IN
    /\ Running
    /\ task["transition"].pc = "awaitProbe"
    /\ \/ ReadyOK(c) /\ task' = Goto("transition", "retire")
       \/ ReadyFails(c) /\ task' = Goto("transition", "rejected")
    /\ core' = Kill(core, {c})
    /\ UNCHANGED <<inbox, events, current, previous, routing, menu, exitCode, spent>>

Retire ==
    LET old == task["transition"].old IN
    /\ Running
    /\ task["transition"].pc = "retire"
    /\ core' = [core EXCEPT ![old].expected = TRUE]
    /\ inbox' = Post(inbox, old, <<"retire">>)
    /\ task' = Goto("transition", "awaitExit")
    /\ UNCHANGED <<events, current, previous, routing, menu, exitCode, spent>>

\* The retiring core exits, or is killed after ten seconds.
Exited ==
    LET old == task["transition"].old IN
    /\ Running
    /\ task["transition"].pc = "awaitExit"
    /\ core' = IF Unreaped(old) THEN Kill(core, {old}) ELSE core
    /\ inbox' = Unsent({old})
    /\ task' = Goto("transition", "replace")
    /\ UNCHANGED <<events, current, previous, routing, menu, exitCode, spent>>

Replace ==
    /\ Running
    /\ task["transition"].pc = "replace"
    /\ LaunchChild(task["transition"].target, "normal", "awaitReplace",
                   "restart")
    /\ UNCHANGED <<inbox, events, current, previous, routing, menu, exitCode, spent>>

\* _restart_previous begins by stopping every live child.
ReplaceReady ==
    LET me == task["transition"] IN
    /\ Running
    /\ me.pc = "awaitReplace"
    /\ \/ /\ ReadyOK(me.child)
          /\ previous' = core[me.old].release
          /\ current' = me.child
          /\ task' = Goto("transition", "activated")
          /\ UNCHANGED core
       \/ /\ ReadyFails(me.child)
          /\ core' = Kill(core, LiveChildren)
          /\ task' = Goto("transition", "restart")
          /\ UNCHANGED <<previous, current>>
    /\ UNCHANGED <<inbox, events, routing, menu, exitCode, spent>>

Activated ==
    /\ Running
    /\ task["transition"].pc = "activated"
    /\ Resume(current)
    /\ task' = Goto("transition", "done")
    /\ UNCHANGED <<core, events, current, previous, menu, exitCode, spent>>

\* Mutant of Restart: the candidate is launched again.
RestartTarget ==
    /\ Running
    /\ task["transition"].pc = "restart"
    /\ LaunchChild(task["transition"].target, "normal", "awaitRestart", "rejected")
    /\ UNCHANGED <<inbox, events, current, previous, routing, menu, exitCode, spent>>

Restart ==
    LET me == task["transition"] IN
    /\ Running
    /\ me.pc = "restart"
    /\ LaunchChild(core[me.old].release, "normal", "awaitRestart", "rejected")
    /\ UNCHANGED <<inbox, events, current, previous, routing, menu, exitCode, spent>>

RestartReady ==
    LET me == task["transition"] IN
    /\ Running
    /\ me.pc = "awaitRestart"
    /\ \/ /\ ReadyOK(me.child)
          /\ current' = me.child
          /\ Resume(me.child)
          /\ UNCHANGED core
       \/ /\ ReadyFails(me.child)
          /\ core' = Kill(core, LiveChildren)
          /\ UNCHANGED <<current, inbox, routing>>
    /\ task' = Goto("transition", "rejected")
    /\ UNCHANGED <<events, previous, menu, exitCode, spent>>

\* Mutant of Rejected: the drained core is left as it is.
RejectedOnly ==
    /\ Running
    /\ task["transition"].pc = "rejected"
    /\ task' = Goto("transition", "done")
    /\ UNCHANGED <<core, inbox, events, current, previous, routing, menu, exitCode, spent>>

\* Mutant of Rejected: input is routed again without continue.
RejectedRoutes ==
    /\ Running
    /\ task["transition"].pc = "rejected"
    /\ routing' = (routing \/ Unreaped(current))
    /\ task' = Goto("transition", "done")
    /\ UNCHANGED <<core, inbox, events, current, previous, menu, exitCode, spent>>

\* The handlers of _candidate and _recover around a failed drain.
Rejected ==
    /\ Running
    /\ task["transition"].pc = "rejected"
    /\ Resume(current)
    /\ task' = Goto("transition", "done")
    /\ UNCHANGED <<core, events, current, previous, menu, exitCode, spent>>

------------------------------------------------------------------------------
(* Emergency recovery: _recover(force=True) and _restore_recovery, run by   *)
(* the transition or, after --recover-core, by the startup task             *)

KillOld(t) ==
    /\ Running
    /\ task[t].pc = "kill"
    /\ routing' = FALSE
    /\ core' = Kill(core, {current} \ {NoCore})
    /\ inbox' = Unsent({current})
    /\ task' = Goto(t, "latest")
    /\ UNCHANGED <<events, current, previous, menu, exitCode, spent>>

\* The three attempts of _restore_recovery: the latest state, the state
\* retained for the release, and a safe core without plugins or persistence.
Attempt == {"latest", "retained", "safe"}
Awaiting == [a \in Attempt |-> CASE a = "latest" -> "awaitLatest"
                                 [] a = "retained" -> "awaitRetained"
                                 [] a = "safe" -> "awaitSafe"]
After == [a \in Attempt |-> CASE a = "latest" -> "retained"
                              [] a = "retained" -> "safe"
                              [] a = "safe" -> "done"]

\* Mutant of AttemptFails: no recovery screen after the last attempt.
AttemptForgotten(t, a) ==
    /\ core' = Kill(core, LiveChildren)
    /\ task' = Goto(t, After[a])
    /\ inbox' = Unsent(LiveChildren)
    /\ UNCHANGED <<current, routing, menu>>

\* A failed attempt: _restore_state stops every live child and, after the last
\* one, the recovery screen opens.
AttemptFails(t, a) ==
    /\ core' = Kill(core, LiveChildren)
    /\ task' = Goto(t, After[a])
    /\ inbox' = Unsent(LiveChildren)
    /\ menu' = (menu \/ a = "safe")
    /\ UNCHANGED <<current, routing>>

RestoreLaunch(t, a) ==
    /\ Running
    /\ task[t].pc = a
    /\ Settled
    /\ \/ /\ Unused # {}
          /\ core' = [Launched(core, task[t].target,
                               IF a = "safe" THEN "safe" ELSE "normal")
                      EXCEPT ![Fresh].held = TRUE]
          /\ task' = [task EXCEPT ![t].pc = Awaiting[a], ![t].child = Fresh]
          /\ UNCHANGED <<inbox, current, routing, menu>>
       \/ AttemptFails(t, a)
    /\ UNCHANGED <<events, previous, exitCode, spent>>

RestoreReady(t, a) ==
    LET c == task[t].child IN
    /\ Running
    /\ task[t].pc = Awaiting[a]
    /\ \/ /\ ReadyOK(c)
          /\ current' = c
          /\ inbox' = Post(inbox, c, <<"activate", "drain">>)
          /\ routing' = TRUE
          /\ task' = Goto(t, "done")
          /\ UNCHANGED <<core, menu>>
       \/ ReadyFails(c) /\ AttemptFails(t, a)
    /\ UNCHANGED <<events, previous, exitCode, spent>>

------------------------------------------------------------------------------
(* The main loop: terminal input, core messages and crash detection         *)

OpenMenu ==
    /\ Running
    /\ SomeLeft(1) /\ spent.emergencies < MaxEmergencies
    /\ menu' = TRUE
    /\ UNCHANGED <<core, inbox, events, current, previous, routing, exitCode,
                   task, spent>>

Escape ==
    /\ Running
    /\ menu
    /\ menu' = FALSE
    /\ UNCHANGED <<core, inbox, events, current, previous, routing, exitCode,
                   task, spent>>

MenuQuit ==
    /\ Running
    /\ menu
    /\ exitCode' = "clean"
    /\ UNCHANGED <<core, inbox, events, current, previous, routing, menu,
                   task, spent>>

\* The children a cancelled transition stops before it ends.
CancelKills ==
    CASE task["transition"].pc = "awaitProbe" -> {task["transition"].child}
      [] task["transition"].pc \in {"awaitReplace", "awaitRestart", "awaitLatest",
                                    "awaitRetained", "awaitSafe"} -> LiveChildren
      [] OTHER -> {}

\* g or p in the recovery menu: the transition is cancelled and awaited, and a
\* forced recovery takes its place.  The startup task is left alone.
Emergency(target) ==
    /\ Running
    /\ menu
    /\ SomeLeft(1) /\ spent.emergencies < MaxEmergencies
    /\ MenuDuringStartup \/ task["startup"].pc = "done"
    /\ menu' = FALSE
    /\ core' = Kill(core, CancelKills)
    /\ inbox' = Unsent(CancelKills)
    /\ task' = [task EXCEPT !["transition"] =
                  [Idle EXCEPT !.pc = "kill", !.target = target]]
    /\ spent' = [spent EXCEPT !.emergencies = @ + 1]
    /\ UNCHANGED <<events, current, previous, routing, exitCode>>

\* Mutant of CrashDetected: the recovery is given the core, not a release.
CrashTargetsCore ==
    /\ Running
    /\ current # NoCore
    /\ core[current].life = "dead"
    /\ ~core[current].expected
    /\ core' = [core EXCEPT ![current].expected = TRUE]
    /\ task' = IF TransitionPending THEN task
               ELSE [task EXCEPT !["transition"] =
                       [Idle EXCEPT !.pc = "kill", !.target = current]]
    /\ UNCHANGED <<inbox, events, current, previous, routing, menu, exitCode, spent>>

\* The core died unexpectedly; a pending transition is left to notice it.
CrashDetected ==
    /\ Running
    /\ current # NoCore
    /\ core[current].life = "dead"
    /\ ~core[current].expected
    /\ core' = [core EXCEPT ![current].expected = TRUE]
    /\ task' = IF TransitionPending THEN task
               ELSE [task EXCEPT !["transition"] =
                       [Idle EXCEPT !.pc = "kill", !.target = previous]]
    /\ UNCHANGED <<inbox, events, current, previous, routing, menu, exitCode, spent>>

\* Mutant of Noted: idle is taken only once input has been stopped.
IdleAfterRouting(me, m, isCurrent) ==
    [me EXCEPT !.ready    = @ \/ m \in {"ready", "failed"},
               !.hasState = @ \/ m \in {"ready", "handoff"},
               !.error    = @ \/ m \in {"failed", "capture_failed"},
               !.idle     = @ \/ (m = "idle" /\ isCurrent /\ ~routing),
               !.captured = @ \/ m \in {"handoff", "capture_failed"},
               !.expected = @ \/ (m = "finished" /\ isCurrent)]

\* _event: what the supervisor notes of a message in its Core object.  Any child
\* may report its own readiness and state; idle and finished are the current's.
Noted(me, m, isCurrent) ==
    [me EXCEPT !.ready    = @ \/ m \in {"ready", "failed"},
               !.hasState = @ \/ m \in {"ready", "handoff"},
               !.error    = @ \/ m \in {"failed", "capture_failed"},
               !.idle     = @ \/ (m = "idle" /\ isCurrent),
               !.captured = @ \/ m \in {"handoff", "capture_failed"},
               !.expected = @ \/ (m = "finished" /\ isCurrent)]

\* _request_event: requests of the current core.  A request for an update is
\* refused while another transition is pending; a dispatch is acknowledged
\* unless its intent could not be saved.
RequestEvent(m) ==
    /\ routing' = (routing \/ m = "startup")
    /\ exitCode' = IF m = "finished" THEN "clean" ELSE exitCode
    /\ task' \in
         IF TransitionPending THEN {task}
         ELSE CASE m = "update" -> {Goto("transition", "validate")}
                [] m = "recover" ->
                     {[task EXCEPT !["transition"].pc = "drain",
                                   !["transition"].target = r] :
                        r \in {previous, Initial}}
                [] OTHER -> {task}
    /\ IF m = "dispatch"
       THEN inbox' \in {Post(inbox, current, <<"ack">>)} \cup
                       (IF spent.crashes < MaxCrashes THEN {inbox} ELSE {})
       ELSE UNCHANGED inbox

ResumeQueue ==
    /\ IF TransitionPending THEN UNCHANGED <<inbox, routing>> ELSE Resume(current)
    /\ UNCHANGED <<exitCode, task>>

Handle(c) ==
    /\ Running
    /\ events[c] # <<>>
    /\ events' = [events EXCEPT ![c] = Tail(@)]
    /\ LET m == Head(events[c]) IN
         /\ core' = [core EXCEPT ![c] = Noted(@, m, c = current)]
         /\ IF c # current THEN UNCHANGED <<inbox, routing, exitCode, task>>
            ELSE IF m = "resume" THEN ResumeQueue ELSE RequestEvent(m)
    /\ UNCHANGED <<current, previous, menu, spent>>

\* Mutant of Shutdown: only the current core is stopped.
ShutdownCurrent ==
    /\ exitCode # "none"
    /\ Unreaped(current)
    /\ core' = Kill(core, {current})
    /\ UNCHANGED <<inbox, events, current, previous, routing, menu, exitCode,
                   task, spent>>

\* The finally block of _loop: tasks are cancelled and every child is killed.
Shutdown ==
    /\ exitCode # "none"
    /\ LiveChildren # {}
    /\ core' = Kill(core, LiveChildren)
    /\ inbox' = [c \in Core |-> <<>>]
    /\ events' = [c \in Core |-> <<>>]
    /\ task' = [t \in Task |-> Idle]
    /\ UNCHANGED <<current, previous, routing, menu, exitCode, spent>>

------------------------------------------------------------------------------
(* A core process: core_entry, CoreBridge and the handoff step of each      *)
(* frame of the TUI controller                                              *)

\* The startup picker wants input before the core is ready.
BootStartup(c) ==
    /\ Running
    /\ core[c].life = "boot"
    /\ core[c].kind = "normal"
    /\ task["startup"].pc = "awaitStart"
    /\ c = task["startup"].child
    /\ ~routing
    /\ events[c] = <<>>
    /\ events' = [events EXCEPT ![c] = <<"startup">>]
    /\ UNCHANGED <<core, inbox, current, previous, routing, menu, exitCode,
                   task, spent>>

BootReady(c) ==
    /\ Running
    /\ core[c].life = "boot"
    /\ core' = [core EXCEPT ![c].life = "up"]
    /\ events' = [events EXCEPT ![c] = Append(@, "ready")]
    /\ UNCHANGED <<inbox, current, previous, routing, menu, exitCode, task, spent>>

\* Startup raises, the picker is cancelled, or the process dies unheard.
BootEnds(c) ==
    /\ Running
    /\ core[c].life = "boot"
    /\ core' = [core EXCEPT ![c] = Ended(@)]
    /\ \E last \in {<<>>, <<"failed">>} \cup
                   (IF "startup" \in {events[c][i] : i \in DOMAIN events[c]} \/
                       (routing /\ c = task["startup"].child)
                    THEN {<<"finished">>} ELSE {}) :
         events' = [events EXCEPT ![c] = @ \o last]
    /\ inbox' = [inbox EXCEPT ![c] = <<>>]
    /\ UNCHANGED <<current, previous, routing, menu, exitCode, task, spent>>

\* Mutant of Paused: draining does not hold back work.
PausedUndrained(me) == ~me.active \/ me.frozen

Paused(me) == ~me.active \/ me.draining \/ me.frozen

\* CoreBridge._apply, one control message at a time.  The acknowledged dispatch
\* starts only if the core is still not paused.
Applied(me, m) ==
    CASE m \in Request -> [me EXCEPT !.typed = Append(@, m)]
      [] m = "drain"   -> [me EXCEPT !.draining = TRUE]
      [] m = "capture" -> [me EXCEPT !.capture = TRUE, !.frozen = TRUE]
      [] m = "retire"  -> [me EXCEPT !.retire = TRUE]
      [] m = "ack"     -> [me EXCEPT !.waiting = FALSE, !.busy = ~Paused(me)]
      [] OTHER         -> [me EXCEPT !.active = TRUE, !.draining = FALSE,
                                     !.frozen = FALSE, !.capture = FALSE,
                                     !.held = @ /\ m = "activate"]

Poll(c) ==
    /\ Running
    /\ core[c].life = "up"
    /\ inbox[c] # <<>>
    /\ inbox' = [inbox EXCEPT ![c] = Tail(@)]
    /\ core' = [core EXCEPT ![c] = Applied(@, Head(inbox[c]))]
    /\ UNCHANGED <<events, current, previous, routing, menu, exitCode, task, spent>>

\* _process_handoff.
ProcessHandoff(c) ==
    LET me == core[c]
        idleNow == me.draining /\ ~me.idleSent /\ ~me.busy
        saveNow == me.capture /\ ~(me.draining /\ me.saved)
        idle == IF idleNow THEN <<"idle">> ELSE <<>>
        new == [me EXCEPT !.idleSent = me.draining /\ (me.idleSent \/ idleNow),
                          !.saved = (me.draining /\ me.saved) \/ saveNow] IN
    /\ Running
    /\ me.life = "up" /\ ~me.waiting
    /\ \/ /\ me.retire
          /\ core' = [core EXCEPT ![c] = Ended(@)]
          /\ inbox' = [inbox EXCEPT ![c] = <<>>]
          /\ UNCHANGED events
       \/ /\ ~me.retire
          /\ core' = [core EXCEPT ![c] = new]
          /\ \E saved \in IF saveNow THEN {<<"handoff">>, <<"capture_failed">>}
                                     ELSE {<<>>} :
               events' = [events EXCEPT ![c] = @ \o idle \o saved]
          /\ UNCHANGED inbox
    /\ UNCHANGED <<current, previous, routing, menu, exitCode, task, spent>>

\* authorize_dispatch: the core asks before it starts work, and does nothing
\* but poll until the supervisor has acknowledged.
Dispatch(c) ==
    /\ Running
    /\ core[c].life = "up"
    /\ ~Paused(core[c]) /\ ~core[c].busy /\ ~core[c].waiting
    /\ core' = [core EXCEPT ![c].waiting = TRUE]
    /\ events' = [events EXCEPT ![c] = Append(@, "dispatch")]
    /\ UNCHANGED <<inbox, current, previous, routing, menu, exitCode, task, spent>>

\* Ten seconds without an acknowledgement end the core.
DispatchTimeout(c) ==
    /\ Running
    /\ core[c].waiting
    /\ events[c] = <<>>
    /\ "ack" \notin {inbox[c][i] : i \in DOMAIN inbox[c]}
    /\ core' = [core EXCEPT ![c] = Ended(@)]
    /\ events' = [events EXCEPT ![c] = <<"failed">>]
    /\ inbox' = [inbox EXCEPT ![c] = <<>>]
    /\ UNCHANGED <<current, previous, routing, menu, exitCode, task, spent>>

FinishWork(c) ==
    /\ Running
    /\ core[c].life = "up"
    /\ core[c].busy
    /\ core' = [core EXCEPT ![c].busy = FALSE]
    /\ UNCHANGED <<inbox, events, current, previous, routing, menu, exitCode,
                   task, spent>>

\* _input: what is typed is forwarded to the current core while routing is on.
\* The requests are /update, /recover and /resume-queue.
TypeInput ==
    /\ Running
    /\ SomeLeft(2) /\ spent.requests < MaxRequests
    /\ routing /\ ~menu
    /\ Unreaped(current)
    /\ \E r \in Request : inbox' = Post(inbox, current, <<r>>)
    /\ spent' = [spent EXCEPT !.requests = @ + 1]
    /\ UNCHANGED <<core, events, current, previous, routing, menu, exitCode, task>>

\* A frame reads input after its handoff step.
ReadsInput(me) ==
    /\ me.life = "up" /\ me.active /\ ~me.frozen /\ ~me.waiting
    /\ me.draining => me.idleSent \/ me.busy

ReadInput(c) ==
    /\ Running
    /\ ReadsInput(core[c])
    /\ core[c].typed # <<>>
    /\ core' = [core EXCEPT ![c].typed = Tail(@)]
    /\ events' = [events EXCEPT ![c] = Append(@, Head(core[c].typed))]
    /\ UNCHANGED <<inbox, current, previous, routing, menu, exitCode, task, spent>>

\* A running task recovers the core, or a turn boundary submits the source
\* mirror, for which a core told to continue first has to paint a frame.
AgentRequest(c) ==
    /\ Running
    /\ SomeLeft(2) /\ spent.requests < MaxRequests
    /\ \/ core[c].busy /\ events' = [events EXCEPT ![c] = Append(@, "recover")]
       \/ /\ core[c].life = "up"
          /\ ~Paused(core[c]) /\ ~core[c].busy /\ ~core[c].waiting
          /\ ~core[c].held /\ ~core[c].idleSent
          /\ events' = [events EXCEPT ![c] = Append(@, "update")]
    /\ spent' = [spent EXCEPT !.requests = @ + 1]
    /\ UNCHANGED <<core, inbox, current, previous, routing, menu, exitCode, task>>

Quit(c) ==
    /\ Running
    /\ ReadsInput(core[c]) /\ ~core[c].busy
    /\ events' = [events EXCEPT ![c] = Append(@, "finished")]
    /\ core' = [core EXCEPT ![c] = Ended(@)]
    /\ inbox' = [inbox EXCEPT ![c] = <<>>]
    /\ UNCHANGED <<current, previous, routing, menu, exitCode, task, spent>>

Crash(c) ==
    /\ Running
    /\ SomeLeft(1) /\ spent.crashes < MaxCrashes
    /\ core[c].life = "up"
    /\ core' = [core EXCEPT ![c] = Ended(@)]
    /\ inbox' = [inbox EXCEPT ![c] = <<>>]
    /\ spent' = [spent EXCEPT !.crashes = @ + 1]
    /\ UNCHANGED <<events, current, previous, routing, menu, exitCode, task>>

\* _reader sees the end of the pipe and wakes whoever waits for this core; the
\* return code arrives separately.
ReaderEnds(c) ==
    /\ Running
    /\ core[c].life \in {"gone", "dead"}
    /\ ~core[c].eof
    /\ core' = [core EXCEPT ![c] = [@ EXCEPT !.ready = TRUE, !.idle = TRUE,
                                             !.captured = TRUE, !.eof = TRUE]]
    /\ UNCHANGED <<inbox, events, current, previous, routing, menu, exitCode,
                   task, spent>>

Reap(c) ==
    /\ Running
    /\ core[c].life = "gone"
    /\ core' = [core EXCEPT ![c].life = "dead"]
    /\ UNCHANGED <<inbox, events, current, previous, routing, menu, exitCode,
                   task, spent>>

------------------------------------------------------------------------------
(* The specification                                                        *)

TransitionStep ==
    \/ Validate \/ Drain \/ IdleSeen \/ CaptureSeen \/ RecordState
    \/ ProbeLaunch \/ ProbeReady \/ Retire \/ Exited \/ Replace
    \/ ReplaceReady \/ Activated \/ Restart \/ RestartReady \/ Rejected

StartupStep == StartLaunch \/ StartReady \/ Started

ForceStep(t) ==
    \/ KillOld(t)
    \/ \E a \in Attempt : RestoreLaunch(t, a) \/ RestoreReady(t, a)

MenuStep == OpenMenu \/ Escape \/ MenuQuit \/ \E r \in {previous, Initial} : Emergency(r)

Boot(c) == BootStartup(c) \/ BootReady(c) \/ BootEnds(c)

CoreStep(c) ==
    \/ Boot(c) \/ Poll(c) \/ ProcessHandoff(c) \/ Dispatch(c)
    \/ DispatchTimeout(c) \/ FinishWork(c)
    \/ ReadInput(c) \/ AgentRequest(c) \/ Quit(c) \/ Crash(c)
    \/ ReaderEnds(c) \/ Reap(c)

Next ==
    \/ StartupStep \/ TransitionStep
    \/ \E t \in Task : ForceStep(t)
    \/ MenuStep \/ TypeInput \/ CrashDetected
    \/ \E c \in Core : Handle(c) \/ CoreStep(c)
    \/ Shutdown

\* The event loop runs every ready task and handles every message; the
\* operating system schedules the cores, closes their pipes and reaps them; the
\* timeouts expire; and work ends, by itself or cancelled.  Nothing is assumed
\* of the user, of launches succeeding, or of a core becoming ready.
Fairness ==
    /\ WF_vars(StartupStep)
    /\ WF_vars(TransitionStep)
    /\ \A t \in Task : WF_vars(ForceStep(t))
    /\ WF_vars(CrashDetected)
    /\ WF_vars(Shutdown)
    /\ \A c \in Core :
         /\ WF_vars(Handle(c))
         /\ WF_vars(Poll(c))
         /\ WF_vars(ProcessHandoff(c))
         /\ WF_vars(ReadInput(c))
         /\ WF_vars(DispatchTimeout(c))
         /\ WF_vars(FinishWork(c))
         /\ WF_vars(ReaderEnds(c))
         /\ WF_vars(Reap(c))

Spec == Init /\ [][Next]_vars
FairSpec == Spec /\ Fairness

------------------------------------------------------------------------------
(* Properties                                                               *)

Live(c) == c # NoCore /\ core[c].life \in {"boot", "up"}

\* At most one process that owns the session's journal and workspace runs at a
\* time: every candidate, restarted or recovered core is created only after its
\* predecessor has been reaped (_stop before _launch_ready, _stop_live_children
\* in _restart_previous and _restore_state).
Owner(c) == Live(c) /\ core[c].kind # "probe"
SingleOwner == \A c, d \in Core : Owner(c) /\ Owner(d) => c = d

\* From the capture of a handoff until its core has gone or is resumed, that
\* core runs no task and starts none: what was captured stays true (the idle
\* message, the frozen flag and the order of capture, continue and routing).
Captured == {"record", "probe", "awaitProbe", "retire", "awaitExit"}
CapturedCoreIsQuiet ==
    LET me == task["transition"] IN
    me.pc \in Captured /\ core[me.old].life = "up"
        => ~core[me.old].busy /\ core[me.old].draining

\* Input is forwarded only to a core that will take it: while routing is on, a
\* capture is never left in force on the current core by what it was last sent
\* (_drain stops routing before capture, _resume sends continue before routing).
StaysFrozen(c) ==
    LET sent == {i \in DOMAIN inbox[c] : inbox[c][i] \in {"capture", "continue"}}
    IN  IF sent = {} THEN core[c].frozen
        ELSE inbox[c][CHOOSE i \in sent : \A j \in sent : j <= i] = "capture"
InputReachesCore ==
    routing /\ Live(current) /\ core[current].life = "up" => ~StaysFrozen(current)

\* A release takes over by planned activation only if a probe of that release
\* restored the handoff and became ready before the old core was retired.
ProbedBeforeActivation ==
    task["transition"].pc \in {"retire", "awaitExit", "replace", "awaitReplace",
                               "activated"}
        => \E c \in Core : /\ core[c].kind = "probe"
                           /\ core[c].release = task["transition"].target
                           /\ core[c].hasState /\ ~core[c].error

\* A planned update that fails after it began to drain leaves a core of the
\* release that was running, or no core: never the rejected candidate.
RejectedKeepsRelease ==
    LET me == task["transition"] IN
    me.pc = "rejected" /\ me.old # NoCore /\ Unreaped(current)
        => core[current].release = core[me.old].release

\* Between transitions the user is never cut off from a core that runs: input
\* is routed to it again whatever way the last transition ended.
InputRestored ==
    Running /\ ~TransitionPending /\ task["startup"].pc = "done" /\ Unreaped(current)
        => routing

\* A recovered core starts no work before the supervisor has sent it continue:
\* activate and drain reach it one by one, and the acknowledgement of a dispatch
\* asked for in between comes after the drain (_restore_recovery, and the second
\* look at paused in _authorize_dispatch).
RecoveredQueueHeld == \A c \in Core : core[c].held => ~core[c].busy

\* Every emergency recovery ends, with a core that owns the terminal, with the
\* recovery menu, or with the supervisor's exit.
RecoveryPC == {"kill", "latest", "awaitLatest", "retained", "awaitRetained",
               "safe", "awaitSafe"}
RecoveryEnds ==
    task["transition"].pc \in RecoveryPC
        ~> (task["transition"].pc = "done" /\ (menu \/ routing)) \/ ~Running

\* A drain that the core still owes an answer ends: it waits without a timeout,
\* but only for work that finishes (docs/LIVE_CORE.md lines 16-17). The core owes
\* none when it has told before that it is idle and not left draining since
\* (CoreBridge.handoff_idle_sent), or when its pipe ended before the drain began.
PlannedEnds ==
    LET me == task["transition"] IN
    me.pc = "awaitIdle" /\ ~core[me.old].idleSent /\ ~core[me.old].eof
        ~> task["transition"].pc # "awaitIdle" \/ ~Running

\* When the supervisor exits it leaves no child behind.
ExitLeavesNoChild == ~Running ~> LiveChildren = {}

\* What is captured is complete: nothing runs in the core it was taken from, and
\* nothing is typed into it that the capture does not hold.
CaptureIsComplete == CapturedCoreIsQuiet /\ InputReachesCore

\* Whatever step of an update fails, the release that runs afterwards restored
\* the session in its probe or is the one that ran before.
ReleaseIsTested == ProbedBeforeActivation /\ RejectedKeepsRelease

\* Drains that are owed an answer (PlannedEnds) and recoveries end, whatever
\* crashes beside them; a supervisor that exits leaves no child behind.
TransitionsEnd == PlannedEnds /\ RecoveryEnds /\ ExitLeavesNoChild

\* After a recovery the user is connected and the queue waits for the user.
RecoveryIsUsable == InputRestored /\ RecoveredQueueHeld

\* docs/LIVE_CORE.md line 21 and the status of _restore_recovery: after an emergency
\* recovery the queue stays paused until /resume-queue, so a recovered core is
\* sent continue only while that request is being handled.
OnlyResumeQueueResumes ==
    [][\A c \in Core :
         core[c].held /\ "continue" \notin {inbox[c][i] : i \in DOMAIN inbox[c]}
                      /\ "continue" \in {inbox'[c][i] : i \in DOMAIN inbox'[c]}
           => events[c] # <<>> /\ Head(events[c]) = "resume"]_vars

\* docs/LIVE_CORE.md line 17, "Both wait for active work to finish": every drain
\* ends, also that of a core that owes no answer any more.
EveryDrainEnds ==
    task["transition"].pc = "awaitIdle"
        ~> task["transition"].pc # "awaitIdle" \/ ~Running

\* supervisor.py line 75, "Keep the terminal usable through validation,
\* activation and core failures": a core that dies while a planned transition is
\* pending is replaced, or the recovery menu offers to.
CrashRecovered ==
    (/\ current # NoCore
     /\ core[current].life = "dead"
     /\ TransitionPending /\ task["transition"].pc \notin RecoveryPC)
        ~> (Unreaped(current) \/ menu \/ ~Running)

\* docs/LIVE_CORE.md lines 18-21: the recovery menu terminates the core and reloads
\* its history.  Startup never takes that for a core that failed to start.
MenuKeepsSession ==
    [][exitCode # "error" /\ exitCode' = "error" /\ task["startup"].pc = "awaitStart"
         => ~core[task["startup"].child].expected]_vars

\* docs/LIVE_CORE.md lines 146-147: at idle, told by the core itself, its state is
\* captured; a core that died while it drained is not idle and hands nothing over.
HandoffFromLiveCore ==
    [][task["transition"].pc = "awaitCapture" /\ task'["transition"].pc = "record"
         => LET old == task["transition"].old IN
            core[old].life = "up" \/ "finished" \in {events[old][i] : i \in DOMAIN events[old]}]_vars
==============================================================================
