# Verification of RayChat

RayChat is a terminal chat agent whose running core can be replaced: a small
supervisor owns the terminal, the core owns the session, and an update, a crash
or a recovery moves the session from one core process to the next. Inside the
core one thread draws and reads keys, others run conversations, commands and
child chats, and requests to models end in processes of their own. This
directory models the parts of the program where an order of steps decides
whether the user's work survives, checks them with TLC on small instances and
proves the most important facts with TLAPS for every instance.

Run a model with `tlc -workers 2 -config X.cfg M`, a proof with `tlapm M.tla`.
Paths below are relative to the repository.

## Inventory

| Component | State it keeps | Operations | What is hard | Module |
|---|---|---|---|---|
| Supervisor and the core side of a handoff (`raychat_bootstrap/supervisor.py`, `raychat/core_bridge.py`, `core_entry.py`) | child processes, current core, previous release, routing, recovery menu; per core: draining, frozen, captured, running work | launch, probe, drain, capture, retire, replace, restart, kill, restore, forward input | two tasks and the main loop interleave at every `await`; a child dies at any time; flags set by messages in flight | `CoreHandoff` |
| Update ledger (`supervisor.py`, `core_review.py`, `session.py`) | results, claimed results, a manifest; the core's inbox and review | end an update, announce, review, claim, commit, finish | both sides die between claim, request, commit and acknowledgement; a write fails | `UpdateLedger` |
| Core staging (`raychat/core_staging.py`, `ui/controller.py`) | the mirror, stamps, the submission in flight, rejections | sweep, submit, verdict, adopt | anybody writes at any step of an update; results reach other cores | `SourceMirror` |
| Session journal (`raychat/storage.py`) | a file, Python's buffer, the entry tree, the selection | open, append, commit, checkpoint, fork, abort, close | each step of a durable append can fail or be the last | `SessionJournal`, `DurableSelection` |
| Session turns (`raychat/session.py`) | conversation, plugin states, rollback state, open turn | turn, checkpoint, commit, abort, child snapshot, fork, reset | commands checkpoint while a turn runs that may still fail | `SessionTurns` |
| Package transactions (`raychat/package_transactions.py`, `plugin_manager.py`) | journal, containers, package trees, receipt | prepare, swap, decide, roll back, recover | a crash at any call, also of the recovery; outside edits | `PackageTransaction`, `AtomicChange` |
| Workspace transactions (`raychat/workspace_transactions.py`) | journal, containers, files | stage, publish, decide, roll back, recover | the same, and editors that ignore the lock | `WorkspaceTransaction`, `AtomicChange` |
| Plugin runtime (`raychat/plugins.py`) | generation, operations, deferred requests, fingerprints | begin and end an operation, ask for a change, refresh, activate, commit, close | changes beside running and nested operations; notices that raise | `PluginUpdates` |
| Agent worker (`raychat/workers.py`) | queue of jobs, cancellation, approval, events | submit, cancel, approve, control, stop; the thread | answers and cancellations against the end of a job | `AgentWorker`, `AgentJobs`, `JobBoard` |
| One chat of the interface (`ui/controller.py`, `ui/state.py`, `ui/message_queue.py`) | phase, job identifiers, queue, pause, picker | keys, events, frames, quitting | what the interface believes to run against what runs | `ChatView` |
| Subagents and parallel delegation (`plugins/subagents`, `plugins/workflows/runner.py`) | the batch, the catalog of children, their workers | delegate, create, wait, collect, stop, replace, close | pool threads outlive their turn; closing joins what may be forgotten | `Delegation` |
| Goals (`plugins/goals`) | the goal and its revision, its copy in the session | set, clear, send, review, accept, save | commands change the goal while it is reviewed or saved | `GoalLoop` |
| Provider transport and worker process (`raychat/transport.py`, `worker_entry.py`) | the child, its pipes, its signals | exchange, stop, snapshot, cancel, watch the parent | every process may die at any step, and its last words count or not | `IsolatedRequest` |
| Process runner (`plugins/process/runner.py`) | an event loop, a process group, pipes | spawn, poll, kill, collect, join | programs fork, exit first, escape | `CommandRun` |
| Files and locks, release store, terminal, configuration, context, memory, skills, research drivers | - | - | sequential code | none, see "Not modelled" |

What makes each correct, in one line: one owner of a session at a time, and input
always reaches a living core (supervisor); a captured state stays true until it
is used (handoff); an update's result is told to a provider by one core only, and
the evidence stays (ledger); edits are judged once and the loop ends (staging);
reopening selects a whole turn, and the one the caller was told of (journal); a
turn that did not commit leaves nothing but what commands saved (turns); packages
and workspace files change together or not at all (transactions); an operation
keeps its generation (plugins); a job begins and ends once, in order (worker);
the screen tells the truth and nothing typed is lost (interface); results are
those of the children and closing is final (delegation); only the judge of the
present goal decides (goals); an answer is what a worker that ended by itself
meant, and nothing outlives its call (transport, runner).

How the modules fit together. `ChatView` extends `AgentWorker`, `AgentJobs` adds
the refinement of `JobBoard` to it. `GoalLoop` extends `IsolatedRequest`, which
extends `CommandRun`. The two transactions implement `AtomicChange`, the journal
`DurableSelection`. `SessionTurns` keeps the journal as `DurableSelection` states
it, `GoalLoop` keeps the turn as `SessionTurns` states it, `PluginUpdates` keeps
the package journal as `AtomicChange` states it, `SourceMirror` and
`UpdateLedger` each keep of the handoff what their messages depend on.

## Plan

All modules of the plan are written and checked. What is left, in order:

1. `/resume` over two journals, and several chats at once.

## CoreHandoff

### What is modelled

The supervisor is one asyncio event loop. Its main loop and its two tasks
(`_start` and the current transition) interleave only at an `await`, so an action
is the code between two awaits; `task[t].pc` names the await a task stands at.

| State | In the code |
|---|---|
| `core[c]` | one child process: its life (`boot` before ready, `up`, `gone` after its pipe closed, `dead` once reaped), the flags of its `CoreBridge` and controller, and the `Core` object the supervisor keeps for it |
| `inbox[c]`, `events[c]` | control messages to the core and `Core.events`, in order |
| `current`, `previous`, `routing`, `menu`, `exitCode` | the attributes of `Supervisor` |
| `task` | the coroutine frames of startup and transition |

`Validate` to `Rejected` are `_candidate`, `_recover(force=False)` and `_drain`;
`KillOld`, `RestoreLaunch`, `RestoreReady` are `_recover(force=True)` with its three
attempts; `OpenMenu` to `Emergency` are the recovery screen; `Handle` is `_event` with
`_request_event`; the last section is the core process: `Poll` applies one control
message, `ProcessHandoff` is the handoff step of a frame, `Dispatch` is
`authorize_dispatch`, which stops everything but polling until it is acknowledged.

Abstractions. A handoff state is present or absent. Validation, saving and
launching succeed or fail freely. Input is one of three requests. The thirty second
timeouts of readiness and capture fire only when the child is silent, because the
main loop reads every message within ten milliseconds. A launch, which verifies a
release on disk, outlasts one turn of the main loop (`Settled`).

### Run `handoff`

Two releases, 3 launches, 2 requests, or 1 request with 1 emergency and 1 crash
(`MaxSpent`); the recovery menu only after startup, a plain start. Three launches are
first core, probe and replacement, or an emergency with a retry at any point of them;
two requests are the shortest run in which an update meets what an earlier one left
behind in the core; every launch may fail. `CaptureIsComplete`: a captured core stays quiet and input never goes to a
frozen core. `ReleaseIsTested`: activation only after a probe, and a rejected
update keeps the release. `SingleOwner`: one process owns the session.
`RecoveryIsUsable`: the user is connected again and the recovered queue is held.
`TransitionsEnd`: recoveries end, the supervisor leaves no child behind, and a wait
for idle ends whenever the core still owes an idle message. Two cases are excluded
there by what they are, at any bound, because the code waits for ever in both
(`EveryDrainEnds` under "Disagreements"): a core that told before the drain that it is
idle and has kept `handoff_idle_sent` since, and one whose pipe ended before the drain
began. Deadlock is not checked: after the supervisor has exited
nothing is left to do. More launches and a `--recover-core` start are covered by
the proofs, for types and the four safety invariants.

Fairness: the event loop runs every ready task and handles every message, the
operating system runs the cores, closes pipes and reaps processes, timeouts
expire, and work ends by itself or when cancelled. Nothing is assumed of the
user, of launches succeeding or of a core becoming ready.

### Proofs (CoreHandoffProofs)

`TypeCorrect`: `Spec => []TypeOK`. `TypeOK` alone is not inductive: a task that uses
`old` or `child` relies on having set it, so `TypeInv` adds `Known`.

`OneOwner`: `Spec => []SingleOwner`, assuming `MenuDuringStartup = FALSE`. The
inductive invariant `OwnInv` says which process may own the session: an owner is the
current core or the child a task waits for (`Accounted`), such a child is alone
(`ChildAlone`), a task stands before a launch only when no owner runs
(`NoneAtLaunch`), a planned transition drains the current core (`DrainsCurrent`), and
no transition runs beside a startup that may still launch (`StartsAlone`,
`StartupPlace`). Most actions only let processes age: `Older` says that no process
comes to life, and then no owner appears.

`CaptureComplete`, `ReleaseTested` and `RecoveryUsable` state `CaptureIsComplete`,
`ReleaseIsTested` and `RecoveryIsUsable`, under the same assumption. None of them is
inductive: what a core does next depends on what its pipe still holds. The invariant
`Inv` therefore relates every process to its two queues and
to the task that waits for it:

- `Unborn`, `Stranger`, `Probe`, `Starting`: a live process that is not the
  current core has been sent nothing and has told only how its start went; a probe
  never becomes the current core and gives one verdict.
- `Draining`, `Drains`: a core owes at most one `idle`; once it has told of it, it is
  idle, no order that would start work is on the way to it, and the transition that
  waits for it is the only one that can take it. A recovered core may owe its `idle`
  to nobody, but then has asked for nothing (`Unasked`).
- `Holding`: a recovered core has not begun before it reads `drain`, and `activate`
  is the first message it reads.
- `Reaches`: a core that input is routed to is not frozen and has no `capture` or
  `continue` left to read, or the last of them is a `continue`.
- `Startup`, `Locals`, `Children`: what a task that waits knows of its child and of the
  core it replaces; a replacement is launched only when a probe of the same release
  has restored the session (`Tested`).

The proof keeps one lemma per action; what it needs of the two queues (what a write
adds, what a read leaves, that their order is kept) is proved once (`Written`, `Read`,
`Apart...`). `Inv` was checked by TLC before it was proved: with 2 releases, 2
launches, 2 requests, 1 emergency and 1 crash from a plain start (134,322 states),
and with 3 launches, 3 requests and 1 emergency from a `--recover-core` start
(6,076,355 states).

The last four theorems assume `MenuDuringStartup = FALSE` because the code does not
keep them otherwise (`MenuKeepsSession` below); beside that, the only assumption on
constants is `HandoffAssumption`. The liveness of the
transitions (`TransitionsEnd`) is checked by TLC only; liveness and `ENABLED` are
beyond the prover.

## DurableSelection and SessionJournal

A journal is an append-only file of records; the last `turn_commit`, `state` or
`select` record in it decides which branch a reopening selects. The file is
three layers: `disk` is what is known to be durable, `cache` what every process
sees, `buffer` what only Python's stream holds. A kill loses the buffer, a power
loss also loses any part of what separates `cache` from `disk` (`Between`), a
failed flush keeps the rest of a small line in the buffer and drops the rest of a
large one.

| State | In the code |
|---|---|
| `rec`, `nextId` | the records made; the header is record 0 and also stands for `None` as a parent or a selection |
| `entries`, `head`, `committed`, `failed` | the attributes of `SessionStore` |
| `pc`, `op` | the next call on the stream, and the locals of the operation under way: its record, `previous` head and `offset` |
| `turn`, `broken`, `begun` | the caller's open turn; `broken` when a store operation of it raised, so that only its abort is left |
| `told` | history: what the caller of each record heard |

`Write` is the start of `_write`, `PartlyFlushed` to `SyncedAgain` its flush and sync
and the second sync of a selection, `Raise` the error path, `Seek` to
`CleanupFails` the removal in `_durable_append`; `DurableAppend` and `DurableRefused`
are a selection on a store that works or has failed. Each call on the stream can
fail (`Fault`), and the process can be killed or lose power before it (`Stop`).

`DurableSelection` states the promise without a file: a selection is accepted when
nothing else can be found, rejected when nothing of the offer is left, and in every
other case the store refuses until it is reopened. `ImplementsSelection` is the
refinement, with the candidates of `MayFind` as its `candidates`.

Abstractions. Operations do not overlap, because the store's mutex covers each of
them; a busy file lock raises before anything changes and is left out. `turn_start`
records behave like messages and are counted as such. A partly written line is
`torn`; what a power loss leaves of bytes that were being overwritten after a
failed sync is taken to be line by line. An interrupt inside an operation is not
modelled, because turns run on a worker thread. A session whose header is torn
cannot be opened again (`OpenRefused`); `AlwaysLoads` therefore starts at a durable
header.

### Run `journal`

3 records, 2 turns, 2 failing calls, 2 kills or power losses, no more than 3 of both together.
Two faults are a failing write and the failing removal of what it left; two stops
are one that leaves a torn or unsynced tail and one during the reopening that
repairs it; three records are a message or an earlier selection and two
selections. `FileIsSound`: loadable at every step, and memory mirrors the file.
`TurnsAreWhole`: no half of a turn is ever selected. `OutcomeHolds`: what was
returned is kept, what was removed is gone. `ImplementsSelection`: the
refinement. Only safety: nothing is assumed of scheduling.

### Proofs (SessionJournalProofs)

`FilesAreSound`, `OutcomesHold`, `TurnsWhole` and `SelectsDurably`: `Spec` implies
`[]FileIsSound`, `OutcomeHolds`, `[]TurnsAreWhole` and `ImplementsSelection`, for every
number of records, turns, failures and stops, from `BoundsAssumption` alone. The properties speak of the
files a reopening may find and of the store between two operations; the invariant has
to say what the stream, the memory and the frame hold in the middle of one.

`FileInv` is about the file. `Made`: a record lies behind its parent and its target.
`Files`: disk, cache and cache with buffer are chains that load, and every file
between two chains is one (`BetweenChains`). `Places`, `Idle`, `HeaderFrame`,
`RecordFrame`, `RecordPlace`, `RemovalFrame`: what is where at each call, such as that
a record on its way stands behind the lines of `op.offset`, or that a store that has
not failed removes nothing. `Kept`: what was returned is in a part that disk, cache
and `op.offset` have in common, so neither a truncation nor a power loss reaches it.

`TurnInv` is about branches. `AllWhole`: every branch that can be selected holds whole
turns; `TipWhole` and `TipSaved`: the branch the next commit will close is the selected
one and the open turn's messages; `TurnOpen`: an open turn of which nothing failed has
all its messages there and no commit; `Counted` and `Making` say to which turn and
parent the record on its way belongs. A branch is the function `Branch` defines by
recursion; `UpIs` proves that it exists, from the smallest sets closed under parents,
and `WalkSame` that a new record changes no branch but its own. One lemma per action for each invariant
(`SyncedFile`, `SyncedTurn`, ...).

The refinement maps each call on the stream to one step of `DurableSelection`
(`MapsSynced`, `MapsTruncate`, ...). `CandidatesNow` reduces the files a reopening may
find to sequences of lines, so that a flush, a sync or a stop only narrows them
(`FileNarrows`) and a write adds the offered selection (`MapsWrite`). What a failed
operation can leave needs `NearInv`: a removal finds nothing or the attempted record
(`Leftover`), and the durable file is at most one line longer than the lines the
operation goes back to (`NearTo`), so that cutting back to them brings up no selection
that was neither reported nor offered. TLC checked the three invariants with the bounds of the run (1,118,933
states).

## SessionTurns

One chat's conversation and plugin states in memory against its journal, with three
lanes: turns (and forks and resets) on the chat's worker, a command on the command
lane, and crashes. The session's state lock makes each critical section an
action; everything else interleaves. `turn`, `cmd` and `nav` are the frames of the
three operations. A plugin's state is a version, one per change; `author`,
`accepted`, `offered`, `explicit`, `kept`, `stale`, `unsaved` and `disputed` are history
for the properties.

A turn is local (`Message`, `TurnChange`) or runs in an isolated child, which gets a
copy of the session (`StartChild`), works on it (`ChildMessage`, `ChildChange`) and
returns a snapshot that is taken over in two halves (`Restore`, `Commit`) with the
restore hooks between them (`RestoreFails`). `Finish` undoes a turn that did not
commit. A fork exports the
session (`ForkBegin`), restores the target (`ForkRestore`) with the hooks that may raise
(`ForkFails`), selects it (`ForkSelect`), and restores the export when that is refused,
where hooks may raise again (`ForkUndone`). A reset clears the session (`ResetMemory`)
before the store opens another journal (`ResetStore`), which may fail before it closes
the old one, before it has the next, or in the next (`ResetFails`).

The store is `DurableSelection` in short: an accepted operation replaces the
selection, a failed one leaves both candidates and a store that refuses; one may also raise
without having written. Plugin
states are JSON values: one that is not, which the journal rejects without failing,
is left out here and modelled in `SessionJournal`.

Abstractions. A command changes its plugin's state once and then checkpoints, as the
commands of the shipped plugins do; what a command that raises in between leaves in
memory is not modelled. A command may run beside a fork or a reset. The lanes' threads are not scheduled fairly or otherwise: only safety is
checked.

### Run `turns`

2 plugins (symmetric), 2 turns, 2 messages, 2 changes, 2 failures (3,598,116 states).
Two plugins tell the owner of a checkpoint from another one; two turns allow one that
commits and one that is undone, in either order; two messages, one of each turn or both
of one; two changes, one of the turn and one of a command, or two of commands; two
failures, one that is met and one in what undoes it. The bound on failures counts a
usable store that raises and a hook that raises; a store that has failed goes on
refusing for free. Also checked, without being runs: 3 changes with 1 failure (10
million states), and these bounds with failures unbounded. `QuietMatchesStore`: an
idle session is what its journal has selected. `SavedChangeSurvives`: no turn undoes a
saved state. `UncommittedLeavesNothing`: nothing of a turn that did not commit reaches
the journal or stays in memory. Nothing is excluded from the last one. The first two
exclude what the code does lose, each by a history variable that is raised only where
TLC needs it (see "Disagreements"):

| Excluded | From | Until | Concerns |
|---|---|---|---|
| `stale` | a reset whose `new_session` raised; a fork that was refused and whose undoing raised | the next reset, fork or restart that succeeds | `QuietMatchesStore` |
| `unsaved` | a command whose checkpoint raised, which leaves its change in memory | the next save that succeeds | `QuietMatchesStore`, of that plugin's state only |
| `disputed` | a command that changes its state beside a navigation, or that has not saved a change when a fork begins or the hook that restores a child's snapshot raises | the next reset or restart | both |

A failed store, a raising hook of a fork or of a child's snapshot, a refused commit
and a refused fork are not excluded: there the session does agree with its journal.

### Proofs (first part of SessionTurnsProofs)

The three properties, with the exclusions above, for every set of plugins and every
bound, from `SessionAssumption`. The properties say what an idle session is; the invariant has to
say what one in the middle of a turn is. `Start` and `Base` are the session without
that turn, and `Stored` says that they are the journal's, but for the change a command
has still to save or could not save; of a navigation it says so of the snapshot that
would be put back. `Appends` says that what a turn added is the same in memory and on its
branch, or is what the child added to the conversation it was given (`Continues`), so
that a commit saves what is in memory (`Rejoin`). `Owned` says of every snapshot somebody
holds whose work is in it (`Clean`): that of finished turns in the journal, that of the
turn under way only in memory and its child. `Newer` bounds the version of every state
that may become the session's from below by the saved one. `Frames` says which of turn,
command and navigation exclude each other, and `Beside` what a navigation finds in memory
when no command changed it. One lemma per action. TLC checked `Inv` with the bounds of
the run.

## AtomicChange, PackageTransaction, WorkspaceTransaction

### What is modelled

`AtomicChange` is what a journaled change of several items promises: they move from
the old content to the offered one together or not at all, a decision stands, and
an outside edit concerns its own item only.

| State | Packages | Workspace |
|---|---|---|
| `tree`, `file` | the package directories | the files |
| `receipt` | `plugins.lock.json`, by the transaction that wrote it | - |
| `journal` | `plugins.transaction.json` | the record of the batch |
| `plan`, `change` | the transaction object, repeated by the journal | the recorded changes |
| `box` | a container per package: incoming, package, discarded | a container per file: incoming, original, retired |
| `pc`, `left` | what the holder of the lock does, and has left to visit | the same |
| `checked` | the package whose tree was looked at and is moved next | - |

One action per call that changes a file (`MoveOut`, `MoveIn`, `Replace`, `Commit`,
`PutBack`, ...); every call may raise, and the process may end after each (`Stop`).
Whoever takes the lock next starts with `Recover`, which is cut short as easily. A
save that raises may or may not have published (`CommitRaises`).

Edits. In the packages, a tree may be edited whenever a journal exists, the receipt
only while nobody holds the lock; edits inside a container are left out. In the
workspace, a file is `edited` when a check still follows. In both, an item is `raced`
when the edit falls between the check and the rename it allows (`LookAt` and
`MoveOut`, `LookAtNew` and `Retire` for packages): what stands there then is moved, and
those items the program can lose. A transaction begins with items that nobody
edited. Contents are symbols; two versions of a file with the same bytes are one.
In the workspace, staging and recording are one step: before the record a
container holds nothing of value. Items do not interact, so the order of their
renames, which the code fixes, is left open.

### Runs `packages` and `workspace_batch`

Two packages (files), two contents, two transactions in a row, two failures or
crashes, one edit. Two items are the least in which a change can be half done; a
second transaction meets what the first left; two faults are a crash and one in
its recovery. `Undoable` / `BatchIsWhole`: until the decision every original
exists, containers hold nothing foreign but what an edit put there behind a check, and
who is granted access sees all or nothing. `ForeignKept` / `EditKept`: content
somebody else wrote is not touched, unless it was written between the check and the
rename (see "Disagreements"). `ImplementsChange`: the
refinement. `RecoveryEnds`: an interrupted change is completed or undone, unless
an edit stops its recovery. Fairness: the lock keeps being taken (every tool
access, start and refresh recovers first) and its holder goes on; nothing is
assumed of calls succeeding.

### Proofs (PackageTransactionProofs; third part of SessionTurnsProofs)

All safety properties of both runs and both refinements, for every set of items and
contents and every bound, from `PackageAssumption` and `WorkspaceAssumption` (the
special values differ, the bounds are numbers). The invariants say where the tree of
every item that nobody edited stands, by what the journal says and how far the
holder of the lock is (`Place`, `PlaceOf`); the types and `OriginalKept` alone do not tell a tree
that is already swapped from one that is still to be. For the packages `Boxed` says
what the containers hold, `ReceiptPlaced` where the receipt is, `Unforeign`
that foreign content is only where somebody put it, `Looked` what is known of a tree
between its check and its move, and `RacedInside` that only there something foreign gets
into a container. For the workspace `EditsSeen`
says that an edited file is in a state no check accepts, which is why a rollback
stops before it. The refinement needs one lemma per visible step (`BeginOpens`,
`CommitDecides`, `JournalSettles`, `EditDisturbs`); every other step is hidden
(`HiddenStep`). `RecoveryEnds` is liveness and stays with TLC.

## JobBoard, AgentWorker, AgentJobs

One `AgentWorker` per conversation: a thread that takes jobs and controls from a
queue, runs them, asks for approvals, publishes events; other threads submit, cancel,
answer, stop and drain between any two of its steps. Each call of a client is its
section of the state lock. Lifecycle events that nobody acts on are left out.
`JobBoard` is what a worker promises: its jobs begin in order, one at a time; each
ends once; only a job somebody asked to stop, or of a closed worker, ends cancelled;
a job asked to stop before it began never begins. `AgentJobs` adds the record of
endings that the refinement needs. A callback of a reconfiguration that raises a
`BaseException` ends the thread with jobs unresolved; that is left out.

Run `worker`: one worker, three jobs, one control, two approvals. Three jobs are one
that runs, one that waits and one cancelled before it begins; two approvals let an
answer to the first arrive at the second. `WorkerIsSound`: approvals take one
answer, their own, and quiet means idle. `ImplementsBoard`: the refinement. Only
safety; how a chat's jobs end is checked in `chat`.

### Proofs (first and second part of AgentWorkerProofs)

`WorkersAreSound`: `WorkerSpec => WorkerIsSound`, for every set of workers and every
number of jobs, controls and approvals. The queue is unbounded in the proof, so what a
worker says of itself has to be counted: `QueueInv` says that every job in the queue
was accepted, is there once and is not the one under way (`ItemsOf`), what the thread
has at each place (`PlaceOf`), and that `controls` is the number of controls in the
queue and the one under way (`ControlsOf`), from which a worker without any is idle.
`AnswerInv` says that an approval is up only while its job asks, that every answer in
the queue is to an approval asked for so far, and that the queue holds one answer to
the one that is up if it was answered and none if not; so the answer that is taken for
it was given to it. `CountAppend` and `CountTail` are the two facts about the queue.

`JobsAreOnBoard`: `JobsSpec => ImplementsBoard`, the refinement. Jobs are numbered as
they are accepted, so the board's queue is the last numbers given out, as many as wait
in the queue or in the thread before their first check (`Coming`). That this is the
order the worker takes them in is what has to be proved: `OrderOf` says that those
that wait are an interval up to the last number, that the queue ascends and that the
thread's job is below all of it; then the job in the thread is the board's oldest
(`OldestLeaves`) and a submission its newest (`FromAppend`, `FromTail`). `EndsOf`
says that a job about to end as cancelled was asked to stop or its worker closed. Each
step maps to one of the board's (`BeginMaps`, `ReportMaps`, `SubmitMaps`, `CancelMaps`)
or to none; a cancellation that meets a job already reported is one of these.

## ChatView

One chat over its two workers, the conversation's own and the one of background
commands. The interface is one thread: an action is a key, an event, one step of
a frame. `phase`, `turn`, `command`, `shown`, `line`, `paused` are the fields of the
view; `sent` and `dropped` record what became of every message. Left out: drawing,
the review a user gives an approval, other chats. A cancellation accepted after a
job's last check still ends as "completed" while the view shows "Task stopped";
`/clear` typed while paused is queued and later submitted as text. Both are kept.

Run `chat`: three inputs of the user (a command counts as two), a control and an
approval; a turn, a queued message and a key that stops, edits or leaves.
`ScreenIsTrue`: the phase has a job, the approval on the screen is the one waited
for, a chat that calls itself quiet for a handoff has no thread at work and shows no task,
and the interface refuses nothing but a pick. A chat that forgot its running turn
(`forgot`, raised by a refused `Pick` while a task is shown) is excluded from what the
code does not keep there: phase, approval and the task shown at a handoff; what it refuses is widened to
the starts it then tries (see `TurnRemembered` under "Disagreements"). `MessagesKept`: nothing typed is lost or
overtaken. `ChatMoves`: stopping, leaving and the queue make progress. Fairness:
frames and threads go on, because tools, requests and commands are bounded and look
at the flags; nothing is assumed of the user, so the queue may wait for an approval,
an open edit or a pause.

### Proofs (third part of AgentWorkerProofs)

For any number of inputs, jobs, controls and approvals. `ScreenInv` is inductive (TLC
checks it on the run's constants) and rests on `WorkerInv`, the invariant of the
threads above; every step of the view is made of calls of `AgentWorker`, so that
invariant is kept by lemmas already there. What the screen needs besides is the order
in which a job's events come. `ThreadPart` says it without the screen: after its
reply a job only ends (`DoneLast`), and once the reply is among its events the thread
has nothing to do but report the end (`Past`).

`TurnPart` then relates the phase, the events not yet read and the thread. While a
task runs, `DONE` means the reply was read and only its end can follow (`DoneFits`);
a phase from which the end is yet to be read has the reply before it (`EndFits`,
`DoneFirst`), so that "completed" never meets a phase the interface refuses. An
approval, on its way or on the screen, is the one the thread waits for, nobody
answered it, and nothing of its job follows it (`AskFits`, `ApprovalFits`): so the
answer reaches the question it was given to. `STOPPING` is the exception everywhere,
because the thread goes on until it sees the flag. `CommandFits` says the same of a
command that is shown like a task. `OrderAppend` and `OrderTail` carry the
three orders through publishing and reading.

`ScreensAreTrue`: `Spec => []ScreenIsTrue`. `ForgotFits` says what a chat that forgot its
turn looks like: it shows a task, has none, and nothing but leaving changes that. A pick is the one place where the
interface raises (`OnlyPickRaises`); that every other event finds a phase that accepts
it is the part of the proof that needs all of the above. `MessagesAreKept`:
`Spec => []MessagesKept`, from `MessageInv`: what was sent and what waits ascend, all
that was sent lies below all that waits, and what was typed is one of sent, waiting
and dropped. A message whose dispatch is refused stays at the front. `FinishEdit` states what an edit keeps as an ascending choice of
places, because the library's `SelectSeq` is recursive and cannot be reasoned about.
`ChatMoves`, a liveness property, stays with TLC.

## SourceMirror

The editable mirror of the source. A tree is a version and carries a stamp that
every write changes; `known`, `inflight`, `submitted`, `rejected`, `rejections` and
`suppressed` are the fields of the staging state; `task` is the supervisor's
transition, in the five places where a write can meet it. Abstractions: preparing
the mirror is atomic, a sweep and its digest are one step (a digest of a torn tree
is `torn`), validation does not reformat.

Run `mirror`: three versions, a limit of two rejections, three writes, two messages,
two updates of the operator or crashes. `StagingIsSound`: every submission is
accounted for (`Accounted`), without a word of the user no more than the limit of
rejections follow each other (`LoopIsBounded`), no rejected tree is validated again
(`NoSecondRejection`), and edits that a recovery undid stay away (`RolledBackStays`).
`EditsGetVerdict`: submissions end, and what the agent writes in its turns is judged.
Three versions allow a rejected tree, its repair and a third; the limit of two is
the least that counts. Fairness: frames, turns and tasks of the supervisor end;
nothing is assumed of the verdict or the user.

Not claimed, because the code does not do it: a tree that was left changed by a swap,
or met a busy supervisor, is taken for known and not submitted again until somebody
writes (`EditsResubmitted`); a candidate that fails to start after its capture resets
the mirror to the old release and the counter of rejections.

### Proofs (second part of UpdateLedgerProofs)

`M!StagingIsSound` for every set of versions, every positive limit and every bound,
from `M!MirrorAssumption`. `M` is an instance of `SourceMirror` on variables of its
own (`answers` and `waits` are its `results` and `paused`, names the ledger has too);
the proof uses nothing of the ledger.
`Bounded` ties the streak to the counter of the code and to the submission under way;
`Remembered` carries the rejected tree from the supervisor's answer to the core's
field, which `NoSecondRejection` needs, and `Settled` says that after a recovery there
is nothing to sweep until somebody writes. `Answered` gives each request one answer.

## UpdateLedger

An update's result goes from the supervisor to the core's inbox, is reviewed by a turn
of the conversation, claimed in the manifest before the provider hears of it, and
cleared after the reply is in the journal. `disk` is the manifest, `toCore` and
`toSupervisor` the pipes, `asked` the history of who told a provider. `Served` says
that one loop of the supervisor serves claims, ends and `/resume-queue`, one at a
time. A core is replaced by a swap, a crash or a restart of the supervisor.

Run `ledger`: two results, three cores in a row, one failing write, one review given
up or `/resume-queue` each. Three cores are one that asks, one that must not repeat
it and one that hears the rest. `NoReplay`: no later core repeats what a provider may
have heard. `EvidenceKept`: the manifest holds each result, open before and claimed
after the request, until the conversation has its reply. `Delivered`: every result is
claimed in the end, unless its review was stopped or the queue stays paused.
Fairness: tasks and frames go on; nothing is assumed of crashes to stop.

### Proofs (first part of UpdateLedgerProofs)

`NoReplay` and `EvidenceKept` for every set of results, any number of cores (at least
one), failures and stops. The invariant follows a claim through both pipes: a claim
that is waited for is the last message of its core (`Waited`), its acknowledgement
means that the manifest has the claim, and the one write under way holds the state as
it was when it began (`Write`), so that a failing write can be undone. Without the
tokens (`Tokens`) an old answer could be taken for the new one.

## PluginUpdates

Threads run operations, nested or not; a change of packages is asked for within an
operation, by a thread without one, or by a hook that is being loaded; it is put off
until the last operation ends, then prepared, captured, validated, activated and
committed under the runtime's lock. `frames` are `_local.operations`, `work` the
application that holds the lock, `known` and `loaded` the versions of the sources that
are watched and in use. One scope of packages. The lock of a lost request is kept,
although in the code it is the thread's: an over-approximation.

Run `plugins`: two threads, three operations, two requests, two edits of the sources.
`GenerationStands`: an operation keeps its generation, what is watched is what was
loaded, installed and active packages agree, and what a failed operation asked for is
never active. `NothingForgotten`: a request is held by somebody until it is done or
undone. `Settles`: it is, in the end. Fairness: applications go on; operations end,
however often they call others (strong fairness for `End`, because a nested call
disables it for a while). Excluded by history variables: `deaf`, a notice that raises
after the activation loses its request, which is then neither committed nor rolled
back; `reverted`, the journal of a failed commit is recovered under running plugins.

### Proofs (PluginUpdatesProofs)

`GenerationStands` and `NothingForgotten` for every finite set of threads (the code
counts operations, so their number has to be one), every set of requests and every
bound. `Counted` makes the count that of the threads with a frame, so that a
generation changes when none runs. A request is in exactly one place: the frames of
one thread, the list put off, the list of the application, or behind it (`Distinct`,
`Fresh`, `Asked`); that no place is left out when a frame's requests move is what
`NothingForgotten` needs.

## Delegation

A turn hands a batch of tasks to a bounded pool; each pool thread creates a child chat
in the catalog and waits for its task. `thread`, `result` are the batch; `place`,
`queue`, `halted`, `stopping`, `completion` the children's workers in short;
`entries`, `active`, `closed` the catalog of each generation of the plugin.

Run `delegation`: two tasks, two pool threads, two generations. `BatchIsTrue`: results
are those of the children, and a child that fails or is stopped costs no sibling.
`CatalogIsTrue`: the count of working children is true of those that did not slip, and after closing no child of
the active generation has a thread. `DelegationEnds`: a batch returns or is cancelled,
and closing ends. Fairness: threads are scheduled and tasks end. Excluded: a child
that begins or rests during a replacement (`slipped`) is miscounted from then on (14
steps); a pool thread that outlives a cancelled batch creates its child after the turn
(6 steps), and after a replacement in the old catalog, which nothing closes (13
steps), so `CloseIsFinal` speaks of `source = generation`. A child whose thread cannot
start stays in the catalog as running, and cancelling the parent leaves its children
running: both are in the model.

### Proofs (second part of SessionTurnsProofs)

The module extends `SessionTurns`, `Delegation` and `WorkspaceTransaction`. `BatchesAreTrue` and
`CatalogsAreTrue` hold for every finite set of requests and every width of the pool.
Neither `ResultsAreTrue` nor `CatalogIsTrue` is inductive. `DelegationInv` adds where a
request's thread, its child's worker and its future may be at the same time
(`RequestInv`), how far a replacement and the end of the application are
(`GenerationInv`), that whoever has a worker is in the catalog the batch was prepared
by and that nobody is created into a closed one (`EntriesInv`), the catalog a worker
reports to (`BoundInv`), and what each catalog counts at each stage of a replacement
(`CountInv`). One lemma for each of the twenty actions. `DelegationEnds` is liveness and
stays with TLC.

## CommandRun, IsolatedRequest, GoalLoop

### What is modelled

`CommandRun` is `run_command` on POSIX. `caller` is the thread that joins, `loop` the
event loop of the command's own thread; `leader`, `members`, `outsider` are the
processes of the program: the one that was started, another one of its group, and a
descendant in a session of its own that holds the pipes. The program forks, escapes,
writes and ends as it likes.

`IsolatedRequest` is `run_child` with the worker it starts: a request to a provider, a
task of a child conversation, or a plugin command, which runs a `CommandRun` inside
the worker; or a command the host runs itself. `host` is `_run_process` from the
exchange over SIGTERM, grace and SIGKILL to the answer; `worker` is `main` of the
worker with its handlers; `watcher` the thread that watches the parent. The user may
cancel, the worker may crash, the host may die, at any step. `severed` says that the
process that ran a command died with it: the command's session is its own, so the
worker's group, which is killed, does not contain it, and it lives on. Time is a
choice: any deadline or grace may pass.

`GoalLoop` is a message of the user with a goal: the turn, its retries, the judge, the
feedback as the next prompt; `/goal` on the command thread sets and clears the goal;
both threads save it into the session's state in three steps and checkpoint it.
`goal`, `revision` are the controller's, `memory`, `saved`, `rollback` what the session
keeps, `saving` and `seen` how far each save is. Turn and judge call `IsolatedRequest`;
before any turn the host may make one of the other calls instead. A turn is one
request whose answer is its final action; the journal does not refuse; the objective
is its revision. A host that dies is not restarted in this model: what it would
restore is `saved`.

### Run `calls`

Two pieces of output, two changes of the goal, four requests, one message. Four
requests are an answer, a judge who sends it back, the next answer and its judge; or
one retry of each; two changes are setting and replacing or clearing. `CallIsWhole`:
once the caller goes on no process of the group is left and all output is captured,
unless the process that ran the command was killed (`severed`) or `killpg` raised
(`spared`), where the code leaves it running (see "Disagreements"); no
worker outlives its request; an answer is that of a worker that ended by itself after
its final record, with exactly one snapshot that nobody had cancelled. `GoalIsKept`:
only a judge of the present goal ends it, no answer the judge refused is shown and one
at most is, and with nothing under way the stored goal is the one in force.
`CallsEnd`: a cancelled message or call ends, a command ends in time, a worker does
not outlive a dead host. Fairness: loops that poll, threads that own a call, a worker
that boots or leaves; nothing of a worker at work, a program, the user or faults.
`Held` is excluded: a descendant in another session, or a process that could not be
killed, that keeps the pipes is waited for past deadline and cancellation.

### Proofs (GoalLoopProofs)

`CallsAreWhole` and `GoalsAreKept`: `Spec => []CallIsWhole`, `Spec => []GoalIsKept`, for
every amount of output and every number of goals, requests and messages, from
`OutputAssumption` and `GoalAssumption` alone. The inductive invariant is `Inv`:

- `CommandInv`, `Owned`: where a command is follows from where its loop and its caller
  are, and a command under way has an owner, the host or the worker; only the owner's
  death breaks it off, and that is `severed`; of a group whose killing failed a process
  other than the leader may be left, and that is `spared`.
- `Fresh`, `Meant`: what is known of a call before its worker ends, and that a worker
  that left with the code of success was neither cancelled nor broken off; an exchange
  counts as answered only with such a worker.
- `Answers`: an answer gets its number when it comes, so while the loop waits for one
  or holds it, it is neither shown nor rejected.
- `Places`, `Stored`: at most one thread saves, whatever it has read is the goal in
  force, and a turn that is undone goes back to the goal that was stored, except while
  a completed goal waits for its save (`Pending`). This part is stated for runs that
  are not `raced`, as the property is.

The calls are proved first, one lemma per action of `IsolatedRequest` and `CommandRun`;
the loop only ever makes requests of them (`LoopCalls`) and nothing outside it changes
what it knows (`GoalStutters`). TLC checked `Inv` with the bounds of the run (655,510
states). `CallsEnd` is liveness and stays with TLC.

## Disagreements between the code and what it says of itself

Each is stated as a property at the end of its module (or obtained by dropping the
named exclusion); none is part of a run, and TLC finds its counterexample with the
configuration of the module's run changed as given (for CoreHandoff: launches,
requests, emergencies and crashes, with a `MaxSpent` that allows them all).

| Module | Property | Bounds | What happens |
|---|---|---|---|
| CoreHandoff | `CrashRecovered` | 2 launches, 1 request, 1 crash | a core that dies while an update validates is not replaced; the transition waits for ever |
| CoreHandoff | `EveryDrainEnds` | 3 launches, 1 request, 1 emergency, 27 steps | an update of a recovered core before `/resume-queue` waits for ever: the core has already sent its idle message (`docs/LIVE_CORE.md:17`, "Both wait for active work to finish") |
| CoreHandoff | `EveryDrainEnds` | 2 launches, 2 requests, 28 steps | continue and drain polled within one frame leave `handoff_idle_sent` set, and the transition waits for ever |
| CoreHandoff | `HandoffFromLiveCore` | 3, 1, 0, 1 | a core that dies while it drains is taken for an idle one, and an older checkpoint for its capture |
| CoreHandoff | `MenuKeepsSession` | 2, 0, 1, 0, `MenuDuringStartup` | the recovery menu used while the first core starts ends the session with a startup failure, and may start a second core beside it |
| CoreHandoff | `OnlyResumeQueueResumes` | 3, 1, 1, 0 | a rejected update after an emergency recovery resumes the held queue |
| SessionJournal | `ReopenKeepsSelection` | as the run | a commit that failed in its flush may still be in the stream's buffer when its removal fails at the seek; `close` writes it, and the next opening selects the turn the user was told had failed |
| SessionTurns | `CommandChangeSaved` | as the run | a turn that ends between a command's change and its checkpoint replaces the states in memory; the checkpoint saves the replacement and returns normally |
| SessionTurns | `QuietMatchesStore` without `stale` | as the run, 6 steps | `reset` clears conversation and states and only then calls `new_session` (`session.py:578-583`), which closes the journal and may fail to open the next (`storage.py:460-465`); the session is empty, the old journal is selected, and a restart brings it back. The docstring says "Start a fresh conversation" |
| SessionTurns | `QuietMatchesStore` without `unsaved` | as the run, 2 steps | a checkpoint that raises leaves the command's change in memory and not in the journal |
| SessionTurns | `QuietMatchesStore`, `SavedChangeSurvives` without `disputed` | as the run | a checkpoint between the steps of a fork is not in the branch the fork selects; a restore hook that raises brings back a state older than a change made meanwhile |
| PackageTransaction | `ForeignNeverDeleted` | as the run, 9 steps | the docstring of `rollback` (`package_transactions.py:300`) says "Restore originals without deleting externally modified public trees"; a tree put in place between the digest check (274, 333) and the rename (277, 355) is moved into the container and deleted by the cleanup |
| ChatView | `NeverTwoTasks` | as the run, 4 steps | the picker of `/resume` stays open while an update's result starts a turn; choosing a session then starts another |
| ChatView | `TurnRemembered`; `PhaseHasJob`, `HandoffIsQuiet` and `OnlyPickRaises` without `forgot` | as the run, 4 steps | a session is chosen in that picker while the supervisor has taken dispatch away: `_submit_task` returns `None` (`controller.py:1967-1974`), which becomes `active_job_id` (2661). The turn goes on unseen, the phase stays RUNNING with nothing to end it, the chat is handed over in it, and the queue raises when it drains |
| ChatView | `OneThreadOwns` | as the run, 10 steps | a command stopped in an idle chat is forgotten while it unwinds, and the next message starts a turn beside it |
| UpdateLedger | `AskedOnce` | as the run, 16 steps | `/resume-queue` announces a result again that the core has; its claimed review is given up, and the second one is accepted because the result is claimed already (`supervisor.py:798` against the docstring at 794) |
| SourceMirror | `SwapKeepsEdits` | 3 writes, 2 messages, 1 other | `docs/LIVE_CORE.md:46` says that edits made while validation ran are preserved; the digest the next core compares with is taken after validation (`core_staging.py:337`), so the swap overwrites them (404) |
| SourceMirror | `EditsResubmitted` | the same | edits a swap preserved, or that met a busy supervisor, are not submitted again until the next write |
| Delegation | `CountIsTrue` without `slipped` | as the run, 14 steps | a child that begins or rests while its plugin is replaced reports to the catalog that goes away, and the new one counts it wrongly from then on |
| GoalLoop | `GoalIsStored` without `raced` | as the run | two saves at once (23 steps) or a turn undone between a command's save and its checkpoint (14 steps) lose the goal in the journal; a cancellation raised between the judge's acceptance and the save behind it leaves the completed goal stored (40 steps) |
| CommandRun | `CallsEnd` without `Held` | as the run | a descendant in another session that keeps the pipes is waited for past deadline and cancellation; the docstring of `runner.py` speaks of "complete process-tree ownership" |
| IsolatedRequest | `NothingOutlives` without `severed` | as the run, 7 steps | a worker or host that is killed while it runs a command leaves the command running: its session is its own and nobody else knows it |
| CommandRun | `NothingOutlives` without `spared` | as the run, 8 steps | `killpg` raises and only the leader is killed (`runner.py:282-285`); another process of the group outlives the call |

## Not modelled

Files and locks: one file and the calls on it; what they promise is the step size of
the modules that use them. Release store: sequential verification of digests;
`CoreHandoff` takes a release as sealed or not. Terminal interface (rendering, key
decoding, selection), configuration and provider setup, context compaction, memory and
skills: functions of data, without a second actor or a step that a crash could
separate. Research drivers (RLM, GEPA, self-harness): long sequential experiments
around the program; they are most of the lines the map does not cover, with rendering,
parsing and validation. Of the modelled components: HTTP, package downloads, Windows
jobs, several chats at once, `/resume` over two journals, documents inside a handoff,
what plugins contribute to a generation. Every safety property
and refinement that a run checks is stated by a theorem. Liveness and `ENABLED` are
beyond the prover and stay with TLC: `TransitionsEnd`, `Delivered`, `RecoveryEnds`,
`Settles`, `ChatMoves`, `EditsGetVerdict`, `DelegationEnds` and `CallsEnd`.
