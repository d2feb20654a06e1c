----------------------------- MODULE PluginUpdates -----------------------------
(* Generations of plugins (raychat/plugins.py) and the package changes that *)
(* ask for new ones (raychat/plugin_manager.py). Threads run operations: a  *)
(* generation is pinned while any of them runs, and what they ask for is    *)
(* put off until the last one ends. A change is prepared, loaded, validated *)
(* and activated under the runtime's lock, while others go on writing the   *)
(* sources; each of its steps may fail.                                     *)
EXTENDS Naturals, Sequences, FiniteSets, SequencesExt

CONSTANTS Thread, Request,
          None,           \* no thread, no request
          MaxOperations,  \* bound: operations, nested ones too
          MaxWrites       \* bound: writes to the sources of active plugins

ASSUME PluginAssumption ==
  /\ None \notin Thread \cup Request /\ IsFiniteSet(Thread)
  /\ {MaxOperations, MaxWrites} \subseteq Nat

VARIABLES frames,         \* per thread, _local.operations: requests of each frame
          pinned,         \* per thread, the generation of its operation
          busy, pending, closing, closed,
          generation,
          active,         \* requests whose packages are in the generation
          work,           \* the application that holds the lock
          source,         \* the version of the sources on disk
          writes,         \* edits so far
          loaded,         \* the version the generation was loaded from
          known, rejected,\* _fingerprints, _rejected; 0 for None
          status,         \* per request
          held,           \* requests that hold the installation lock
          journal,        \* requests with a package journal on disk
          installed,      \* requests whose packages are installed for good
          reverted,       \* requests a recovery undid after they were active
          operations,     \* operations so far
          asker,          \* history: whose operation a request is from
          condemned,      \* history: requests of operations that failed
          deaf            \* history: a notice that raised lost a request

calls == <<frames, pinned, busy, operations>>
edits == <<source, writes>>
runtime == <<pending, closing, closed>>
plugins == <<generation, active, loaded, known, rejected>>
disk == <<held, journal, installed, reverted>>
past == <<asker, condemned, deaf>>
vars == <<calls, runtime, plugins, work, edits, status, disk, past>>

(* The thread that applies changes, where it is, what it has left to apply, *)
(* the version it captured, and the version the refresh had watched.        *)
NoWork == [by |-> None, at |-> "none", queue |-> <<>>, captured |-> 0, watched |-> 0]

Init ==
  /\ frames = [t \in Thread |-> <<>>] /\ pinned = [t \in Thread |-> 0]
  /\ busy = 0 /\ pending = <<>> /\ closing = FALSE /\ closed = FALSE
  /\ generation = 1 /\ active = {} /\ work = NoWork
  /\ source = 1 /\ writes = 0 /\ loaded = 1 /\ known = 1 /\ rejected = 0
  /\ status = [r \in Request |-> "new"]
  /\ held = {} /\ journal = {} /\ installed = {} /\ reverted = {}
  /\ operations = 0
  /\ asker = [r \in Request |-> None] /\ condemned = {} /\ deaf = FALSE

Unlocked == work = NoWork
Outside(t) == frames[t] = <<>>
Requests(queue) == ToSet(queue)

(* The requests of the set are committed, or rolled back.                   *)
Settle(set, verdict) == status' = [r \in Request |-> IF r \in set THEN verdict ELSE status[r]]

Applies(t, queue) == [NoWork EXCEPT !.by = t, !.at = "prepare", !.queue = queue]

-----------------------------------------------------------------------------
(* Operations.                                                              *)
Enter(t) == /\ busy' = busy + 1
            /\ pinned' = [pinned EXCEPT ![t] = generation']
            /\ frames' = [frames EXCEPT ![t] = <<<<>>>>]

Stale == busy = 0 /\ source \notin {known, rejected}

(* _begin_operation, with nothing to refresh.                               *)
Begin(t) ==
  /\ Outside(t) /\ Unlocked /\ ~closing /\ ~closed /\ ~Stale
  /\ operations < MaxOperations /\ operations' = operations + 1
  /\ UNCHANGED generation /\ Enter(t)
  /\ UNCHANGED <<runtime, active, loaded, known, rejected, work, edits, status, disk, past>>

(* refresh: changed sources are loaded before the operation begins.         *)
Refresh(t) ==
  /\ Outside(t) /\ Unlocked /\ ~closing /\ ~closed /\ Stale
  /\ operations < MaxOperations /\ operations' = operations + 1
  /\ work' = [NoWork EXCEPT !.by = t, !.at = "capture", !.watched = source]
  /\ UNCHANGED <<frames, pinned, busy, runtime, plugins, edits, status, disk, past>>

Nest(t) ==
  /\ Len(frames[t]) = 1 /\ frames' = [frames EXCEPT ![t] = Append(@, <<>>)]
  /\ operations < MaxOperations /\ operations' = operations + 1
  /\ UNCHANGED <<pinned, busy, runtime, plugins, work, edits, status, disk, past>>

(* request_reload within an operation of the thread.                        *)
Ask(t, r) ==
  /\ ~Outside(t) /\ Unlocked /\ status[r] = "new" /\ status' = [status EXCEPT ![r] = "asked"]
  /\ frames' = [frames EXCEPT ![t][Len(frames[t])] = Append(@, r)]
  /\ asker' = [asker EXCEPT ![r] = t]
  /\ UNCHANGED <<pinned, busy, operations, runtime, plugins, work, edits, disk, condemned, deaf>>

(* request_reload by a thread that has none: put off while others run,      *)
(* refused by a closed runtime, applied at once otherwise.                  *)
AskOutside(t, r) ==
  /\ Outside(t) /\ Unlocked /\ status[r] = "new"
  /\ IF closed
     THEN status' = [status EXCEPT ![r] = "undone"] /\ UNCHANGED <<pending, work>>
     ELSE /\ status' = [status EXCEPT ![r] = "asked"]
          /\ IF busy > 0 THEN pending' = Append(pending, r) /\ UNCHANGED work
             ELSE work' = Applies(t, <<r>>) /\ UNCHANGED pending
  /\ UNCHANGED <<calls, closing, closed, plugins, edits, disk, past>>

(* A hook of a plugin that is being loaded asks for another change.         *)
AskWithin(r) ==
  /\ work.at \in {"capture", "validate"} /\ status[r] = "new"
  /\ status' = [status EXCEPT ![r] = "undone"]
  /\ UNCHANGED <<calls, runtime, plugins, work, edits, disk, past>>

(* The end of a nested operation: its requests are its caller's now.        *)
(* Mutant of EndNested: they are pending at once.                           *)
EndNestedPending(t, succeeded) ==
  /\ Len(frames[t]) = 2 /\ Unlocked
  /\ frames' = [frames EXCEPT ![t] = <<@[1]>>]
  /\ IF succeeded THEN pending' = pending \o frames[t][2] /\ UNCHANGED <<status, condemned>>
     ELSE /\ Settle(Requests(frames[t][2]), "undone") /\ UNCHANGED pending
          /\ condemned' = condemned \cup Requests(frames[t][2])
  /\ UNCHANGED <<pinned, busy, operations, closing, closed, plugins, work, edits, disk, asker, deaf>>

EndNested(t, succeeded) ==
  /\ Len(frames[t]) = 2 /\ Unlocked
  /\ IF succeeded
     THEN frames' = [frames EXCEPT ![t] = <<@[1] \o @[2]>>] /\ UNCHANGED <<status, condemned>>
     ELSE /\ frames' = [frames EXCEPT ![t] = <<@[1]>>]
          /\ Settle(Requests(frames[t][2]), "undone")
          /\ condemned' = condemned \cup Requests(frames[t][2])
  /\ UNCHANGED <<pinned, busy, operations, runtime, plugins, work, edits, disk, asker, deaf>>

(* Mutant of Boundary: changes are applied while others still run.          *)
BoundaryAny == TRUE

Boundary == busy' = 0

(* Mutant of Retired: what is pending when the runtime closes stays.        *)
RetiredForgets(queue) == {}

(* close rolls back what was pending.                                       *)
Retired(queue) == Requests(queue)

(* _finish_operation of the outermost frame and _release_operation: the     *)
(* last one out closes the runtime or applies what is pending.              *)
End(t, succeeded) ==
  /\ Len(frames[t]) = 1 /\ Unlocked
  /\ frames' = [frames EXCEPT ![t] = <<>>] /\ busy' = busy - 1
  /\ LET own == frames[t][1]
         queue == IF succeeded THEN pending \o own ELSE pending
         failed == IF succeeded THEN {} ELSE Requests(own)
         closes == busy' = 0 /\ closing
     IN
     /\ condemned' = condemned \cup {r \in Request : ~succeeded /\ asker[r] = t}
     /\ asker' = [r \in Request |-> IF asker[r] = t THEN None ELSE asker[r]]
     /\ Settle(failed \cup IF closes THEN Retired(queue) ELSE {}, "undone")
     /\ closed' = (closed \/ closes)
     /\ pending' = IF Boundary THEN <<>> ELSE queue
     /\ work' = IF Boundary /\ ~closes /\ queue # <<>> THEN Applies(t, queue) ELSE NoWork
  /\ UNCHANGED <<pinned, operations, closing, plugins, edits, disk, deaf>>

(* close: now, or when the last operation ends.                             *)
Close ==
  /\ Unlocked /\ ~closed /\ ~closing
  /\ IF busy > 0 THEN closing' = TRUE /\ UNCHANGED closed
     ELSE closed' = TRUE /\ UNCHANGED closing
  /\ UNCHANGED <<calls, pending, plugins, work, edits, status, disk, past>>

-----------------------------------------------------------------------------
(* The application of the first request of the queue, or of changed sources *)
(* alone when the queue is empty.                                           *)
Current == IF work.queue = <<>> THEN {} ELSE {Head(work.queue)}

(* On to the next request; a refresh goes on with its operation.            *)
Proceeds ==
  IF work.queue = <<>>
  THEN work' = NoWork /\ Enter(work.by)
  ELSE /\ work' = IF Tail(work.queue) = <<>> THEN NoWork ELSE Applies(work.by, Tail(work.queue))
       /\ UNCHANGED <<frames, pinned, busy>>

(* _prepare_transaction: one change at a time holds the installation.       *)
Prepare ==
  /\ work.at = "prepare" /\ held = {} /\ journal = {}
  /\ held' = Current /\ journal' = journal \cup Current
  /\ work' = [work EXCEPT !.at = "capture"]
  /\ UNCHANGED <<calls, runtime, plugins, edits, status, installed, reverted, past>>

(* _prepare_generation: every source is captured before it is loaded.       *)
Capture ==
  /\ work.at = "capture"
  /\ work' = [work EXCEPT !.at = "validate", !.captured = source]
  /\ UNCHANGED <<calls, runtime, plugins, edits, status, disk, past>>

(* Any step fails before the generation has changed: _discard_generation    *)
(* and the rollback of this request; a refresh remembers what it watched.   *)
Fails(seen) ==
  /\ work.at \in {"prepare", "capture", "validate"}
  /\ Settle(Current, "undone")
  /\ held' = held \ Current /\ journal' = journal \ Current
  /\ rejected' = IF work.queue = <<>> THEN seen ELSE rejected
  /\ UNCHANGED <<operations, runtime, generation, active, loaded, known, edits, installed, reverted, asker, condemned>>

Fail(seen) == Fails(seen) /\ Proceeds /\ UNCHANGED deaf

(* The notice of the rejection raises: a refresh does not begin its         *)
(* operation, and the requests behind this one are dropped.                 *)
FailAloud(seen) ==
  /\ Fails(seen) /\ work' = NoWork /\ deaf' = (deaf \/ Len(work.queue) > 1)
  /\ UNCHANGED <<frames, pinned, busy>>

(* Mutant of Valid: sources that changed while they were loaded pass.       *)
ValidAnyway == TRUE

(* _validate_generation                                                     *)
Valid == source = work.captured

(* _activate_generation: the fingerprints of the validation are kept.       *)
Activates ==
  /\ work.at = "validate" /\ Valid
  /\ generation' = generation + 1 /\ active' = (active \ reverted) \cup Current
  /\ loaded' = work.captured /\ known' = source

Activate ==
  /\ Activates /\ rejected' = 0
  /\ IF Current = {} THEN Proceeds ELSE work' = [work EXCEPT !.at = "commit"] /\ UNCHANGED <<frames, pinned, busy>>
  /\ UNCHANGED <<operations, runtime, edits, status, disk, past>>

(* Mutant of NoticeFails: the request is rolled back all the same.          *)
NoticeFailsUndone ==
  /\ Activates /\ Proceeds
  /\ rejected' = IF Current = {} THEN work.watched ELSE 0
  /\ Settle(Current, "undone") /\ held' = held \ Current /\ journal' = journal \ Current
  /\ UNCHANGED <<operations, runtime, edits, installed, reverted, past>>

(* The notice of the new generation raises: a refresh takes it for a        *)
(* rejection; a request is neither committed nor rolled back, and keeps its *)
(* lock.                                                                    *)
NoticeFails ==
  /\ Activates /\ Proceeds /\ deaf' = (deaf \/ Current # {})
  /\ rejected' = IF Current = {} THEN work.watched ELSE 0
  /\ UNCHANGED <<operations, runtime, edits, status, disk, asker, condemned>>

(* _commit_transaction; when it fails the journal stays for recovery.       *)
Commit(succeeds) ==
  /\ work.at = "commit" /\ Settle(Current, "done")
  /\ held' = held \ Current
  /\ IF succeeds THEN journal' = journal \ Current /\ installed' = installed \cup Current
     ELSE UNCHANGED <<journal, installed>>
  /\ UNCHANGED reverted
  /\ Proceeds
  /\ UNCHANGED <<operations, runtime, plugins, edits, past>>

(* Whoever takes the lock next recovers a journal that was left: it holds   *)
(* the decision, or the packages go back to what they were.                 *)
Recover(decided) ==
  /\ held = {} /\ journal # {} /\ journal' = {}
  /\ IF decided
     THEN installed' = installed \cup journal /\ UNCHANGED <<reverted, source>>
     ELSE reverted' = reverted \cup journal /\ source' = source + 1 /\ UNCHANGED installed
  /\ UNCHANGED <<calls, runtime, plugins, work, writes, status, held, past>>

(* Somebody edits the sources of an active plugin.                          *)
Write ==
  /\ writes < MaxWrites /\ writes' = writes + 1 /\ source' = source + 1
  /\ UNCHANGED <<calls, runtime, plugins, work, status, disk, past>>

Apply == \/ Prepare \/ Capture \/ Activate \/ NoticeFails
         \/ \E seen \in {0, work.watched} : Fail(seen) \/ FailAloud(seen)
         \/ \E ok \in BOOLEAN : Commit(ok)

Next == \/ \E t \in Thread : Begin(t) \/ Refresh(t) \/ Nest(t)
        \/ \E t \in Thread, ok \in BOOLEAN : EndNested(t, ok) \/ End(t, ok)
        \/ \E t \in Thread, r \in Request : Ask(t, r) \/ AskOutside(t, r)
        \/ \E r \in Request : AskWithin(r)
        \/ \E decided \in BOOLEAN : Recover(decided)
        \/ Apply \/ Close \/ Write

Spec == Init /\ [][Next]_vars

(* Operations end, however often they call others, and applications go on.  *)
FairSpec ==
  /\ Spec /\ WF_vars(Apply)
  /\ \A t \in Thread : /\ WF_vars(\E ok \in BOOLEAN : EndNested(t, ok))
                        /\ SF_vars(\E ok \in BOOLEAN : End(t, ok))

-----------------------------------------------------------------------------
TypeOK ==
  /\ frames \in [Thread -> Seq(Seq(Request))] /\ pinned \in [Thread -> Nat]
  /\ {busy, generation, source, writes, loaded, known, rejected, operations} \subseteq Nat
  /\ {closing, closed, deaf} \subseteq BOOLEAN
  /\ pending \in Seq(Request) /\ work.queue \in Seq(Request)
  /\ work.by \in Thread \cup {None} /\ {work.captured, work.watched} \subseteq Nat
  /\ work.at \in {"none", "prepare", "capture", "validate", "commit"}
  /\ UNION {active, held, journal, installed, reverted, condemned} \subseteq Request
  /\ status \in [Request -> {"new", "asked", "done", "undone"}]
  /\ asker \in [Request -> Thread \cup {None}]

(* One generation serves an operation from its beginning to its end.        *)
PinnedGeneration == \A t \in Thread : frames[t] # <<>> => pinned[t] = generation

(* What the runtime takes the sources of its plugins to be is what it has   *)
(* loaded, however they change while a generation is made.                  *)
LoadedIsKnown == loaded = known

Waiting == Requests(pending) \cup Requests(work.queue)
             \cup UNION {UNION {Requests(q) : q \in ToSet(frames[t])} : t \in Thread}

(* A change is never forgotten: until it is done or undone someone has it,  *)
(* and whoever has the installation is at work on it. (A notice that raises *)
(* is the exception: see deaf.)                                             *)
NothingForgotten ==
  ~deaf => /\ \A r \in Request : status[r] = "asked" <=> r \in Waiting
           /\ held \subseteq Current /\ (closed => pending = <<>>)

(* Installed packages and active plugins agree, but for what a journal that *)
(* was left still covers or its recovery took back under running plugins,   *)
(* and what a failed operation asked for is never active.                   *)
InstalledIsActive ==
  /\ installed \subseteq active /\ active \subseteq installed \cup journal \cup reverted
  /\ condemned \cap active = {}

(* The generation that operations run on is whole, stays, and is the one    *)
(* that is installed.                                                       *)
GenerationStands == TypeOK /\ PinnedGeneration /\ LoadedIsKnown /\ InstalledIsActive

(* A change that is asked for is done or undone in the end.                 *)
Settles == \A r \in Request : status[r] = "asked" ~> status[r] \in {"done", "undone"} \/ deaf
=============================================================================
