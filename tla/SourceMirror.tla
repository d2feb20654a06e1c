----------------------------- MODULE SourceMirror -----------------------------
(* The editable mirror of the source (raychat/core_staging.py) and how its  *)
(* edits reach the supervisor: the sweeps of the interface at the boundary  *)
(* of a turn (raychat/ui/controller.py), the capture and validation of what *)
(* was submitted, the swap of the core (raychat_bootstrap/supervisor.py)    *)
(* and the adoption of the mirror by the next core. A tree is a version;    *)
(* a sweep sees the stamp that every write changes.                         *)
EXTENDS Naturals

CONSTANTS Version,        \* contents of the source trees
          None,           \* the digest ""
          Launched,       \* the content of the launch release
          Limit,          \* limits.staging_reject_limit
          MaxWrites,      \* bound: writes to the mirror
          MaxMessages,    \* bound: messages of the user
          MaxOther        \* bound: updates by the operator, and crashes

ASSUME MirrorAssumption ==
  /\ Launched \in Version /\ None \notin Version
  /\ Limit \in Nat \ {0} /\ {MaxWrites, MaxMessages, MaxOther} \subseteq Nat

VARIABLES tree, stamp,     \* the mirror
          release, previous,
          known,           \* fingerprints: the stamp of the last sweep
          inflight,        \* inflight_id; 0 for ""
          submitted, rejected, rejections, suppressed,
          turn,            \* some job runs
          paused,          \* live.paused
          task,            \* the transition of the supervisor
          saved,           \* staging_digest in the captured state
          results,         \* update results the core has not acted on
          requests, messages, others,
          streak,          \* history: submissions since a message, success or swap
          refused,         \* history: the last tree the supervisor rejected
          recovered,       \* history: nobody wrote since the last recovery
          torn,            \* history: a tree changed before it was captured
          disturbed        \* history: a write outside turns, or a busy supervisor

mirror == <<tree, stamp>>
staging == <<known, inflight, submitted, rejected, rejections, suppressed>>
core == <<staging, turn, paused, results>>
supervisor == <<release, previous, task, saved>>
bounds == <<requests, messages, others>>
history == <<streak, refused, recovered, torn, disturbed>>
vars == <<mirror, core, supervisor, bounds, history>>

Idle == [at |-> "none", id |-> 0, content |-> None]

Init ==
  /\ tree = Launched /\ stamp = 0
  /\ release = Launched /\ previous = Launched
  /\ known = 0 /\ inflight = 0 /\ submitted = None /\ rejected = None
  /\ rejections = 0 /\ suppressed = FALSE
  /\ turn = FALSE /\ paused = FALSE
  /\ task = Idle /\ saved = None /\ results = {}
  /\ requests = 0 /\ messages = 0 /\ others = 0
  /\ streak = 0 /\ refused = None /\ recovered = FALSE /\ torn = FALSE /\ disturbed = FALSE

Up == task.at # "swapping"

-----------------------------------------------------------------------------
(* The core.                                                                *)

(* _submit_task: a message of the user lifts the suppression.               *)
Message ==
  /\ Up /\ ~turn /\ ~paused /\ messages < MaxMessages
  /\ turn' = TRUE /\ messages' = messages + 1
  /\ suppressed' = FALSE /\ rejections' = 0 /\ streak' = 0
  /\ UNCHANGED <<mirror, known, inflight, submitted, rejected, paused, results, supervisor,
                 requests, others, refused, recovered, torn, disturbed>>

EndTurn ==
  /\ turn /\ turn' = FALSE
  /\ UNCHANGED <<mirror, staging, paused, results, supervisor, bounds, history>>

(* The agent writes in a turn; others write whenever they like.             *)
Write ==
  /\ stamp < MaxWrites
  /\ tree' \in Version \ {tree} /\ stamp' = stamp + 1
  /\ recovered' = FALSE
  /\ torn' = (torn \/ (task.at = "capturing" /\ task.id # 0))
  /\ disturbed' = (disturbed \/ ~turn)
  /\ UNCHANGED <<core, supervisor, bounds, streak, refused>>

(* Mutant of Quiet: a rejection stays in the way.                           *)
QuietOnce == /\ Up /\ ~turn /\ ~paused /\ results = {} /\ inflight = 0 /\ ~suppressed
             /\ rejected = None

(* _staging_quiet                                                           *)
Quiet == Up /\ ~turn /\ ~paused /\ results = {} /\ inflight = 0 /\ ~suppressed

(* Mutant of Unchanged: the tree that was rejected is submitted again.      *)
UnchangedRelease == tree = release

(* _staging_change: what a sweep that found other stamps leaves alone.      *)
Unchanged == tree \in {release, rejected}

(* _check_staging and, at the supervisor, _request_update.                  *)
Sweep ==
  /\ Quiet /\ stamp # known
  /\ known' = stamp
  /\ IF Unchanged
     THEN UNCHANGED <<inflight, submitted, requests, streak, task, results, disturbed>>
     ELSE /\ requests' = requests + 1 /\ inflight' = requests' /\ submitted' = tree
          /\ streak' = streak + 1
          /\ IF task = Idle
             THEN task' = [at |-> "capturing", id |-> requests', content |-> None]
                  /\ UNCHANGED <<results, disturbed>>
             ELSE results' = {[id |-> requests', status |-> "busy"]} /\ disturbed' = TRUE
                  /\ UNCHANGED task
  /\ UNCHANGED <<mirror, rejected, rejections, suppressed, turn, paused, release, previous, saved,
                 messages, others, refused, recovered, torn>>

(* Mutants of Outcome: a rejection is not counted; a busy supervisor leaves *)
(* the request open.                                                        *)
OutcomeUncounted(status) ==
  /\ inflight' = 0
  /\ IF status = "rejected"
     THEN rejected' = submitted /\ UNCHANGED <<rejections, suppressed>>
     ELSE IF status \in {"busy", "interrupted"}
     THEN suppressed' = TRUE /\ UNCHANGED <<rejected, rejections>>
     ELSE rejected' = None /\ rejections' = 0 /\ UNCHANGED suppressed

OutcomeKeepsBusy(status) ==
  /\ inflight' = IF status = "busy" THEN inflight ELSE 0
  /\ IF status = "rejected"
     THEN rejected' = submitted /\ rejections' = rejections + 1
          /\ suppressed' = (suppressed \/ rejections' >= Limit)
     ELSE IF status \in {"busy", "interrupted"}
     THEN suppressed' = TRUE /\ UNCHANGED <<rejected, rejections>>
     ELSE rejected' = None /\ rejections' = 0 /\ UNCHANGED suppressed

(* _staging_outcome                                                         *)
Outcome(status) ==
  /\ inflight' = 0
  /\ IF status = "rejected"
     THEN rejected' = submitted /\ rejections' = rejections + 1
          /\ suppressed' = (suppressed \/ rejections' >= Limit)
     ELSE IF status \in {"busy", "interrupted"}
     THEN suppressed' = TRUE /\ UNCHANGED <<rejected, rejections>>
     ELSE rejected' = None /\ rejections' = 0 /\ UNCHANGED suppressed

(* _continue_update: the result is taken into account, then reviewed by a   *)
(* turn. Results of a request that an earlier core made change nothing.     *)
Review ==
  /\ Up /\ ~turn /\ ~paused
  /\ \E r \in results :
       /\ results' = results \ {r}
       /\ IF r.id = inflight
          THEN Outcome(r.status) /\ streak' = IF r.status = "rejected" THEN streak ELSE 0
          ELSE UNCHANGED <<inflight, rejected, rejections, suppressed, streak>>
  /\ turn' = TRUE
  /\ UNCHANGED <<mirror, known, submitted, paused, supervisor, bounds, refused, recovered, torn, disturbed>>

-----------------------------------------------------------------------------
(* The supervisor.                                                          *)
At(place) == task.at = place
GoesTo(place) == task' = [task EXCEPT !.at = place]

(* /update SOURCE and the planned /recover previous.                        *)
Operator ==
  /\ Up /\ task = Idle /\ others < MaxOther /\ others' = others + 1
  /\ \E v \in Version : task' = [at |-> "validating", id |-> 0, content |-> v]
  /\ UNCHANGED <<mirror, core, release, previous, saved, requests, messages, history>>

(* releases.capture copies the tree as it is now.                           *)
Capture ==
  /\ At("capturing") /\ task' = [task EXCEPT !.at = "validating", !.content = tree]
  /\ UNCHANGED <<mirror, core, release, previous, saved, bounds, history>>

Validated ==
  /\ At("validating") /\ GoesTo("draining") /\ paused' = TRUE
  /\ UNCHANGED <<mirror, staging, turn, results, release, previous, saved, bounds, history>>

(* The core is idle: its state is captured, and with it the digest of the   *)
(* mirror.                                                                  *)
Drained ==
  /\ At("draining") /\ ~turn
  /\ GoesTo("probing") /\ saved' = tree
  /\ UNCHANGED <<mirror, core, release, previous, bounds, history>>

(* Mutant of Result: updates that nobody asked a result of get one.         *)
ResultAlways(status) == {[id |-> task.id, status |-> status]}

Result(status) == IF task.id = 0 THEN {} ELSE {[id |-> task.id, status |-> status]}

(* Mutant of Reject: the running core gets no result.                       *)
RejectSilently ==
  /\ task.at \in {"capturing", "validating", "draining", "probing"}
  /\ task' = Idle /\ paused' = FALSE
  /\ refused' = IF task.id = 0 THEN refused ELSE task.content
  /\ UNCHANGED <<mirror, results, staging, turn, release, previous, saved, bounds, streak, recovered, torn, disturbed>>

(* A step before the swap fails: the core goes on.                          *)
Reject ==
  /\ task.at \in {"capturing", "validating", "draining", "probing"}
  /\ task' = Idle /\ paused' = FALSE
  /\ results' = results \cup Result("rejected")
  /\ refused' = IF task.id = 0 THEN refused ELSE task.content
  /\ UNCHANGED <<mirror, staging, turn, release, previous, saved, bounds, streak, recovered, torn, disturbed>>

Stop ==
  /\ At("probing") /\ GoesTo("swapping")
  /\ UNCHANGED <<mirror, core, release, previous, saved, bounds, history>>

(* sync_from_release                                                        *)
Synced(source) == tree' = source /\ stamp' = IF tree = source THEN stamp ELSE stamp + 1

(* prepare: the new core starts its own record of what was submitted.       *)
Prepare(source, reset) ==
  /\ IF reset \/ tree = saved THEN Synced(source) ELSE UNCHANGED mirror
  /\ known' = stamp'
  /\ inflight' = 0 /\ submitted' = None /\ rejected' = None /\ rejections' = 0 /\ suppressed' = FALSE
  /\ streak' = 0 /\ refused' = None

Activate ==
  /\ At("swapping") /\ task' = Idle
  /\ release' = task.content /\ previous' = release
  /\ Prepare(task.content, FALSE)
  /\ paused' = FALSE /\ results' = results \cup Result("activated")
  /\ UNCHANGED <<turn, saved, bounds, recovered, torn, disturbed>>

(* _restart_previous: the candidate does not start.                         *)
Restart ==
  /\ At("swapping") /\ task' = Idle
  /\ Prepare(release, FALSE)
  /\ paused' = FALSE /\ results' = results \cup Result("rejected")
  /\ UNCHANGED <<turn, release, previous, saved, bounds, recovered, torn, disturbed>>

(* Mutant of Recover: the mirror is treated as after a swap.                *)
RecoverKeeps ==
  /\ others < MaxOther /\ others' = others + 1
  /\ \E target \in {previous, Launched} : release' = target /\ Prepare(target, FALSE)
  /\ task' = Idle /\ turn' = FALSE /\ paused' = TRUE
  /\ results' = results \cup Result("interrupted")
  /\ recovered' = TRUE
  /\ UNCHANGED <<previous, saved, requests, messages, torn, disturbed>>

(* The core dies, or is given up; the next one runs a release that the user *)
(* or the supervisor chose, on a fresh mirror, and waits for /resume-queue. *)
Recover ==
  /\ others < MaxOther /\ others' = others + 1
  /\ \E target \in {previous, Launched} : release' = target /\ Prepare(target, TRUE)
  /\ task' = Idle /\ turn' = FALSE /\ paused' = TRUE
  /\ results' = results \cup Result("interrupted")
  /\ recovered' = TRUE
  /\ UNCHANGED <<previous, saved, requests, messages, torn, disturbed>>

ResumeQueue ==
  /\ task = Idle /\ paused /\ paused' = FALSE
  /\ UNCHANGED <<mirror, staging, turn, results, supervisor, bounds, history>>

Next == \/ Message \/ EndTurn \/ Write \/ Sweep \/ Review
        \/ Operator \/ Capture \/ Validated \/ Drained \/ Reject
        \/ Stop \/ Activate \/ Restart \/ Recover \/ ResumeQueue

Spec == Init /\ [][Next]_vars

(* Frames and the tasks of the supervisor go on, turns end. Nothing is      *)
(* assumed of the user, who resumes the queue, nor of the verdict.          *)
Fairness == /\ WF_vars(EndTurn) /\ WF_vars(Sweep) /\ WF_vars(Review)
            /\ WF_vars(Capture) /\ WF_vars(Validated \/ Reject)
            /\ WF_vars(Drained) /\ WF_vars(Stop) /\ WF_vars(Activate \/ Restart)

FairSpec == Spec /\ Fairness

-----------------------------------------------------------------------------
TypeOK ==
  /\ tree \in Version /\ release \in Version /\ previous \in Version
  /\ stamp \in Nat /\ known \in 0..stamp /\ inflight \in 0..requests
  /\ {submitted, rejected, saved, refused} \subseteq Version \cup {None}
  /\ rejections \in Nat /\ {suppressed, turn, paused, recovered, torn, disturbed} \subseteq BOOLEAN
  /\ task.at \in {"none", "capturing", "validating", "draining", "probing", "swapping"}
  /\ task.id \in 0..requests /\ task.content \in Version \cup {None}
  /\ \A r \in results : r.id \in 1..requests
                       /\ r.status \in {"activated", "rejected", "busy", "interrupted"}

(* The supervisor is given one submission at a time, and the core that made *)
(* it hears of it: it is under way or its result is on its way.             *)
Accounted ==
  inflight # 0 /\ Up => (task.id = inflight) # (\E r \in results : r.id = inflight)

(* Without a word of the user, one core submits no more than the limit of   *)
(* trees in a row that get rejected.                                        *)
LoopIsBounded == streak <= Limit

(* A tree that was rejected is not validated again, unless somebody wrote   *)
(* to the mirror between the sweep that submitted it and its capture.       *)
NoSecondRejection ==
  At("validating") /\ task.id # 0 /\ ~torn => task.content # refused

(* Edits that were rolled back by a recovery do not come back: the core     *)
(* that runs then submits nothing until somebody writes to the mirror.      *)
RolledBackStays == recovered => inflight = 0 /\ tree = release

(* Every submission is accounted for, repairing and submitting again does   *)
(* not go round for ever, and what a recovery undid stays undone.           *)
StagingIsSound ==
  TypeOK /\ Accounted /\ LoopIsBounded /\ NoSecondRejection /\ RolledBackStays

(* Every submission ends for the core that made it.                         *)
SubmissionEnds == inflight # 0 ~> inflight = 0

(* What the agent writes in its turns is judged: it becomes the release, or *)
(* the supervisor rejects it, or the core waits for the user.               *)
EditsJudged ==
  tree \notin {release, rejected}
    ~> \/ tree \in {release, rejected} \/ suppressed \/ disturbed
       \/ []<>paused

(* Neither a submission nor what the agent wrote is left undecided.         *)
EditsGetVerdict == SubmissionEnds /\ EditsJudged

(* docs/LIVE_CORE.md promises that the mirror keeps edits that were made    *)
(* while validation ran. The code keeps those that were made after the      *)
(* state of the old core was captured; a swap overwrites earlier ones.      *)
SwapKeepsEdits ==
  [][Activate /\ task.id # 0 => tree' = tree \/ tree = task.content]_vars

(* The same page promises that edits which a swap preserved, or that met a  *)
(* busy supervisor, are resubmitted. The code takes them for known: the     *)
(* next core starts from their stamps, and a busy result leaves them known. *)
EditsResubmitted ==
  tree \notin {release, rejected} ~> tree \in {release, rejected} \/ []<>(paused \/ suppressed)
=============================================================================
