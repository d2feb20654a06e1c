----------------------------- MODULE UpdateLedger -----------------------------
(* The results of core updates between the supervisor, which keeps them     *)
(* (raychat_bootstrap/supervisor.py), and the core, which puts them to the  *)
(* conversation (raychat/core_bridge.py, session.py, ui/controller.py). A   *)
(* result is claimed before a provider hears of it, and the claim stays as  *)
(* evidence until the reply is in the journal. Messages keep their order;   *)
(* one task at a time writes the manifest, and any write may fail.          *)
EXTENDS Naturals, Sequences, FiniteSets

CONSTANTS Request,        \* updates whose result the conversation waits for
          MaxCores,       \* bound: cores that run one after the other
          MaxFailures,    \* bound: writes of the manifest that fail
          MaxStops        \* bound: reviews that are stopped, time out or fail,
                          \* and uses of /resume-queue, each

ASSUME LedgerAssumption ==
  MaxCores \in Nat \ {0} /\ {MaxFailures, MaxStops} \subseteq Nat

VARIABLES results, claimed,   \* update_results, claimed_results
          untold,             \* ended updates whose result is not sent yet
          writing,            \* the claim or end that is being recorded
          disk,               \* what the manifest says
          toCore, toSupervisor,
          inbox,              \* live.update_results
          review,             \* the reviewed results, at most one
          stage,              \* how far the review is
          token,              \* the last claim that was sent
          paused,             \* live.paused
          cores, failures, stops, resumes,
          produced,           \* history: updates that have ended
          recorded,           \* history: results that reached the manifest
          asked,              \* history: cores and claims by which a provider heard of it
          committed,          \* history: results whose reply is in the journal
          dropped             \* history: results whose review ended unclaimed

ledger == <<results, claimed, untold, writing, disk>>
core == <<inbox, review, stage, token, paused>>
counters == <<cores, failures, stops, resumes>>
history == <<produced, recorded, asked, committed, dropped>>
vars == <<ledger, toCore, toSupervisor, core, counters, history>>

NoWrite == [kind |-> "none", requests |-> {}, token |-> 0, data |-> {}]

Init ==
  /\ results = {} /\ claimed = {} /\ untold = {} /\ writing = NoWrite
  /\ disk = [results |-> {}, claimed |-> {}]
  /\ toCore = <<>> /\ toSupervisor = <<>>
  /\ inbox = {} /\ review = {} /\ stage = "none" /\ token = 0 /\ paused = FALSE
  /\ cores = 1 /\ failures = 0 /\ stops = 0 /\ resumes = 0
  /\ produced = {} /\ recorded = {} /\ asked = [r \in Request |-> {}]
  /\ committed = {} /\ dropped = {}

(* _write_record: both documents, as they are when the write begins.        *)
Record == /\ disk' = [results |-> results, claimed |-> claimed]
          /\ recorded' = recorded \cup results
          /\ UNCHANGED failures

Fails == failures < MaxFailures /\ failures' = failures + 1

Unlocked == writing = NoWrite

-----------------------------------------------------------------------------
(* The supervisor.                                                          *)

(* _update_result: first in memory, then the manifest, then the core, also  *)
(* when the manifest could not be written.                                  *)
Produce(r) ==
  /\ r \notin produced
  /\ produced' = produced \cup {r} /\ results' = results \cup {r} /\ untold' = untold \cup {r}
  /\ UNCHANGED <<claimed, writing, disk, toCore, toSupervisor, core, counters, recorded, asked, committed, dropped>>

Announce(r) ==
  /\ r \in untold /\ untold' = untold \ {r} /\ Unlocked
  /\ \/ Record
     \/ Fails /\ UNCHANGED <<disk, recorded>>
  /\ toCore' = Append(toCore, [kind |-> "results", requests |-> {r}])
  /\ UNCHANGED <<results, claimed, writing, toSupervisor, core, cores, stops, resumes, produced, asked, committed, dropped>>

(* Every other record of the supervisor: dispatches, checkpoints.           *)
Save ==
  /\ Unlocked /\ disk # [results |-> results, claimed |-> claimed]
  /\ Record
  /\ UNCHANGED <<results, claimed, untold, writing, toCore, toSupervisor, core, cores, stops, resumes,
                 produced, asked, committed, dropped>>

(* Mutants of Pending: claimed results are told again; none is.             *)
PendingClaimed == results \cup claimed
PendingNone == {}

Pending == results

(* One loop serves claims, requests of updates and /resume-queue in turn: a *)
(* core that is paused after a crash asks for nothing while a claim that    *)
(* was made before is still being written.                                  *)
Served == Unlocked \/ ~paused

(* _resume, by /resume-queue or at the end of a transition that kept the    *)
(* core.                                                                    *)
Resume ==
  /\ Served
  /\ resumes < MaxStops /\ resumes' = resumes + 1
  /\ toCore' = Append(toCore, [kind |-> "continue", requests |-> Pending])
  /\ UNCHANGED <<ledger, toSupervisor, core, cores, failures, stops, history>>

(* The lock is fair: a result that waits for it is announced before its     *)
(* claim is looked at.                                                      *)
Begins(kind) == /\ Unlocked /\ toSupervisor # <<>> /\ Head(toSupervisor).kind = kind
                /\ Head(toSupervisor).requests \cap untold = {}
                /\ toSupervisor' = Tail(toSupervisor)

Writes(m) == writing' = [m EXCEPT !.data = {[results |-> results', claimed |-> claimed']}]

(* Mutant of BeginClaim: the result stays open beside its claim.            *)
BeginClaimKeeps ==
  /\ Begins("claim")
  /\ LET m == Head(toSupervisor) IN claimed' = claimed \cup m.requests /\ UNCHANGED results /\ Writes(m)
  /\ UNCHANGED <<untold, disk, toCore, core, counters, history>>

(* _claim_update_result: a result that is known is claimed; one that was    *)
(* claimed already is accepted as it is, others are declined.               *)
BeginClaim ==
  /\ Begins("claim")
  /\ LET m == Head(toSupervisor) IN
     IF m.requests \subseteq results
     THEN claimed' = claimed \cup m.requests /\ results' = results \ m.requests
          /\ Writes(m) /\ UNCHANGED toCore
     ELSE /\ toCore' = Append(toCore, [kind |-> "ack", token |-> m.token,
                                       accepted |-> m.requests \subseteq claimed])
          /\ UNCHANGED <<results, claimed, writing>>
  /\ UNCHANGED <<untold, disk, core, counters, history>>

Saved == \A data \in writing.data : disk' = data /\ recorded' = recorded \cup data.results

(* Mutants of EndClaim: an unsaved claim is accepted, or forgotten.         *)
EndClaimAccepts ==
  /\ writing.kind = "claim" /\ writing' = NoWrite
  /\ \/ Saved /\ UNCHANGED failures
     \/ Fails /\ UNCHANGED <<disk, recorded>>
  /\ toCore' = Append(toCore, [kind |-> "ack", token |-> writing.token, accepted |-> TRUE])
  /\ UNCHANGED <<results, claimed, untold, toSupervisor, core, cores, stops, resumes, produced, asked, committed, dropped>>

EndClaimForgets ==
  /\ writing.kind = "claim" /\ writing' = NoWrite
  /\ \E accepted \in BOOLEAN :
       /\ IF accepted THEN Saved /\ UNCHANGED <<claimed, failures>>
          ELSE Fails /\ claimed' = claimed \ writing.requests /\ UNCHANGED <<disk, recorded>>
       /\ toCore' = Append(toCore, [kind |-> "ack", token |-> writing.token, accepted |-> accepted])
  /\ UNCHANGED <<results, untold, toSupervisor, core, cores, stops, resumes, produced, asked, committed, dropped>>

EndClaim ==
  /\ writing.kind = "claim" /\ writing' = NoWrite
  /\ \E accepted \in BOOLEAN :
       /\ IF accepted THEN Saved /\ UNCHANGED <<results, claimed, failures>>
          ELSE /\ Fails /\ UNCHANGED <<disk, recorded>>
               /\ claimed' = claimed \ writing.requests /\ results' = results \cup writing.requests
       /\ toCore' = Append(toCore, [kind |-> "ack", token |-> writing.token, accepted |-> accepted])
  /\ UNCHANGED <<untold, toSupervisor, core, cores, stops, resumes, produced, asked, committed, dropped>>

(* _finish_update_result                                                    *)
BeginFinish ==
  /\ Begins("finish")
  /\ LET m == Head(toSupervisor) IN
     IF m.requests \subseteq claimed
     THEN claimed' = claimed \ m.requests /\ UNCHANGED results /\ Writes(m)
     ELSE UNCHANGED <<results, claimed, writing>>
  /\ UNCHANGED <<untold, disk, toCore, core, counters, history>>

EndFinish ==
  /\ writing.kind = "finish" /\ writing' = NoWrite
  /\ \/ Saved /\ UNCHANGED <<claimed, failures>>
     \/ Fails /\ claimed' = claimed \cup writing.requests /\ UNCHANGED <<disk, recorded>>
  /\ UNCHANGED <<results, untold, toCore, toSupervisor, core, cores, stops, resumes, produced, asked, committed, dropped>>

-----------------------------------------------------------------------------
(* The core.                                                                *)
NoReview == review' = {} /\ stage' = "none"

(* poll: the answer to a claim counts while its review waits for it.        *)
Receive ==
  /\ toCore # <<>> /\ toCore' = Tail(toCore)
  /\ LET m == Head(toCore) IN
     IF m.kind = "ack"
     THEN /\ IF stage # "claiming" \/ m.token # token THEN UNCHANGED <<review, stage, asked, dropped>>
             ELSE IF m.accepted
             THEN /\ stage' = "working" /\ UNCHANGED <<review, dropped>>
                  /\ asked' = [r \in Request |-> asked[r] \cup IF r \in review THEN {<<cores, token>>} ELSE {}]
             ELSE NoReview /\ dropped' = dropped \cup review /\ UNCHANGED asked
          /\ UNCHANGED <<inbox, paused>>
     ELSE /\ inbox' = inbox \cup m.requests
          /\ paused' = (paused /\ m.kind # "continue")
          /\ UNCHANGED <<review, stage, asked, dropped>>
  /\ UNCHANGED <<ledger, toSupervisor, token, counters, produced, recorded, committed>>

(* _continue_update                                                         *)
Review(r) ==
  /\ ~paused /\ stage = "none" /\ r \in inbox
  /\ inbox' = inbox \ {r} /\ review' = {r} /\ stage' = "queued"
  /\ UNCHANGED <<ledger, toCore, toSupervisor, token, paused, counters, history>>

Sends(kind) == toSupervisor' = Append(toSupervisor,
                 [kind |-> kind, requests |-> review, token |-> token', data |-> {}])

(* claim_result                                                             *)
Claim ==
  /\ stage = "queued" /\ stage' = "claiming" /\ token' = token + 1
  /\ Sends("claim")
  /\ UNCHANGED <<ledger, toCore, inbox, review, paused, counters, history>>

(* The user stops the review, no answer comes in time, or it fails.         *)
GiveUp ==
  /\ stage \in {"queued", "claiming", "working"} /\ stops < MaxStops /\ stops' = stops + 1
  /\ NoReview
  /\ dropped' = IF stage = "working" THEN dropped ELSE dropped \cup review
  /\ UNCHANGED <<ledger, toCore, toSupervisor, inbox, token, paused, cores, failures, resumes,
                 produced, recorded, asked, committed>>

(* Mutant of Commit: the evidence is given up before the reply is written.  *)
CommitLate ==
  /\ stage = "working" /\ stage' = "committed" /\ UNCHANGED <<token, committed>>
  /\ Sends("finish")
  /\ UNCHANGED <<ledger, toCore, inbox, review, paused, counters, produced, recorded, asked, dropped>>

(* _complete_prompt: the reply is in the journal, then finish_result.       *)
Commit ==
  /\ stage = "working" /\ stage' = "committed" /\ committed' = committed \cup review
  /\ UNCHANGED <<ledger, toCore, toSupervisor, inbox, review, token, paused, counters, produced, recorded,
                 asked, dropped>>

Finish ==
  /\ stage = "committed" /\ NoReview /\ UNCHANGED token
  /\ Sends("finish")
  /\ UNCHANGED <<ledger, toCore, inbox, paused, counters, history>>

-----------------------------------------------------------------------------
(* Another core takes over, after a planned swap or after a crash. What the *)
(* old one still said is not listened to, and its reviews are gone.         *)
NewCore ==
  /\ cores < MaxCores /\ cores' = cores + 1
  /\ toSupervisor' = <<>> /\ inbox' = {} /\ NoReview
  /\ UNCHANGED <<token, failures, stops, resumes, produced, recorded, asked, committed, dropped>>

Swap ==
  /\ stage = "none" /\ Served /\ NewCore
  /\ toCore' = <<[kind |-> "continue", requests |-> Pending]>> /\ UNCHANGED <<ledger, paused>>

Crash == NewCore /\ paused' = TRUE /\ toCore' = <<>> /\ UNCHANGED ledger

(* The supervisor dies, and a recovery starts from its manifest.            *)
RestoreRecovery ==
  /\ NewCore /\ paused' = TRUE /\ toCore' = <<>>
  /\ results' = disk.results /\ claimed' = disk.claimed
  /\ untold' = {} /\ writing' = NoWrite
  /\ UNCHANGED disk

Next == \/ \E r \in Request : Produce(r) \/ Announce(r) \/ Review(r)
        \/ Save \/ Resume \/ BeginClaim \/ EndClaim \/ BeginFinish \/ EndFinish
        \/ Receive \/ Claim \/ GiveUp \/ Commit \/ Finish
        \/ Swap \/ Crash \/ RestoreRecovery

Spec == Init /\ [][Next]_vars

(* Tasks of the supervisor and frames of the core go on.                    *)
FairSpec ==
  /\ Spec
  /\ WF_vars(Receive) /\ WF_vars(Claim) /\ WF_vars(BeginClaim \/ BeginFinish)
  /\ WF_vars(EndClaim \/ EndFinish) /\ WF_vars(Commit) /\ WF_vars(Finish)
  /\ \A r \in Request : WF_vars(Announce(r)) /\ WF_vars(Review(r))

-----------------------------------------------------------------------------
TypeOK ==
  /\ UNION {results, claimed, untold, inbox, review, disk.results, disk.claimed} \subseteq Request
  /\ results \cap claimed = {} /\ disk.results \cap disk.claimed = {}
  /\ writing.kind \in {"none", "claim", "finish"} /\ token \in Nat
  /\ stage \in {"none", "queued", "claiming", "working", "committed"}
  /\ Cardinality(review) = IF stage = "none" THEN 0 ELSE 1
  /\ \A r \in Request : asked[r] \subseteq (1..MaxCores) \X (1..token)

(* A provider hears of a result only when its claim is in the manifest.     *)
ClaimedFirst == stage = "working" => review \subseteq disk.claimed

(* A result that one core put to a provider is not put to one by a later    *)
(* core, whatever was lost in between: recovery does not replay it.         *)
NoReplay == \A r \in Request : \A a, b \in asked[r] : a[1] = b[1]

(* "Durably stop replay immediately before feedback reaches a provider":    *)
(* what _claim_update_result says of itself, of one core too.               *)
AskedOnce == \A r \in Request : Cardinality(asked[r]) <= 1

(* As long as the reply is not in the journal, the supervisor holds the     *)
(* evidence that the provider may have acted.                               *)
EvidenceStays ==
  \A r \in Request : asked[r] # {} /\ r \notin committed => r \in claimed /\ r \in disk.claimed

(* A result that reached the manifest stays there, open or claimed, until   *)
(* the conversation has its reply; crashes of either side leave it alone.   *)
NothingLost == recorded \subseteq disk.results \cup disk.claimed \cup committed

(* The manifest holds every result until the conversation does: open before *)
(* a provider may hear of it, claimed from then on.                         *)
EvidenceKept == TypeOK /\ ClaimedFirst /\ EvidenceStays /\ NothingLost

(* A result gets claimed, unless its review was stopped, declined or timed  *)
(* out before, or nobody resumes the queue after a recovery.                *)
Delivered ==
  \A r \in Request :
    r \in results ~> r \notin results \/ r \in dropped \/ <>[]paused
=============================================================================
