------------------------ MODULE WorkspaceTransaction ------------------------
(* A batch of workspace files replaced together (self-harness promotion     *)
(* over raychat/workspace_transactions.py), and the recovery that every     *)
(* access to the workspace starts with. All of it under the workspace lock, *)
(* which editors ignore: an edit can fall between a check and the rename it *)
(* allows. Files do not interact, so the order of the renames is left open. *)
(* Two versions with the same bytes are one; edits write Foreign.           *)
EXTENDS Naturals, FiniteSets

CONSTANTS File,
          Bytes,           \* contents
          None,            \* no such file
          Foreign,         \* content written by an editor meanwhile
          MaxBatches,      \* bound: batches begun
          MaxFaults,       \* bound: calls that raise, and crashes
          MaxEdits         \* bound: files edited

ASSUME WorkspaceAssumption ==
  /\ None \notin Bytes /\ Foreign \notin Bytes /\ None # Foreign
  /\ {MaxBatches, MaxFaults, MaxEdits} \subseteq Nat

VARIABLES file,
          box,      \* per file its container: incoming, original (a copy), retired
          journal,  \* "none", "pending", "committed" or "rolled_back"
          change,   \* the recorded changes: before and after of each file
          pc,       \* what the holder of the lock does; "idle" without one
          left,     \* the files its loop has still to visit
          count, faults,
          edited,   \* history: files edited where a check still follows
          raced     \* history: files edited between the check and the rename

workspaceVars == <<file, box, journal, change, pc, left, count, faults, edited, raced>>

Content == Bytes \cup {None}
Empty == [incoming |-> None, original |-> None, retired |-> None]

Planned == DOMAIN change
Before(f) == change[f].before
After(f) == change[f].after

WorkspaceInit ==
  /\ file \in [File -> Content]
  /\ box = [f \in File |-> Empty]
  /\ journal = "none" /\ change = [f \in {} |-> Empty]
  /\ pc = "idle" /\ left = {}
  /\ count = 0 /\ faults = 0 /\ edited = {} /\ raced = {}

Goto(place, visits) == pc' = place /\ left' = visits
Fault == faults < MaxFaults /\ faults' = faults + 1
Files == <<file, box, journal, change, count, edited, raced>>

-----------------------------------------------------------------------------
(* begin: every file must be what the caller read; container, new content   *)
(* and backup are written for each, then the record. A save that raises may *)
(* have published it; containers without a record hold nothing of value.    *)
Begin(files, after) ==
  /\ pc = "idle" /\ journal = "none" /\ count < MaxBatches
  /\ files \cap (edited \cup raced) = {}
  /\ change' = [f \in files |-> [before |-> file[f], after |-> after[f]]]
  /\ box' = [f \in File |-> IF f \in files
                            THEN [Empty EXCEPT !.incoming = after[f], !.original = file[f]]
                            ELSE Empty]
  /\ journal' = "pending" /\ count' = count + 1
  /\ \/ Goto("ready", files) /\ UNCHANGED faults
     \/ Goto("idle", {}) /\ Fault
  /\ UNCHANGED <<file, edited, raced>>

(* _Change.state: only these three combinations are accepted.               *)
Holds(f, current, incoming, original, retired) ==
  file[f] = current /\ box[f] = [incoming |-> incoming, original |-> original, retired |-> retired]

Original(f) == Holds(f, Before(f), After(f), Before(f), None)
Applied(f) == Holds(f, After(f), None, Before(f), None)
Restored(f) == Holds(f, Before(f), None, None, IF Before(f) = None THEN After(f) ELSE None)

(* Mutant of Undoable: what an earlier recovery has restored is refused.    *)
UndoableOnce(f) == Original(f) \/ Applied(f)

Undoable(f) == Original(f) \/ Applied(f) \/ Restored(f)

(* Mutant of ToUndo: a created file is left where it is.                    *)
ToUndoReplaced == {f \in Planned : Applied(f) /\ Before(f) # None}

ToUndo == {f \in Planned : Applied(f)}

(* Mutants of StartRollback: the decision is not read from the record; the  *)
(* files are not checked before the first is restored.                      *)
StartRollbackForgets == IF \A f \in Planned : Undoable(f) THEN Goto("undo", ToUndo) ELSE Goto("idle", {})
StartRollbackUnchecked == IF journal # "pending" THEN Goto("clean", Planned)
                          ELSE Goto("undo", {f \in Planned : box[f].incoming = None})

(* rollback: every file is checked before the first is restored.            *)
StartRollback ==
  IF journal # "pending" THEN Goto("clean", Planned)
  ELSE IF \A f \in Planned : Undoable(f) THEN Goto("undo", ToUndo)
  ELSE Goto("idle", {})

Recover == /\ pc = "idle" /\ journal # "none"
           /\ StartRollback
           /\ UNCHANGED <<Files, faults>>

-----------------------------------------------------------------------------
(* Mutant of Apply: the files are not read again.                           *)
ApplyUnchecked == /\ pc = "ready"
                  /\ Goto("swap", Planned)
                  /\ UNCHANGED <<Files, faults>>

(* apply: the whole batch is checked, then renamed into place.              *)
Apply == /\ pc = "ready"
         /\ IF \A f \in Planned : Original(f) THEN Goto("swap", Planned) ELSE StartRollback
         /\ UNCHANGED <<Files, faults>>

Replace(f) == /\ pc = "swap" /\ f \in left
              /\ file' = [file EXCEPT ![f] = After(f)]
              /\ box' = [box EXCEPT ![f].incoming = None]
              /\ left' = left \ {f}
              /\ UNCHANGED <<journal, change, pc, count, faults, edited, raced>>

Published == /\ pc = "swap" /\ left = {}
             /\ Goto("applied", {})
             /\ UNCHANGED <<Files, faults>>

(* Mutant of CommitBatch: the backups go before the decision is recorded.   *)
CommitCleansFirst == /\ pc = "applied"
                     /\ Goto("clean", Planned)
                     /\ UNCHANGED <<Files, faults>>

(* commit: what was published must still be there. The promotion lets the   *)
(* lock go whether its decision was recorded, refused, or the save raised.  *)
CommitBatch ==
  /\ pc = "applied"
  /\ IF \A f \in Planned : file[f] = After(f)
     THEN journal' = "committed" /\ Goto("clean", Planned)
     ELSE UNCHANGED journal /\ Goto("idle", {})
  /\ UNCHANGED <<file, box, change, count, faults, edited, raced>>

CommitRaises == /\ pc = "applied" /\ Fault
                /\ \A f \in Planned : file[f] = After(f)
                /\ journal' \in {"pending", "committed"}
                /\ Goto("idle", {})
                /\ UNCHANGED <<file, box, change, count, edited, raced>>

(* Whatever fails between begin and the decision, the new generation that   *)
(* does not load included, makes the runtime roll the batch back.           *)
ApplyFails == /\ pc \in {"ready", "swap", "applied"} /\ Fault
              /\ StartRollback
              /\ UNCHANGED Files

-----------------------------------------------------------------------------
(* restore: a created file is moved into its container, any other is        *)
(* replaced by the backup. A created file that is gone stops the rollback.  *)
Undo(f) == /\ pc = "undo" /\ f \in left
           /\ IF Before(f) # None
              THEN /\ file' = [file EXCEPT ![f] = box[f].original]
                   /\ box' = [box EXCEPT ![f].original = None]
                   /\ left' = left \ {f} /\ UNCHANGED pc
              ELSE IF file[f] # None
              THEN /\ file' = [file EXCEPT ![f] = None]
                   /\ box' = [box EXCEPT ![f].retired = file[f]]
                   /\ left' = left \ {f} /\ UNCHANGED pc
              ELSE Goto("idle", {}) /\ UNCHANGED <<file, box>>
           /\ UNCHANGED <<journal, change, count, faults, edited, raced>>

SaveRolledBack == /\ pc = "undo" /\ left = {}
                  /\ journal' = "rolled_back"
                  /\ Goto("clean", Planned)
                  /\ UNCHANGED <<file, box, change, count, faults, edited, raced>>

(* _cleanup: a container is removed only while it holds what was recorded;  *)
(* then the record. A removal cut short leaves some of its files.           *)
Expected(f) == /\ box[f].incoming \in {None, After(f)}
               /\ box[f].original \in {None, Before(f)}
               /\ box[f].retired \in {None, After(f)}

RemoveContainer(f) == /\ pc = "clean" /\ f \in left
                      /\ IF Expected(f)
                         THEN /\ box' = [box EXCEPT ![f] = Empty]
                              /\ left' = left \ {f} /\ UNCHANGED pc
                         ELSE Goto("idle", {}) /\ UNCHANGED box
                      /\ UNCHANGED <<file, journal, change, count, faults, edited, raced>>

RemovePart(f) == /\ pc = "clean" /\ f \in left /\ Expected(f) /\ Fault
                 /\ \E gone \in SUBSET DOMAIN Empty :
                      box' = [box EXCEPT ![f] = [k \in DOMAIN Empty |->
                                IF k \in gone THEN None ELSE box[f][k]]]
                 /\ Goto("idle", {})
                 /\ UNCHANGED <<file, journal, change, count, edited, raced>>

RemoveJournal == /\ pc = "clean" /\ left = {}
                 /\ journal' = "none"
                 /\ Goto("idle", {})
                 /\ UNCHANGED <<file, box, change, count, faults, edited, raced>>

(* The process ends, or a call of rollback or cleanup raises.               *)
StopBatch ==
  /\ pc # "idle" /\ Fault
  /\ Goto("idle", {})
  /\ UNCHANGED Files

-----------------------------------------------------------------------------
(* An editor writes or removes a file of the batch, at any moment.          *)
Edit(f) == /\ journal # "none" /\ Cardinality(edited \cup raced) < MaxEdits
           /\ f \in Planned \ (edited \cup raced)
           /\ \E new \in {Foreign, None} \ {file[f]} : file' = [file EXCEPT ![f] = new]
           /\ IF pc \in {"swap", "undo"} /\ f \in left
              THEN raced' = raced \cup {f} /\ UNCHANGED edited
              ELSE edited' = edited \cup {f} /\ UNCHANGED raced
           /\ UNCHANGED <<box, journal, change, pc, left, count, faults>>

Visit(f) == \/ Replace(f) \/ Undo(f) \/ RemoveContainer(f) \/ RemovePart(f) \/ Edit(f)

WorkspaceNext ==
  \/ Recover
  \/ \E files \in (SUBSET File) \ {{}}, after \in [File -> Bytes] : Begin(files, after)
  \/ \E f \in File : Visit(f)
  \/ Apply \/ Published \/ ApplyFails \/ CommitBatch \/ CommitRaises
  \/ SaveRolledBack \/ RemoveJournal \/ StopBatch

WorkspaceSpec == WorkspaceInit /\ [][WorkspaceNext]_workspaceVars

(* The tools of a session keep opening the workspace, and whoever holds its *)
(* lock carries on. Nothing is assumed of callers that begin a batch.       *)
Progress == \/ Recover \/ Apply \/ Published \/ CommitBatch \/ SaveRolledBack \/ RemoveJournal
            \/ \E f \in File : Replace(f) \/ Undo(f) \/ RemoveContainer(f)

WorkspaceFairSpec == WorkspaceSpec /\ WF_workspaceVars(Progress)

-----------------------------------------------------------------------------
WorkspaceTypeOK ==
  /\ file \in [File -> Content \cup {Foreign}]
  /\ box \in [File -> [incoming : Content, original : Content, retired : Content \cup {Foreign}]]
  /\ \A f \in File \ raced : box[f].retired # Foreign
  /\ journal \in {"none", "pending", "committed", "rolled_back"}
  /\ Planned \subseteq File
  /\ \A f \in Planned : Before(f) \in Content /\ After(f) \in Bytes
  /\ pc \in {"idle", "ready", "swap", "applied", "undo", "clean"}
  /\ left \subseteq Planned
  /\ count \in Nat /\ faults \in Nat
  /\ edited \subseteq File /\ raced \subseteq File

(* Until the decision is recorded the original of every file nobody edited  *)
(* exists, in place or as the backup: the batch can be undone at any moment. *)
OriginalKept ==
  journal = "pending" => \A f \in Planned \ (edited \cup raced) :
                           Before(f) \in {file[f], box[f].original}

(* Whoever is granted access sees the whole batch or none of it, however    *)
(* much of the cleanup is still due.                                        *)
AccessSeesBatch ==
  pc = "idle" /\ journal # "pending" =>
    \A f \in Planned \ (edited \cup raced) :
      /\ journal = "committed" => file[f] = After(f)
      /\ journal = "rolled_back" => file[f] = Before(f)

(* A batch can be undone until it is decided, and is seen in full or not at *)
(* all by everybody who is granted access.                                  *)
BatchIsWhole == WorkspaceTypeOK /\ OriginalKept /\ AccessSeesBatch

(* An edit that a check follows is never overwritten, moved or removed: not *)
(* by the batch, not by its rollback, not by a recovery after the decision. *)
EditKept == [][\A f \in edited : file'[f] = file[f]]_workspaceVars

(* A batch that was interrupted is completed or undone in the end, unless   *)
(* an edit stops its recovery.                                              *)
RecoveryEnds == journal # "none" ~> (journal = "none" \/ edited \cup raced # {})

(* The refinement: all files change when the decision is recorded.          *)
Masked(f) == [x \in File |-> IF x \in edited \cup raced THEN Foreign ELSE f[x]]
Old == [x \in File |-> IF x \in Planned THEN Before(x) ELSE file[x]]
New == [x \in File |-> IF x \in Planned THEN After(x) ELSE file[x]]

Batch == INSTANCE AtomicChange WITH
  Item <- File,
  Value <- Content,
  Disturbed <- Foreign,
  stage <- IF journal = "none" THEN "settled"
           ELSE IF journal = "committed" THEN "decided" ELSE "open",
  content <- Masked(IF journal = "none" THEN file ELSE Old),
  offer <- Masked(IF journal = "none" THEN file ELSE New)

ImplementsChange == Batch!Spec
=============================================================================
