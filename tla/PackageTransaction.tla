------------------------- MODULE PackageTransaction -------------------------
(* Package trees and their receipt, replaced under the scope lock           *)
(* (raychat/package_transactions.py), and the recovery that every           *)
(* acquisition of the lock starts with (raychat/plugin_manager.py). One     *)
(* action per call that changes a file; the process can end after each.     *)
(* Packages do not interact, so the order of the changes, which the code    *)
(* fixes, is left open.                                                     *)
EXTENDS Naturals, FiniteSets

CONSTANTS Name,            \* package names
          Digest,          \* contents a package can have
          None,            \* no such file or tree
          Foreign,         \* content written by somebody else meanwhile
          MaxTransactions, \* bound: transactions begun
          MaxFaults,       \* bound: calls that raise, and crashes
          MaxEdits         \* bound: outside edits

Partly == "partly"   \* a tree that a copy or a removal left incomplete

ASSUME PackageAssumption ==
  /\ None \notin Digest /\ Foreign \notin Digest /\ None # Foreign
  /\ Foreign # Partly
  /\ "receipt" \notin Name
  /\ {MaxTransactions, MaxFaults, MaxEdits} \subseteq Nat

VARIABLES tree,     \* root / name
          receipt,  \* plugins.lock.json: the transaction that wrote it
          journal,  \* plugins.transaction.json: "none", "open" or "committed"
          plan,     \* the object's attributes, which the journal repeats
          box,      \* the containers: incoming, package and discarded
          pc,       \* what the holder of the lock does; "idle" without one
          left,     \* the changes its loop has still to visit
          checked,  \* the package whose tree it has looked at and moves next
          count,    \* transactions begun
          faults,
          edited,   \* history: what was edited while a transaction was open
          raced     \* history: edited between the look at a tree and its move

vars == <<tree, receipt, journal, plan, box, pc, left, checked, count, faults, edited, raced>>

Tree == Digest \cup {None}
Empty == [incoming |-> None, package |-> None, discarded |-> None]
Inside == Digest \cup {None, Partly, Foreign}
Receipt == Nat \cup {None, Foreign}

Planned == DOMAIN plan.change
Before(p) == plan.change[p].before
After(p) == plan.change[p].after

(* The transaction object is created with an empty list of changes.         *)
NoPlan == [change |-> [p \in {} |-> Empty], before |-> None, after |-> None]

Init == /\ tree \in [Name -> Tree]
        /\ receipt \in {0, None}
        /\ journal = "none" /\ plan = NoPlan
        /\ box = [p \in Name |-> Empty]
        /\ pc = "idle" /\ left = {} /\ checked = {}
        /\ count = 0 /\ faults = 0 /\ edited = {} /\ raced = {}

Goto(place, visits) == pc' = place /\ left' = visits /\ checked' = {}
Fault == faults < MaxFaults /\ faults' = faults + 1
Done(p) == left' = left \ {p} /\ checked' = {}
Past == <<count, edited, raced>>
Files == <<tree, receipt, journal, plan, box, Past>>

-----------------------------------------------------------------------------
(* Mutants of StartRollback: the decision on disk is not consulted; only    *)
(* the old receipt is accepted.                                             *)
StartRollbackForgets == Goto("undo", Planned)
StartRollbackStrict ==
  Goto(IF journal = "committed" THEN "clean"
       ELSE IF receipt = plan.before THEN "undo" ELSE "idle",
       IF journal # "committed" /\ receipt # plan.before THEN {} ELSE Planned)

(* rollback: the decision on disk is authoritative, and a receipt that is   *)
(* neither the old nor the new one stops everything.                        *)
StartRollback ==
  \/ journal = "committed" /\ Goto("clean", Planned)
  \/ /\ journal # "committed" /\ receipt \in {plan.before, plan.after}
     /\ Goto("undo", Planned)
  \/ /\ journal # "committed" /\ receipt \notin {plan.before, plan.after}
     /\ Goto("idle", {})

(* Taking the lock recovers the journal it finds.                           *)
Recover == /\ pc = "idle" /\ journal # "none"
           /\ StartRollback
           /\ UNCHANGED <<Files, faults>>

(* begin: containers are reserved and the journal is saved. When the save   *)
(* raises, the containers are removed again, which an interrupt can cause   *)
(* after the journal was published. Without a journal nothing has happened. *)
Begin(names, after) ==
  /\ pc = "idle" /\ journal = "none" /\ count < MaxTransactions
  /\ names \cap edited = {} /\ "receipt" \notin edited
  /\ plan' = [change |-> [p \in names |-> [before |-> tree[p], after |-> after[p]]],
              before |-> receipt, after |-> count + 1]
  /\ count' = count + 1
  /\ journal' = "open"
  /\ \/ Goto("stage", {p \in names : after[p] # None}) /\ UNCHANGED faults
     \/ Goto("idle", {}) /\ Fault
  /\ UNCHANGED <<tree, receipt, box, edited, raced>>

-----------------------------------------------------------------------------
(* apply: every incoming tree is copied into its container, then the trees  *)
(* are swapped one after the other, then the receipt is written.            *)
Stage(p) == /\ pc = "stage" /\ p \in left
            /\ box' = [box EXCEPT ![p].incoming = After(p)]
            /\ Done(p)
            /\ UNCHANGED <<tree, receipt, journal, plan, pc, faults, Past>>

StagePart(p) == /\ pc = "stage" /\ p \in left /\ Fault
                /\ box' = [box EXCEPT ![p].incoming = Partly]
                /\ StartRollback
                /\ UNCHANGED <<tree, receipt, journal, plan, Past>>

Staged == /\ pc = "stage" /\ left = {}
          /\ Goto("swap", Planned)
          /\ UNCHANGED <<Files, faults>>

(* Mutant of Unchanged: that something stands there is enough.              *)
UnchangedAssumed(p) == tree[p] # None

(* The installed tree must still be the one that was recorded. It is read   *)
(* before it is moved: what stands there then is moved.                     *)
Unchanged(p) == tree[p] = Before(p)

LookAt(p) == /\ pc = "swap" /\ p \in left /\ checked = {}
             /\ Unchanged(p)
             /\ IF Before(p) = None /\ After(p) = None
                THEN Done(p)
                ELSE checked' = {p} /\ UNCHANGED left
             /\ UNCHANGED <<Files, pc, faults>>

\* The original has still to be moved into the container.
Outward(p) == Before(p) # None /\ box[p].package = None

MoveOut(p) == /\ pc = "swap" /\ checked = {p} /\ Outward(p)
              /\ tree[p] # None
              /\ tree' = [tree EXCEPT ![p] = None]
              /\ box' = [box EXCEPT ![p].package = tree[p]]
              /\ IF After(p) = None THEN Done(p) ELSE UNCHANGED <<left, checked>>
              /\ UNCHANGED <<receipt, journal, plan, pc, faults, Past>>

MoveIn(p) == /\ pc = "swap" /\ checked = {p} /\ ~Outward(p)
             /\ tree[p] = None
             /\ tree' = [tree EXCEPT ![p] = After(p)]
             /\ box' = [box EXCEPT ![p].incoming = None]
             /\ Done(p)
             /\ UNCHANGED <<receipt, journal, plan, pc, faults, Past>>

(* A tree changed under the transaction, what was to be moved is gone, or   *)
(* something stands where the new tree belongs.                             *)
SwapRefused(p) == /\ pc = "swap" /\ p \in left
                  /\ \/ checked = {} /\ ~Unchanged(p)
                     \/ checked = {p} /\ (Outward(p) <=> tree[p] = None)
                  /\ StartRollback
                  /\ UNCHANGED <<Files, faults>>

WriteReceipt == /\ pc = "swap" /\ left = {}
                /\ receipt' = plan.after
                /\ Goto("applied", {})
                /\ UNCHANGED <<tree, journal, plan, box, faults, Past>>

(* Whatever fails while the transaction applies or its result is validated  *)
(* makes the caller roll it back.                                           *)
ApplyFails == /\ pc \in {"stage", "swap", "applied"} /\ Fault
              /\ StartRollback
              /\ UNCHANGED Files

-----------------------------------------------------------------------------
(* Mutant of Commit: the originals are removed before the decision is saved. *)
CommitCleansFirst == /\ pc = "applied"
                     /\ Goto("clean", Planned)
                     /\ UNCHANGED <<Files, faults>>

(* commit: the journal is replaced by one that records the decision; then   *)
(* containers and journal are removed. The call can raise with the decision *)
(* published or not, and the caller rolls back or lets the lock go.         *)
Commit == /\ pc = "applied"
          /\ journal' = "committed"
          /\ Goto("clean", Planned)
          /\ UNCHANGED <<tree, receipt, plan, box, faults, Past>>

CommitRaises == /\ pc = "applied" /\ Fault
                /\ journal' \in {"open", "committed"}
                /\ Goto("idle", {})
                /\ UNCHANGED <<tree, receipt, plan, box, Past>>

-----------------------------------------------------------------------------
(* Mutant of Retirable: whatever stands there is put aside.                 *)
RetirableAny(p) == tree[p] # None

(* _restore: a package whose original is in the container gets it back, the *)
(* new one being put aside first; any other package must be as before,      *)
(* except that a newly installed one is put aside. Again the tree is read   *)
(* before it is moved.                                                      *)
Retirable(p) == /\ tree[p] # None /\ tree[p] = After(p)
                /\ box[p].incoming = None /\ box[p].discarded = None

Restorable(p) == box[p].package = Before(p) \/ (box[p].package = None /\ tree[p] = Before(p))

LookAtNew(p) == /\ pc = "undo" /\ p \in left /\ checked = {}
                /\ box[p].package = Before(p) /\ tree[p] # None
                /\ Retirable(p)
                /\ checked' = {p}
                /\ UNCHANGED <<Files, pc, left, faults>>

Retire(p) == /\ pc = "undo" /\ checked = {p}
             /\ tree[p] # None
             /\ tree' = [tree EXCEPT ![p] = None]
             /\ box' = [box EXCEPT ![p].discarded = tree[p]]
             /\ IF box[p].package = None THEN Done(p)
                ELSE checked' = {} /\ UNCHANGED left
             /\ UNCHANGED <<receipt, journal, plan, pc, faults, Past>>

PutBack(p) == /\ pc = "undo" /\ p \in left /\ checked = {}
              /\ box[p].package = Before(p) /\ Before(p) # None
              /\ tree[p] = None
              /\ tree' = [tree EXCEPT ![p] = box[p].package]
              /\ box' = [box EXCEPT ![p].package = None]
              /\ Done(p)
              /\ UNCHANGED <<receipt, journal, plan, pc, faults, Past>>

AsBefore(p) == /\ pc = "undo" /\ p \in left /\ checked = {}
               /\ box[p].package = None /\ tree[p] = Before(p)
               /\ Done(p)
               /\ UNCHANGED <<Files, pc, faults>>

(* Anything else was changed from outside, or what was to be put aside is   *)
(* gone: recovery stops and keeps what there is.                            *)
RestoreRefused(p) == /\ pc = "undo" /\ p \in left
                     /\ \/ checked = {} /\ ~Restorable(p)
                        \/ /\ checked = {} /\ box[p].package = Before(p)
                           /\ tree[p] # None /\ ~Retirable(p)
                        \/ checked = {p} /\ tree[p] = None
                     /\ Goto("idle", {})
                     /\ UNCHANGED <<Files, faults>>

RestoreReceipt == /\ pc = "undo" /\ left = {}
                  /\ receipt' = plan.before
                  /\ Goto("clean", Planned)
                  /\ UNCHANGED <<tree, journal, plan, box, faults, Past>>

-----------------------------------------------------------------------------
(* _cleanup: the containers, then the journal. A removal that fails or is   *)
(* cut short leaves part of a container.                                    *)
RemoveContainer(p) == /\ pc = "clean" /\ p \in left
                      /\ box' = [box EXCEPT ![p] = Empty]
                      /\ Done(p)
                      /\ UNCHANGED <<tree, receipt, journal, plan, pc, faults, Past>>

RemovePart(p) ==
  /\ pc = "clean" /\ p \in left /\ Fault
  /\ \E gone \in SUBSET DOMAIN Empty :
       box' = [box EXCEPT ![p] = [f \in DOMAIN Empty |->
                 IF box[p][f] = None \/ f \in gone THEN None ELSE Partly]]
  /\ Goto("idle", {})
  /\ UNCHANGED <<tree, receipt, journal, plan, Past>>

RemoveJournal == /\ pc = "clean" /\ left = {}
                 /\ journal' = "none"
                 /\ Goto("idle", {})
                 /\ UNCHANGED <<tree, receipt, plan, box, faults, Past>>

(* The process ends, or rollback or cleanup raises: the journal stays and   *)
(* the lock is free.                                                        *)
Stop == /\ pc # "idle" /\ Fault
        /\ Goto("idle", {})
        /\ UNCHANGED Files

-----------------------------------------------------------------------------
(* Somebody replaces or removes a tree of the open transaction, or, while   *)
(* nobody holds the lock, its receipt.                                      *)
Outside == <<receipt, journal, plan, box, pc, left, checked, count, faults>>

Edit(p) == /\ journal # "none" /\ Cardinality(edited) < MaxEdits
           /\ p \in Planned \ edited
           /\ tree' \in {[tree EXCEPT ![p] = Foreign], [tree EXCEPT ![p] = None]}
           /\ tree' # tree
           /\ edited' = edited \cup {p}
           /\ raced' = IF p \in checked /\ tree[p] # None THEN raced \cup {p} ELSE raced
           /\ UNCHANGED Outside

EditReceipt == /\ journal # "none" /\ pc = "idle"
               /\ Cardinality(edited) < MaxEdits /\ "receipt" \notin edited
               /\ receipt' = Foreign
               /\ edited' = edited \cup {"receipt"}
               /\ UNCHANGED <<tree, journal, plan, box, pc, left, checked, count, faults, raced>>

Visit(p) == \/ Stage(p) \/ StagePart(p)
            \/ LookAt(p) \/ MoveOut(p) \/ MoveIn(p) \/ SwapRefused(p)
            \/ LookAtNew(p) \/ Retire(p) \/ PutBack(p) \/ AsBefore(p) \/ RestoreRefused(p)
            \/ RemoveContainer(p) \/ RemovePart(p)
            \/ Edit(p)

Next == \/ Recover
        \/ \E names \in (SUBSET Name) \ {{}}, after \in [Name -> Tree] : Begin(names, after)
        \/ \E p \in Name : Visit(p)
        \/ Staged \/ WriteReceipt \/ ApplyFails \/ Commit \/ CommitRaises
        \/ RestoreReceipt \/ RemoveJournal \/ Stop \/ EditReceipt

Spec == Init /\ [][Next]_vars

(* Every start of the program and every refresh of its plugins take the     *)
(* lock, and whoever holds it carries on. Nothing is assumed of callers that *)
(* begin transactions, and calls may fail or the process end at any time.   *)
Progress == \/ Recover \/ Staged \/ WriteReceipt \/ Commit \/ RestoreReceipt \/ RemoveJournal
            \/ \E p \in Name : \/ Stage(p) \/ LookAt(p) \/ MoveOut(p) \/ MoveIn(p)
                               \/ SwapRefused(p) \/ LookAtNew(p) \/ Retire(p) \/ PutBack(p)
                               \/ AsBefore(p) \/ RestoreRefused(p) \/ RemoveContainer(p)

FairSpec == Spec /\ WF_vars(Progress)

-----------------------------------------------------------------------------
TypeOK ==
  /\ tree \in [Name -> Tree \cup {Foreign}]
  /\ receipt \in Receipt /\ plan.before \in Receipt /\ plan.after \in Receipt
  /\ journal \in {"none", "open", "committed"}
  /\ Planned \subseteq Name
  /\ \A p \in Planned : Before(p) \in Tree /\ After(p) \in Tree
  /\ box \in [Name -> [incoming : Inside, package : Inside, discarded : Inside]]
  /\ pc \in {"idle", "stage", "swap", "applied", "undo", "clean"}
  /\ left \subseteq Planned /\ checked \subseteq left
  /\ count \in Nat /\ faults \in Nat
  /\ edited \subseteq Name \cup {"receipt"} /\ raced \subseteq edited

(* Until the decision is published the original of every package that       *)
(* nobody edited exists in full, in its place or in the container that the  *)
(* journal names: at any moment a crash can be undone.                      *)
OriginalKept ==
  journal = "open" =>
    \A p \in Planned \ edited :
      IF box[p].package = None THEN tree[p] = Before(p) \/ Before(p) = None
                               ELSE box[p].package = Before(p)

(* Content that somebody else put in a package's place gets into a container *)
(* only when it was put there between the look at the tree and its move, and *)
(* as long as the transaction is undecided it is found again: content moved  *)
(* aside as an original stops every recovery.                                *)
ForeignInside ==
  \A p \in Name : \A f \in DOMAIN Empty : box[p][f] = Foreign =>
    /\ p \in raced
    /\ f = "package" /\ journal = "open" => pc # "clean"

(* At any moment the change can be undone, from containers that hold what   *)
(* the transaction put there and nothing else, but for such an edit.        *)
Undoable == TypeOK /\ OriginalKept /\ ForeignInside

(* Content that somebody else put in a package's place is never moved,      *)
(* overwritten or removed, neither by the transaction nor by a recovery,    *)
(* unless it was put there between the look and the move.                   *)
ForeignKept ==
  [][\A p \in Name \ raced : tree[p] = Foreign => tree'[p] = Foreign]_vars

(* A transaction that a crash or a failure interrupted is carried out or    *)
(* undone in the end, unless an outside edit stops its recovery.            *)
RecoveryEnds == journal # "none" ~> (journal = "none" \/ edited # {})

(* The refinement: what everybody may rely on changes when the decision is  *)
(* published, for all packages and the receipt together, and recovery, be   *)
(* it interrupted any number of times, restores or completes exactly that.  *)
Item == Name \cup {"receipt"}

Now == [x \in Item |-> IF x = "receipt" THEN receipt ELSE tree[x]]
Old == [x \in Item |-> IF x = "receipt" THEN plan.before
                       ELSE IF x \in Planned THEN Before(x) ELSE tree[x]]
New == [x \in Item |-> IF x = "receipt" THEN plan.after
                       ELSE IF x \in Planned THEN After(x) ELSE tree[x]]

Masked(f) == [x \in Item |-> IF x \in edited THEN Foreign ELSE f[x]]

Change == INSTANCE AtomicChange WITH
  Value <- Tree \cup Receipt,
  Disturbed <- Foreign,
  stage <- IF journal = "none" THEN "settled"
           ELSE IF journal = "open" THEN "open" ELSE "decided",
  content <- Masked(IF journal = "none" THEN Now ELSE Old),
  offer <- Masked(IF journal = "none" THEN Now ELSE New)

ImplementsChange == Change!Spec

(* The docstring of rollback, "Restore originals without deleting externally *)
(* modified public trees": what somebody put in a package's place is found   *)
(* there or in its container as long as the transaction has a journal.       *)
ForeignNeverDeleted ==
  [][\A p \in Name :
       (tree[p] = Foreign \/ \E f \in DOMAIN Empty : box[p][f] = Foreign)
         => (tree'[p] = Foreign \/ \E f \in DOMAIN Empty : box'[p][f] = Foreign)]_vars
=============================================================================
