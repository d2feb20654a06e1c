---------------------- MODULE PackageTransactionProofs ----------------------
(* For every set of packages, contents and bounds: types, the original kept *)
(* until the decision, foreign content kept, and the refinement of          *)
(* AtomicChange.                                                            *)
EXTENDS PackageTransaction, TLAPS

(* The inductive invariant: where the tree of every package stands, by what *)
(* the journal says and how far the holder of the lock is.                  *)
Journaled == /\ journal = "none" => pc = "idle"
             /\ journal = "committed" => pc \in {"idle", "clean"}

Boxed ==
  /\ \A p \in Name : p \notin Planned \/ journal = "none" => box[p] = Empty
  /\ \A p \in Planned :
       /\ pc = "clean" /\ p \notin left => box[p] = Empty
       /\ journal = "open" =>
            /\ box[p].package \in {None, Before(p), Foreign}
            /\ pc = "clean" \/ (pc = "undo" /\ p \notin left) => box[p].package = None

Untouched(p) == tree[p] = Before(p) /\ box[p].package = None
Swapped(p) == tree[p] = After(p) /\ box[p].package = Before(p)
Between(p) == tree[p] = None /\ box[p].package = Before(p)

Place(p) ==
  /\ journal = "committed" => tree[p] = After(p)
  /\ journal = "open" =>
       /\ Untouched(p) \/ Swapped(p) \/ Between(p)
       /\ pc = "stage" => Untouched(p)
       /\ pc = "swap" => IF p \in left THEN Untouched(p) \/ Between(p) ELSE Swapped(p)
       /\ pc = "applied" => Swapped(p)
       /\ pc = "undo" /\ p \notin left => Untouched(p)
       /\ pc = "clean" => Untouched(p)

Placed == \A p \in Planned \ edited : Place(p)

ReceiptPlaced ==
  "receipt" \notin edited =>
    /\ journal = "open" => receipt \in {plan.before, plan.after}
    /\ journal = "open" /\ pc = "clean" => receipt = plan.before
    /\ pc = "applied" \/ journal = "committed" => receipt = plan.after

Unforeign == \A p \in Name \ edited : tree[p] # Foreign

(* What is known of a tree that has been looked at and not been moved yet:  *)
(* it is still the one that was seen, or it was edited since.               *)
Pending(p) == pc = "undo" \/ Outward(p)

Looked ==
  \A p \in checked :
    /\ journal = "open" /\ pc \in {"swap", "undo"}
    /\ pc = "undo" => box[p].package = Before(p)
    /\ pc = "swap" /\ Outward(p) => tree[p] \in {Before(p), None, Foreign}
    /\ Pending(p) /\ p \notin edited => tree[p] # None
    /\ Pending(p) /\ tree[p] = Foreign => p \in raced

RacedInside == \A p \in Name : \A f \in DOMAIN Empty : box[p][f] = Foreign => p \in raced

Inv == TypeOK /\ Journaled /\ Boxed /\ Placed /\ ReceiptPlaced /\ Unforeign
       /\ Looked /\ RacedInside

LEMMA InitInv == Init => Inv
  BY PackageAssumption DEF Init, Inv, TypeOK, Journaled, Boxed, Placed, ReceiptPlaced, Unforeign,
     Looked, RacedInside, NoPlan, Planned, Tree, Inside, Empty, Receipt

LEMMA NextInv == Inv /\ [Next]_vars => Inv'
<1> SUFFICES ASSUME Inv, [Next]_vars PROVE Inv'
  OBVIOUS
<1> USE PackageAssumption
<1>1. CASE Recover
  <2> USE <1>1 DEF Recover, Goto, Files, Past, StartRollback, Inv, TypeOK
  <2>1. TypeOK'
    BY DEF Planned, Before, After, Tree, Inside, Receipt, Empty, Journaled, Boxed
  <2>2. Boxed' /\ Journaled'
    BY DEF Boxed, Planned, Before, Empty, Journaled
  <2>3. Placed'
    BY DEF Placed, Place, Untouched, Swapped, Between, Planned, Before, After, Boxed, Journaled
  <2>4. ReceiptPlaced' /\ Unforeign'
    BY DEF Journaled, ReceiptPlaced, Unforeign, Planned, Before, After, Tree, Boxed, Inside
  <2>5. Looked'
    BY DEF Looked, Pending
  <2>6. RacedInside'
    BY DEF RacedInside
  <2> QED BY <2>1, <2>2, <2>3, <2>4, <2>5, <2>6
<1>2. CASE Staged
  <2> USE <1>2 DEF Staged, Goto, Files, Past, Inv, TypeOK
  <2>1. TypeOK'
    BY DEF Planned, Before, After, Tree, Inside, Receipt, Empty, Journaled, Boxed
  <2>2. Boxed' /\ Journaled'
    BY DEF Boxed, Planned, Before, Empty, Journaled
  <2>3. Placed'
    BY DEF Placed, Place, Untouched, Swapped, Between, Planned, Before, After, Boxed, Journaled
  <2>4. ReceiptPlaced' /\ Unforeign'
    BY DEF Journaled, ReceiptPlaced, Unforeign, Planned, Before, After, Tree, Boxed, Inside
  <2>5. Looked'
    BY DEF Looked, Pending
  <2>6. RacedInside'
    BY DEF RacedInside
  <2> QED BY <2>1, <2>2, <2>3, <2>4, <2>5, <2>6
<1>3. CASE WriteReceipt
  <2> USE <1>3 DEF WriteReceipt, Goto, Past, Inv, TypeOK
  <2>1. TypeOK'
    BY DEF Planned, Before, After, Tree, Inside, Receipt, Empty, Journaled, Boxed
  <2>2. Boxed' /\ Journaled'
    BY DEF Boxed, Planned, Before, Empty, Journaled
  <2>3. Placed'
    BY DEF Placed, Place, Untouched, Swapped, Between, Planned, Before, After, Boxed, Journaled
  <2>4. ReceiptPlaced' /\ Unforeign'
    BY DEF Journaled, ReceiptPlaced, Unforeign, Planned, Before, After, Tree, Boxed, Inside
  <2>5. Looked'
    BY DEF Looked, Pending
  <2>6. RacedInside'
    BY DEF RacedInside
  <2> QED BY <2>1, <2>2, <2>3, <2>4, <2>5, <2>6
<1>4. CASE ApplyFails
  <2> USE <1>4 DEF ApplyFails, Goto, Files, Past, Fault, StartRollback, Inv, TypeOK
  <2>1. TypeOK'
    BY DEF Planned, Before, After, Tree, Inside, Receipt, Empty, Journaled, Boxed
  <2>2. Boxed' /\ Journaled'
    BY DEF Boxed, Planned, Before, Empty, Journaled
  <2>3. Placed'
    BY DEF Placed, Place, Untouched, Swapped, Between, Planned, Before, After, Boxed, Journaled
  <2>4. ReceiptPlaced' /\ Unforeign'
    BY DEF Journaled, ReceiptPlaced, Unforeign, Planned, Before, After, Tree, Boxed, Inside
  <2>5. Looked'
    BY DEF Looked, Pending
  <2>6. RacedInside'
    BY DEF RacedInside
  <2> QED BY <2>1, <2>2, <2>3, <2>4, <2>5, <2>6
<1>5. CASE Commit
  <2> USE <1>5 DEF Commit, Goto, Past, Inv, TypeOK
  <2>1. TypeOK'
    BY DEF Planned, Before, After, Tree, Inside, Receipt, Empty, Journaled, Boxed
  <2>2. Boxed' /\ Journaled'
    BY DEF Boxed, Planned, Before, Empty, Journaled
  <2>3. Placed'
    BY DEF Placed, Place, Untouched, Swapped, Between, Planned, Before, After, Boxed, Journaled
  <2>4. ReceiptPlaced' /\ Unforeign'
    BY DEF Journaled, ReceiptPlaced, Unforeign, Planned, Before, After, Tree, Boxed, Inside
  <2>5. Looked'
    BY DEF Looked, Pending
  <2>6. RacedInside'
    BY DEF RacedInside
  <2> QED BY <2>1, <2>2, <2>3, <2>4, <2>5, <2>6
<1>6. CASE CommitRaises
  <2> USE <1>6 DEF CommitRaises, Goto, Past, Fault, Inv, TypeOK
  <2>1. TypeOK'
    BY DEF Planned, Before, After, Tree, Inside, Receipt, Empty, Journaled, Boxed
  <2>2. Boxed' /\ Journaled'
    BY DEF Boxed, Planned, Before, Empty, Journaled
  <2>3. Placed'
    BY DEF Placed, Place, Untouched, Swapped, Between, Planned, Before, After, Boxed, Journaled
  <2>4. ReceiptPlaced' /\ Unforeign'
    BY DEF Journaled, ReceiptPlaced, Unforeign, Planned, Before, After, Tree, Boxed, Inside
  <2>5. Looked'
    BY DEF Looked, Pending
  <2>6. RacedInside'
    BY DEF RacedInside
  <2> QED BY <2>1, <2>2, <2>3, <2>4, <2>5, <2>6
<1>7. CASE RestoreReceipt
  <2> USE <1>7 DEF RestoreReceipt, Goto, Past, Inv, TypeOK
  <2>1. TypeOK'
    BY DEF Planned, Before, After, Tree, Inside, Receipt, Empty, Journaled, Boxed
  <2>2. Boxed' /\ Journaled'
    BY DEF Boxed, Planned, Before, Empty, Journaled
  <2>3. Placed'
    BY DEF Placed, Place, Untouched, Swapped, Between, Planned, Before, After, Boxed, Journaled
  <2>4. ReceiptPlaced' /\ Unforeign'
    BY DEF Journaled, ReceiptPlaced, Unforeign, Planned, Before, After, Tree, Boxed, Inside
  <2>5. Looked'
    BY DEF Looked, Pending
  <2>6. RacedInside'
    BY DEF RacedInside
  <2> QED BY <2>1, <2>2, <2>3, <2>4, <2>5, <2>6
<1>8. CASE RemoveJournal
  <2> USE <1>8 DEF RemoveJournal, Goto, Past, Inv, TypeOK
  <2>1. TypeOK'
    BY DEF Planned, Before, After, Tree, Inside, Receipt, Empty, Journaled, Boxed
  <2>2. Boxed' /\ Journaled'
    BY DEF Boxed, Planned, Before, Empty, Journaled
  <2>3. Placed'
    BY DEF Placed, Place, Untouched, Swapped, Between, Planned, Before, After, Boxed, Journaled
  <2>4. ReceiptPlaced' /\ Unforeign'
    BY DEF Journaled, ReceiptPlaced, Unforeign, Planned, Before, After, Tree, Boxed, Inside
  <2>5. Looked'
    BY DEF Looked, Pending
  <2>6. RacedInside'
    BY DEF RacedInside
  <2> QED BY <2>1, <2>2, <2>3, <2>4, <2>5, <2>6
<1>9. CASE Stop
  <2> USE <1>9 DEF Stop, Goto, Files, Past, Fault, Inv, TypeOK
  <2>1. TypeOK'
    BY DEF Planned, Before, After, Tree, Inside, Receipt, Empty, Journaled, Boxed
  <2>2. Boxed' /\ Journaled'
    BY DEF Boxed, Planned, Before, Empty, Journaled
  <2>3. Placed'
    BY DEF Placed, Place, Untouched, Swapped, Between, Planned, Before, After, Boxed, Journaled
  <2>4. ReceiptPlaced' /\ Unforeign'
    BY DEF Journaled, ReceiptPlaced, Unforeign, Planned, Before, After, Tree, Boxed, Inside
  <2>5. Looked'
    BY DEF Looked, Pending
  <2>6. RacedInside'
    BY DEF RacedInside
  <2> QED BY <2>1, <2>2, <2>3, <2>4, <2>5, <2>6
<1>10. CASE EditReceipt
  <2> USE <1>10 DEF EditReceipt, Inv, TypeOK
  <2>1. TypeOK'
    BY DEF Planned, Before, After, Tree, Inside, Receipt, Empty, Journaled, Boxed
  <2>2. Boxed' /\ Journaled'
    BY DEF Boxed, Planned, Before, Empty, Journaled
  <2>3. Placed'
    BY DEF Placed, Place, Untouched, Swapped, Between, Planned, Before, After, Boxed, Journaled
  <2>4. ReceiptPlaced' /\ Unforeign'
    BY DEF Journaled, ReceiptPlaced, Unforeign, Planned, Before, After, Tree, Boxed, Inside
  <2>5. Looked'
    BY DEF Looked, Pending, Outward, Before
  <2>6. RacedInside'
    BY DEF RacedInside
  <2> QED BY <2>1, <2>2, <2>3, <2>4, <2>5, <2>6
<1>11. ASSUME NEW names \in (SUBSET Name) \ {{}}, NEW after \in [Name -> Tree],
              Begin(names, after)
       PROVE  Inv'
  <2> USE DEF Planned, Before, After
  <2>1. /\ Planned' = names
        /\ \A p \in names : Before(p)' = tree[p] /\ After(p)' = after[p]
        /\ plan'.before = receipt /\ plan'.after = count + 1 /\ journal' = "open"
        /\ UNCHANGED <<tree, receipt, box, edited, raced>>
    BY <1>11 DEF Begin
  <2>2. /\ pc' \in {"stage", "idle"} /\ left' \subseteq names
        /\ count' = count + 1 /\ faults' \in Nat /\ checked' = {}
    BY <1>11 DEF Begin, Goto, Fault, Inv, TypeOK
  <2>3. \A p \in names : p \notin edited /\ tree[p] \in Tree /\ after[p] \in Tree
    <3>1. \A p \in names : p \notin edited
      BY <1>11 DEF Begin
    <3>2. \A p \in Name : p \notin edited => tree[p] # Foreign
      BY DEF Inv, Unforeign
    <3> QED BY <3>1, <3>2 DEF Inv, TypeOK
  <2>4. \A p \in Name : box[p] = Empty
    BY <1>11 DEF Begin, Inv, Boxed
  <2>5. TypeOK'
    BY <2>1, <2>2, <2>3 DEF Inv, TypeOK, Receipt
  <2>6. Placed' /\ Boxed'
    BY <2>1, <2>2, <2>4 DEF Placed, Place, Untouched, Boxed, Empty
  <2>7. Looked' /\ RacedInside'
    BY <2>1, <2>2 DEF Looked, RacedInside, Inv
  <2> QED BY <2>1, <2>2, <2>5, <2>6, <2>7 DEF Inv, Journaled, ReceiptPlaced, Unforeign
<1>12. ASSUME NEW p \in Name, Stage(p) PROVE Inv'
  <2> USE <1>12 DEF Stage, Done, Past, Inv, TypeOK
  <2>1. TypeOK'
    BY DEF Planned, Before, After, Tree, Inside, Receipt, Empty, Journaled, Boxed
  <2>2. Boxed' /\ Journaled'
    BY DEF Boxed, Planned, Before, Empty, Journaled
  <2>3. Placed'
    BY DEF Placed, Place, Untouched, Swapped, Between, Planned, Before, After, Boxed, Journaled
  <2>4. ReceiptPlaced' /\ Unforeign'
    BY DEF Journaled, ReceiptPlaced, Unforeign, Planned, Before, After, Tree, Boxed, Inside
  <2>5. Looked'
    BY DEF Looked, Pending
  <2>6. RacedInside'
    BY DEF RacedInside, Planned, Before, After, Tree, Inside, Empty
  <2> QED BY <2>1, <2>2, <2>3, <2>4, <2>5, <2>6
<1>13. ASSUME NEW p \in Name, StagePart(p) PROVE Inv'
  <2> USE <1>13 DEF StagePart, Goto, Past, Fault, StartRollback, Inv, TypeOK
  <2>1. TypeOK'
    BY DEF Planned, Before, After, Tree, Inside, Receipt, Empty, Journaled, Boxed
  <2>2. Boxed' /\ Journaled'
    BY DEF Boxed, Planned, Before, Empty, Journaled
  <2>3. Placed'
    BY DEF Placed, Place, Untouched, Swapped, Between, Planned, Before, After, Boxed, Journaled
  <2>4. ReceiptPlaced' /\ Unforeign'
    BY DEF Journaled, ReceiptPlaced, Unforeign, Planned, Before, After, Tree, Boxed, Inside
  <2>5. Looked'
    BY DEF Looked, Pending
  <2>6. RacedInside'
    BY DEF RacedInside, Planned, Before, After, Tree, Inside, Empty
  <2> QED BY <2>1, <2>2, <2>3, <2>4, <2>5, <2>6
<1>14. ASSUME NEW p \in Name, LookAt(p) PROVE Inv'
  <2> USE <1>14 DEF LookAt, Unchanged, Done, Files, Past, Inv, TypeOK
  <2>1. TypeOK'
    BY DEF Planned, Before, After, Tree, Inside, Receipt, Empty, Journaled, Boxed
  <2>2. Boxed' /\ Journaled'
    BY DEF Boxed, Planned, Before, Empty, Journaled, Looked, After
  <2>3. Placed'
    BY DEF Placed, Place, Untouched, Swapped, Between, Planned, Before, After, Boxed, Journaled, Looked
  <2>4. ReceiptPlaced' /\ Unforeign'
    BY DEF Journaled, ReceiptPlaced, Unforeign, Planned, Before, After, Tree, Boxed, Inside
  <2>5. Looked'
    BY DEF Looked, Pending, Outward, Placed, Place, Untouched, Swapped, Between, Planned, Before, After, Tree, Journaled, Boxed
  <2>6. RacedInside'
    BY DEF RacedInside
  <2> QED BY <2>1, <2>2, <2>3, <2>4, <2>5, <2>6
<1>15. ASSUME NEW p \in Name, MoveOut(p) PROVE Inv'
  <2> USE <1>15 DEF MoveOut, Outward, Done, Past, Inv, TypeOK
  <2>1. TypeOK'
    BY DEF Planned, Before, After, Tree, Inside, Receipt, Empty, Journaled, Boxed
  <2>2. Boxed' /\ Journaled'
    BY DEF Boxed, Planned, Before, Empty, Journaled, Looked, After
  <2>3. Placed'
    BY DEF Placed, Place, Untouched, Swapped, Between, Planned, Before, After, Boxed, Journaled, Looked
  <2>4. ReceiptPlaced' /\ Unforeign'
    BY DEF Journaled, ReceiptPlaced, Unforeign, Planned, Before, After, Tree, Boxed, Inside
  <2>5. Looked'
    BY DEF Looked, Pending, Outward, Planned, Before, After
  <2>6. RacedInside'
    BY DEF RacedInside, Looked, Pending, Planned, Before, After, Tree, Inside, Empty
  <2> QED BY <2>1, <2>2, <2>3, <2>4, <2>5, <2>6
<1>16. ASSUME NEW p \in Name, MoveIn(p) PROVE Inv'
  <2> USE <1>16 DEF MoveIn, Outward, Done, Past, Inv, TypeOK
  <2>1. TypeOK'
    BY DEF Planned, Before, After, Tree, Inside, Receipt, Empty, Journaled, Boxed
  <2>2. Boxed' /\ Journaled'
    BY DEF Boxed, Planned, Before, Empty, Journaled, Looked, After
  <2>3. Placed'
    BY DEF Placed, Place, Untouched, Swapped, Between, Planned, Before, After, Boxed, Journaled, Looked
  <2>4. ReceiptPlaced' /\ Unforeign'
    BY DEF Journaled, ReceiptPlaced, Unforeign, Planned, Before, After, Tree, Boxed, Inside
  <2>5. Looked'
    BY DEF Looked, Pending, Outward
  <2>6. RacedInside'
    BY DEF RacedInside, Planned, Before, After, Tree, Inside, Empty
  <2> QED BY <2>1, <2>2, <2>3, <2>4, <2>5, <2>6
<1>17. ASSUME NEW p \in Name, SwapRefused(p) PROVE Inv'
  <2> USE <1>17 DEF SwapRefused, Unchanged, Goto, Files, Past, StartRollback, Inv, TypeOK
  <2>1. TypeOK'
    BY DEF Planned, Before, After, Tree, Inside, Receipt, Empty, Journaled, Boxed
  <2>2. Boxed' /\ Journaled'
    BY DEF Boxed, Planned, Before, Empty, Journaled, Looked, After
  <2>3. Placed'
    BY DEF Placed, Place, Untouched, Swapped, Between, Planned, Before, After, Boxed, Journaled, Looked
  <2>4. ReceiptPlaced' /\ Unforeign'
    BY DEF Journaled, ReceiptPlaced, Unforeign, Planned, Before, After, Tree, Boxed, Inside
  <2>5. Looked'
    BY DEF Looked, Pending
  <2>6. RacedInside'
    BY DEF RacedInside
  <2> QED BY <2>1, <2>2, <2>3, <2>4, <2>5, <2>6
<1>18. ASSUME NEW p \in Name, LookAtNew(p) PROVE Inv'
  <2> USE <1>18 DEF LookAtNew, Retirable, Files, Past, Inv, TypeOK
  <2>1. TypeOK'
    BY DEF Planned, Before, After, Tree, Inside, Receipt, Empty, Journaled, Boxed
  <2>2. Boxed' /\ Journaled'
    BY DEF Boxed, Planned, Before, Empty, Journaled, Looked, After
  <2>3. Placed'
    BY DEF Placed, Place, Untouched, Swapped, Between, Planned, Before, After, Boxed, Journaled, Looked
  <2>4. ReceiptPlaced' /\ Unforeign'
    BY DEF Journaled, ReceiptPlaced, Unforeign, Planned, Before, After, Tree, Boxed, Inside
  <2>5. Looked'
    BY DEF Looked, Pending, Placed, Place, Untouched, Swapped, Between, Planned, Before, After, Tree, Journaled, Boxed
  <2>6. RacedInside'
    BY DEF RacedInside
  <2> QED BY <2>1, <2>2, <2>3, <2>4, <2>5, <2>6
<1>19. ASSUME NEW p \in Name, Retire(p) PROVE Inv'
  <2> USE <1>19 DEF Retire, Done, Past, Inv, TypeOK
  <2>1. TypeOK'
    BY DEF Planned, Before, After, Tree, Inside, Receipt, Empty, Journaled, Boxed
  <2>2. Boxed' /\ Journaled'
    BY DEF Boxed, Planned, Before, Empty, Journaled, Looked, After
  <2>3. Placed'
    BY DEF Placed, Place, Untouched, Swapped, Between, Planned, Before, After, Boxed, Journaled, Looked
  <2>4. ReceiptPlaced' /\ Unforeign'
    BY DEF Journaled, ReceiptPlaced, Unforeign, Planned, Before, After, Tree, Boxed, Inside
  <2>5. Looked'
    BY DEF Looked, Pending
  <2>6. RacedInside'
    BY DEF RacedInside, Looked, Pending, Planned, Before, After, Tree, Inside, Empty
  <2> QED BY <2>1, <2>2, <2>3, <2>4, <2>5, <2>6
<1>20. ASSUME NEW p \in Name, PutBack(p) PROVE Inv'
  <2> USE <1>20 DEF PutBack, Done, Past, Inv, TypeOK
  <2>1. TypeOK'
    BY DEF Planned, Before, After, Tree, Inside, Receipt, Empty, Journaled, Boxed
  <2>2. Boxed' /\ Journaled'
    BY DEF Boxed, Planned, Before, Empty, Journaled
  <2>3. Placed'
    BY DEF Placed, Place, Untouched, Swapped, Between, Planned, Before, After, Boxed, Journaled
  <2>4. ReceiptPlaced' /\ Unforeign'
    BY DEF Journaled, ReceiptPlaced, Unforeign, Planned, Before, After, Tree, Boxed, Inside
  <2>5. Looked'
    BY DEF Looked, Pending
  <2>6. RacedInside'
    BY DEF RacedInside, Planned, Before, After, Tree, Inside, Empty
  <2> QED BY <2>1, <2>2, <2>3, <2>4, <2>5, <2>6
<1>21. ASSUME NEW p \in Name, AsBefore(p) PROVE Inv'
  <2> USE <1>21 DEF AsBefore, Done, Files, Past, Inv, TypeOK
  <2>1. TypeOK'
    BY DEF Planned, Before, After, Tree, Inside, Receipt, Empty, Journaled, Boxed
  <2>2. Boxed' /\ Journaled'
    BY DEF Boxed, Planned, Before, Empty, Journaled
  <2>3. Placed'
    BY DEF Placed, Place, Untouched, Swapped, Between, Planned, Before, After, Boxed, Journaled
  <2>4. ReceiptPlaced' /\ Unforeign'
    BY DEF Journaled, ReceiptPlaced, Unforeign, Planned, Before, After, Tree, Boxed, Inside
  <2>5. Looked'
    BY DEF Looked, Pending
  <2>6. RacedInside'
    BY DEF RacedInside
  <2> QED BY <2>1, <2>2, <2>3, <2>4, <2>5, <2>6
<1>22. ASSUME NEW p \in Name, RestoreRefused(p) PROVE Inv'
  <2> USE <1>22 DEF RestoreRefused, Goto, Files, Past, Inv, TypeOK
  <2>1. TypeOK'
    BY DEF Planned, Before, After, Tree, Inside, Receipt, Empty, Journaled, Boxed
  <2>2. Boxed' /\ Journaled'
    BY DEF Boxed, Planned, Before, Empty, Journaled, Looked, After
  <2>3. Placed'
    BY DEF Placed, Place, Untouched, Swapped, Between, Planned, Before, After, Boxed, Journaled, Looked
  <2>4. ReceiptPlaced' /\ Unforeign'
    BY DEF Journaled, ReceiptPlaced, Unforeign, Planned, Before, After, Tree, Boxed, Inside
  <2>5. Looked'
    BY DEF Looked, Pending
  <2>6. RacedInside'
    BY DEF RacedInside
  <2> QED BY <2>1, <2>2, <2>3, <2>4, <2>5, <2>6
<1>23. ASSUME NEW p \in Name, RemoveContainer(p) PROVE Inv'
  <2> USE <1>23 DEF RemoveContainer, Done, Past, Inv, TypeOK
  <2>1. TypeOK'
    BY DEF Planned, Before, After, Tree, Inside, Receipt, Empty, Journaled, Boxed
  <2>2. Boxed' /\ Journaled'
    BY DEF Boxed, Planned, Before, Empty, Journaled
  <2>3. Placed'
    BY DEF Placed, Place, Untouched, Swapped, Between, Planned, Before, After, Boxed, Journaled,
       Empty
  <2>4. ReceiptPlaced' /\ Unforeign'
    BY DEF Journaled, ReceiptPlaced, Unforeign, Planned, Before, After, Tree, Boxed, Inside
  <2>5. Looked'
    BY DEF Looked, Pending
  <2>6. RacedInside'
    BY DEF RacedInside, Planned, Before, After, Tree, Inside, Empty
  <2> QED BY <2>1, <2>2, <2>3, <2>4, <2>5, <2>6
<1>24. ASSUME NEW p \in Name, RemovePart(p) PROVE Inv'
  <2> USE <1>24 DEF RemovePart, Goto, Past, Fault, Inv, TypeOK
  <2>1. TypeOK'
    BY DEF Planned, Before, After, Tree, Inside, Receipt, Empty, Journaled, Boxed
  <2>2. Boxed' /\ Journaled'
    BY DEF Boxed, Planned, Before, Empty, Journaled
  <2>3. Placed'
    BY DEF Placed, Place, Untouched, Swapped, Between, Planned, Before, After, Boxed, Journaled,
       Empty
  <2>4. ReceiptPlaced' /\ Unforeign'
    BY DEF Journaled, ReceiptPlaced, Unforeign, Planned, Before, After, Tree, Boxed, Inside
  <2>5. Looked'
    BY DEF Looked, Pending
  <2>6. RacedInside'
    BY DEF RacedInside, Planned, Before, After, Tree, Inside, Empty
  <2> QED BY <2>1, <2>2, <2>3, <2>4, <2>5, <2>6
<1>25. ASSUME NEW p \in Name, Edit(p) PROVE Inv'
  <2> USE <1>25 DEF Edit, Outside, Inv, TypeOK
  <2>1. TypeOK'
    BY DEF Planned, Before, After, Tree, Inside, Receipt, Empty, Journaled, Boxed
  <2>2. Boxed' /\ Journaled'
    BY DEF Boxed, Planned, Before, Empty, Journaled, Looked, After
  <2>3. Placed'
    BY DEF Placed, Place, Untouched, Swapped, Between, Planned, Before, After, Boxed, Journaled, Looked
  <2>4. ReceiptPlaced' /\ Unforeign'
    BY DEF Journaled, ReceiptPlaced, Unforeign, Planned, Before, After, Tree, Boxed, Inside
  <2>5. Looked'
    BY DEF Looked, Pending, Outward, Placed, Place, Untouched, Swapped, Between, Planned, Before, After, Tree, Journaled, Boxed
  <2>6. RacedInside'
    BY DEF RacedInside, Planned, Before, After, Tree, Inside, Empty
  <2> QED BY <2>1, <2>2, <2>3, <2>4, <2>5, <2>6
<1>26. CASE UNCHANGED vars
  BY <1>26 DEF Inv, Unforeign, TypeOK, Journaled, Boxed, Placed, Place, ReceiptPlaced, Untouched, Swapped,
     Between, Looked, Pending, Outward, RacedInside, Planned, Before, After, vars
<1> QED BY <1>1, <1>2, <1>3, <1>4, <1>5, <1>6, <1>7, <1>8, <1>9, <1>10, <1>11, <1>12, <1>13, <1>14, <1>15, <1>16, <1>17, <1>18, <1>19, <1>20, <1>21, <1>22, <1>23, <1>24, <1>25, <1>26 DEF Next, Visit

LEMMA Invariant == Spec => []Inv
  BY InitInv, NextInv, PTL DEF Spec

(* Every variable has its type: in particular a container holds complete or  *)
(* partial trees, and one package at most is between its look and its move,  *)
(* among those that are left.                                               *)
THEOREM TypeCorrect == Spec => []TypeOK
<1>1. Inv => TypeOK
  BY DEF Inv
<1> QED BY <1>1, Invariant, PTL

(* For every number of packages, failures, crashes and edits, a transaction *)
(* that is not decided can still be undone.                                 *)
THEOREM OriginalsKept == Spec => []OriginalKept
<1>1. Inv => OriginalKept
  BY DEF Inv, OriginalKept, Boxed, Placed, Place, Untouched, Swapped, Between
<1> QED BY <1>1, Invariant, PTL

(* Foreign content is in a container only after an edit between a look and   *)
(* the move it allowed; as an original it stops every recovery.             *)
LEMMA ForeignIsInside == Inv => ForeignInside
  BY PackageAssumption DEF Inv, ForeignInside, RacedInside, Boxed, Empty

(* All together: an undecided transaction has all it needs to be undone.    *)
THEOREM StaysUndoable == Spec => []Undoable
<1>1. Inv /\ OriginalKept => Undoable
  BY ForeignIsInside DEF Undoable, Inv
<1> QED BY <1>1, Invariant, OriginalsKept, PTL

(* No step of a transaction or of a recovery touches foreign content, but    *)
(* for the move that an edit behind its look precedes.                      *)
THEOREM ForeignSafe == Spec => ForeignKept
<1> DEFINE Kept == \A p \in Name \ raced : tree[p] = Foreign => tree'[p] = Foreign
<1>1. Inv /\ [Next]_vars => Kept
  <2> SUFFICES ASSUME Inv, [Next]_vars PROVE Kept
    OBVIOUS
  <2> USE PackageAssumption DEF Inv, Unforeign, TypeOK, Tree, Looked, Pending
  <2>1. ASSUME NEW p \in Name, Visit(p) PROVE Kept
    BY <2>1 DEF Visit, Stage, StagePart, LookAt, MoveOut, MoveIn, SwapRefused,
       LookAtNew, Retire, PutBack, AsBefore, RestoreRefused, RemoveContainer, RemovePart,
       Edit, Unchanged, Retirable, Files
  <2>2. ASSUME NEW names \in (SUBSET Name) \ {{}}, NEW after \in [Name -> Tree],
               Begin(names, after)
        PROVE  Kept
    BY <2>2 DEF Begin
  <2>3. CASE \/ Recover \/ Staged \/ WriteReceipt \/ ApplyFails \/ Commit \/ CommitRaises
             \/ RestoreReceipt \/ RemoveJournal \/ Stop \/ EditReceipt
    BY <2>3 DEF Recover, Staged, WriteReceipt, ApplyFails, Commit, CommitRaises,
       RestoreReceipt, RemoveJournal, Stop, EditReceipt, Files
  <2>4. CASE UNCHANGED vars
    BY <2>4 DEF vars
  <2> QED BY <2>1, <2>2, <2>3, <2>4 DEF Next
<1>2. Inv /\ [Next]_vars => [Kept]_vars
  BY <1>1
<1> QED BY <1>2, Invariant, PTL DEF Spec, ForeignKept
-----------------------------------------------------------------------------
(* The refinement. Trees of planned packages and the receipt are hidden     *)
(* while a journal exists, so only four kinds of steps are visible.         *)
LEMMA InitChange == Init => Change!Init
  BY PackageAssumption DEF Init, Change!Init, Change!Contents, Masked, Now, Item, Tree, Receipt

LEMMA BeginOpens ==
  ASSUME Inv, NEW names \in (SUBSET Name) \ {{}}, NEW after \in [Name -> Tree], Begin(names, after)
  PROVE  Change!Open
  BY PackageAssumption DEF Inv, TypeOK, Begin, Change!Open, Change!Contents, Masked, Now, Old, New,
     Item, Planned, Before, After, Receipt

LEMMA JournalSettles == Inv /\ RemoveJournal => Change!Settle
<1> SUFFICES ASSUME Inv, RemoveJournal PROVE Change!Settle
  OBVIOUS
<1> DEFINE Target == IF journal = "open" THEN Old ELSE New
<1>1. /\ journal' = "none" /\ journal \in {"open", "committed"} /\ pc = "clean"
      /\ UNCHANGED <<tree, receipt, plan, edited>>
  BY DEF RemoveJournal, Goto, Past, Inv, TypeOK, Journaled
<1>2. \A x \in Item \ edited : Now[x] = Target[x]
  <2> SUFFICES ASSUME NEW x \in Item, x \notin edited PROVE Now[x] = Target[x]
    OBVIOUS
  <2>1. CASE x = "receipt"
    BY <1>1, <2>1 DEF Now, Old, New, Inv, ReceiptPlaced, Item
  <2>2. CASE x \in Planned
    BY <1>1, <2>2, PackageAssumption
       DEF Now, Old, New, Inv, TypeOK, Placed, Place, Untouched, Item
  <2>3. CASE x # "receipt" /\ x \notin Planned
    BY <2>3 DEF Now, Old, New
  <2> QED BY <2>1, <2>2, <2>3
<1>3. Masked(Now) = Masked(Target)
  BY <1>2 DEF Masked
<1>4. Masked(Now)' = Masked(Now)
  BY <1>1 DEF Masked, Now
<1> QED BY <1>1, <1>3, <1>4 DEF Change!Settle, Masked

LEMMA EditDisturbs ==
  ASSUME Inv, NEW p \in Name, Edit(p)
  PROVE  Change!Disturb(p)
<1>1. /\ journal # "none" /\ p \in Planned /\ edited' = edited \cup {p}
      /\ UNCHANGED <<journal, plan, receipt>>
      /\ \A q \in Name : q # p => tree'[q] = tree[q]
  BY DEF Edit, Outside, Inv, TypeOK
<1>2. Old' = Old /\ New' = New
  BY <1>1, PackageAssumption DEF Old, New, Item, Planned, Before, After
<1> QED BY <1>1, <1>2 DEF Change!Disturb, Masked, Item, Old, New

LEMMA ReceiptEditDisturbs == Inv /\ EditReceipt => Change!Disturb("receipt")
<1> SUFFICES ASSUME Inv, EditReceipt PROVE Change!Disturb("receipt")
  OBVIOUS
<1>1. /\ journal # "none" /\ edited' = edited \cup {"receipt"}
      /\ UNCHANGED <<journal, plan, tree>>
  BY DEF EditReceipt
<1>2. Old' = Old /\ New' = New
  BY <1>1 DEF Old, New, Planned, Before, After
<1> QED BY <1>1, <1>2 DEF Change!Disturb, Masked, Item, Old, New

LEMMA CommitDecides ==
  ASSUME Inv, journal = "open", journal' = "committed", UNCHANGED <<tree, receipt, plan, edited>>
  PROVE  Change!Decide
  BY DEF Change!Decide, Masked, Old, New, Planned, Before, After

(* Moves inside an open transaction: planned trees and the receipt only.    *)
LEMMA HiddenStep ==
  ASSUME Inv, UNCHANGED <<journal, plan, edited>>,
         \/ UNCHANGED <<tree, receipt>>
         \/ /\ journal # "none"
            /\ \A q \in Name \ Planned : tree'[q] = tree[q]
  PROVE  UNCHANGED Change!abstract
<1>1. Old' = Old /\ New' = New
  BY PackageAssumption DEF Old, New, Item, Planned, Before, After
<1>2. journal = "none" => Now' = Now
  BY DEF Now
<1> QED BY <1>1, <1>2 DEF Change!abstract, Masked

LEMMA StepChange == Inv /\ [Next]_vars => [Change!Next]_Change!abstract
<1> SUFFICES ASSUME Inv, [Next]_vars PROVE Change!Next \/ UNCHANGED Change!abstract
  OBVIOUS
<1>1. CASE Recover \/ Staged \/ WriteReceipt \/ ApplyFails \/ RestoreReceipt \/ Stop
  BY <1>1, HiddenStep DEF Recover, Staged, WriteReceipt, ApplyFails, RestoreReceipt, Stop,
     Files, Past, Inv, Journaled
<1>2. CASE Commit \/ CommitRaises
  <2>1. journal = "open" /\ journal' \in {"open", "committed"} /\ UNCHANGED <<tree, receipt, plan, edited>>
    BY <1>2 DEF Commit, CommitRaises, Past, Inv, Journaled, TypeOK
  <2> QED BY <2>1, CommitDecides, HiddenStep DEF Change!Next
<1>3. CASE RemoveJournal
  BY <1>3, JournalSettles DEF Change!Next
<1>4. CASE EditReceipt
  BY <1>4, ReceiptEditDisturbs DEF Change!Next, Item
<1>5. ASSUME NEW names \in (SUBSET Name) \ {{}}, NEW after \in [Name -> Tree], Begin(names, after)
      PROVE  Change!Next
  BY <1>5, BeginOpens DEF Change!Next
<1>6. ASSUME NEW p \in Name, Visit(p)
      PROVE  Change!Next \/ UNCHANGED Change!abstract
  <2>1. CASE Edit(p)
    BY <2>1, EditDisturbs DEF Change!Next, Item
  <2>2. CASE ~Edit(p)
    <3>1. /\ UNCHANGED <<journal, plan, edited>> /\ journal # "none"
          /\ \A q \in Name \ Planned : tree'[q] = tree[q]
      BY <1>6, <2>2 DEF Visit, Stage, StagePart, LookAt, MoveOut, MoveIn, SwapRefused,
         LookAtNew, Retire, PutBack, AsBefore, RestoreRefused, RemoveContainer, RemovePart, Files, Past,
         Looked, Inv, Journaled, TypeOK
    <3> QED BY <3>1, HiddenStep
  <2> QED BY <2>1, <2>2
<1>7. CASE UNCHANGED vars
  BY <1>7, HiddenStep DEF vars
<1> QED BY <1>1, <1>2, <1>3, <1>4, <1>5, <1>6, <1>7 DEF Next

(* Package transactions implement the abstract change: the packages and the *)
(* receipt move together, when the decision is published, and no sequence   *)
(* of crashes, failures and recoveries shows anything else.                 *)
THEOREM Implements == Spec => ImplementsChange
  BY InitChange, StepChange, Invariant, PTL DEF Spec, ImplementsChange, Change!Spec
=============================================================================
