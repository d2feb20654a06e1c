---------------------------- MODULE AtomicChange ----------------------------
(* What a journaled change of several items promises whoever opens it: the  *)
(* items move from the old content to the offered one together or not at    *)
(* all, and a decision, once made, stands. An edit from outside concerns    *)
(* the edited item only. PackageTransaction and WorkspaceTransaction        *)
(* implement it.                                                            *)
CONSTANTS Item, Value, Disturbed

VARIABLES stage,    \* "settled", "open" (not decided) or "decided"
          content,  \* what the items hold while no change is under way
          offer     \* what they hold once the change is carried out

abstract == <<stage, content, offer>>

Contents == [Item -> Value \cup {Disturbed}]

Init == /\ stage = "settled"
        /\ content \in Contents
        /\ offer = content

Open == /\ stage = "settled"
        /\ stage' = "open"
        /\ offer' \in Contents
        /\ UNCHANGED content

Decide == /\ stage = "open"
          /\ stage' = "decided"
          /\ UNCHANGED <<content, offer>>

Settle == /\ stage # "settled"
          /\ stage' = "settled"
          /\ content' = IF stage = "decided" THEN offer ELSE content
          /\ offer' = content'

Disturb(x) == /\ stage # "settled"
              /\ content' = [content EXCEPT ![x] = Disturbed]
              /\ offer' = [offer EXCEPT ![x] = Disturbed]
              /\ UNCHANGED stage

Next == Open \/ Decide \/ Settle \/ \E x \in Item : Disturb(x)

Spec == Init /\ [][Next]_abstract
=============================================================================
