-------------------------- MODULE DurableSelection --------------------------
(***************************************************************************)
(* What a session journal promises its session, without a file in sight:   *)
(* one selection at a time, replaced by the offered one or kept.           *)
(* `candidates` are the selections a reopening may find.  A store that     *)
(* could not settle an offer refuses every later one until it is reopened, *)
(* and only then may a candidate other than the reported one be selected.  *)
(***************************************************************************)
CONSTANTS Selections, Nothing

VARIABLES phase, selected, offered, candidates

vars == <<phase, selected, offered, candidates>>

Init ==
  /\ phase = "closed"
  /\ selected = Nothing
  /\ offered = Nothing
  /\ candidates = {Nothing}

\* Some uncertainty may be resolved by a sync, a truncation or a power loss.
Narrowed == candidates' \in (SUBSET candidates) \ {{}}

\* What is offered may have been added to the candidates, or be all of them.
Attempted == candidates' \in (SUBSET (candidates \cup {offered})) \ {{}}

\* A reopened store reports one of the candidates, without making it certain.
Reopen ==
  /\ phase = "closed"
  /\ phase' = "open"
  /\ Narrowed
  /\ selected' \in candidates'
  /\ UNCHANGED offered

Offer ==
  /\ phase = "open"
  /\ phase' = "offering"
  /\ offered' \in Selections
  /\ candidates' \in (SUBSET (candidates \cup {offered'})) \ {{}}
  /\ UNCHANGED selected

\* The store works on the offer: its outcome is open until it is reported.
Attempt ==
  /\ phase = "offering"
  /\ Attempted
  /\ UNCHANGED <<phase, selected, offered>>

\* An offer is accepted only once no reopening can find anything else.
Accept ==
  /\ phase = "offering"
  /\ candidates = {offered}
  /\ phase' = "open"
  /\ selected' = offered
  /\ offered' = Nothing
  /\ UNCHANGED candidates

\* An offer is rejected, and the store goes on, only when nothing is left of it.
Reject ==
  /\ phase = "offering"
  /\ candidates' = {selected}
  /\ phase' = "open"
  /\ offered' = Nothing
  /\ UNCHANGED selected

\* The outcome of an offer is unknown, or a write that offered nothing failed:
\* the store stops accepting offers.
Refuse ==
  /\ \/ phase = "offering" /\ Attempted
     \/ phase = "open" /\ Narrowed
  /\ phase' = "refusing"
  /\ offered' = Nothing
  /\ UNCHANGED selected

Settle == Narrowed /\ UNCHANGED <<phase, selected, offered>>

\* A refusing store may still take back what it attempted.
TakeBack ==
  /\ phase = "refusing"
  /\ candidates' \in (SUBSET (candidates \cup {selected})) \ {{}}
  /\ UNCHANGED <<phase, selected, offered>>

\* The process closes the store, is killed or loses power.
Stop ==
  /\ phase # "closed"
  /\ phase' = "closed"
  /\ selected' = Nothing
  /\ offered' = Nothing
  /\ Narrowed

Next == Reopen \/ Offer \/ Attempt \/ Accept \/ Reject \/ Refuse \/ Settle
        \/ TakeBack \/ Stop

Spec == Init /\ [][Next]_vars
=============================================================================
