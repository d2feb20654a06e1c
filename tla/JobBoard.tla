------------------------------- MODULE JobBoard -------------------------------
(* What background workers promise to whoever hands them jobs: those of one *)
(* worker begin in the order they were accepted, one at a time; each ends   *)
(* once; a job ends cancelled only when somebody asked for it or closed the *)
(* worker, and a job asked to stop before it began never begins.            *)
EXTENDS Naturals, Sequences

CONSTANTS Worker, Job  \* 0 is no job

VARIABLES waiting,   \* the jobs accepted and not begun, oldest first
          running,   \* the job begun and not ended; 0 without one
          ended,     \* <<job, how>> of every job that ended, in that order
          asked,     \* the waiting or running jobs somebody asked to stop
          closed

board == <<waiting, running, ended, asked, closed>>

Elements(q) == {q[i] : i \in 1..Len(q)}
Open(w) == Elements(waiting[w]) \cup ({running[w]} \ {0})
Past(w) == {ended[w][i][1] : i \in 1..Len(ended[w])}

Init == /\ waiting = [w \in Worker |-> <<>>]
        /\ running = [w \in Worker |-> 0]
        /\ ended = [w \in Worker |-> <<>>]
        /\ asked = [w \in Worker |-> {}]
        /\ closed = [w \in Worker |-> FALSE]

Accept(w, j) ==
  /\ ~closed[w] /\ j \notin Open(w) \cup Past(w)
  /\ waiting' = [waiting EXCEPT ![w] = Append(@, j)]
  /\ UNCHANGED <<running, ended, asked, closed>>

Begin(w) ==
  /\ running[w] = 0 /\ waiting[w] # <<>> /\ ~closed[w]
  /\ Head(waiting[w]) \notin asked[w]
  /\ running' = [running EXCEPT ![w] = Head(waiting[w])]
  /\ waiting' = [waiting EXCEPT ![w] = Tail(@)]
  /\ UNCHANGED <<ended, asked, closed>>

End(w, j, how) ==
  /\ how = "cancelled" => j \in asked[w] \/ closed[w]
  /\ ended' = [ended EXCEPT ![w] = Append(@, <<j, how>>)]
  /\ asked' = [asked EXCEPT ![w] = @ \ {j}]
  /\ UNCHANGED closed

Drop(w) ==
  /\ running[w] = 0 /\ waiting[w] # <<>>
  /\ \E how \in {"cancelled", "error"} : End(w, Head(waiting[w]), how)
  /\ waiting' = [waiting EXCEPT ![w] = Tail(@)]
  /\ UNCHANGED running

Finish(w) ==
  /\ running[w] # 0
  /\ \E how \in {"cancelled", "error", "completed"} : End(w, running[w], how)
  /\ running' = [running EXCEPT ![w] = 0]
  /\ UNCHANGED waiting

Ask(w, j) ==
  /\ j \in Open(w)
  /\ asked' = [asked EXCEPT ![w] = @ \cup {j}]
  /\ UNCHANGED <<waiting, running, ended, closed>>

Close(w) ==
  /\ closed' = [closed EXCEPT ![w] = TRUE]
  /\ UNCHANGED <<waiting, running, ended, asked>>

Next == \E w \in Worker :
          \/ \E j \in Job : Accept(w, j)
          \/ \E j \in Open(w) : Ask(w, j)
          \/ Begin(w) \/ Drop(w) \/ Finish(w) \/ Close(w)

Spec == Init /\ [][Next]_board
=============================================================================
