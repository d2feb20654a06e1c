-------------------------- MODULE AgentWorkerProofs --------------------------
(* For every set of workers and every number of jobs, controls and          *)
(* approvals: what others see of a worker is what its thread does, every     *)
(* action that needs an approval has its own, answered once, and the jobs    *)
(* keep the promises of JobBoard. For any number of inputs besides: the      *)
(* screen of a chat and its answers to the supervisor are what its threads   *)
(* do, and every message that was typed is kept, in its order.               *)
EXTENDS AgentJobs, ChatView, FiniteSetTheorems, SequenceTheorems, TLAPS

Item == [kind : {"job", "control", "stop"}, id : Nat]

(* The controls that wait in a queue.                                       *)
Waiting(q) == {i \in 1..Len(q) : q[i].kind = "control"}

LEMMA CountAppend ==
  ASSUME NEW q \in Seq(Item), NEW x \in Item
  PROVE  /\ Cardinality(Waiting(q)) \in Nat
         /\ Cardinality(Waiting(Append(q, x)))
              = Cardinality(Waiting(q)) + (IF x.kind = "control" THEN 1 ELSE 0)
<1>1. IsFiniteSet(Waiting(q)) /\ Cardinality(Waiting(q)) \in Nat
  <2>1. IsFiniteSet(1..Len(q)) BY FS_Interval
  <2>2. IsFiniteSet(Waiting(q)) BY <2>1, FS_Subset DEF Waiting
  <2>3. QED BY <2>2, FS_CardinalityType
<1>2. CASE x.kind = "control"
  <2>1. Waiting(Append(q, x)) = Waiting(q) \cup {Len(q) + 1} BY <1>2 DEF Waiting
  <2>2. Len(q) + 1 \notin Waiting(q) BY DEF Waiting
  <2>3. QED BY <1>1, <1>2, <2>1, <2>2, FS_AddElement
<1>3. CASE x.kind # "control"
  <2>1. Waiting(Append(q, x)) = Waiting(q) BY <1>3 DEF Waiting
  <2>2. QED BY <1>1, <1>3, <2>1
<1>4. QED BY <1>1, <1>2, <1>3

LEMMA CountTail ==
  ASSUME NEW q \in Seq(Item), q # <<>>
  PROVE  /\ Cardinality(Waiting(Tail(q))) \in Nat
         /\ Cardinality(Waiting(q))
              = Cardinality(Waiting(Tail(q))) + (IF Head(q).kind = "control" THEN 1 ELSE 0)
<1> DEFINE later == {i \in Waiting(q) : i # 1}
           shift == [i \in Waiting(Tail(q)) |-> i + 1]
<1>1. IsFiniteSet(Waiting(Tail(q))) /\ Cardinality(Waiting(Tail(q))) \in Nat
  <2>1. Tail(q) \in Seq(Item) OBVIOUS
  <2>2. IsFiniteSet(1..Len(Tail(q))) BY <2>1, FS_Interval
  <2>3. IsFiniteSet(Waiting(Tail(q))) BY <2>2, FS_Subset DEF Waiting
  <2>4. QED BY <2>3, FS_CardinalityType
<1>2. shift \in Bijection(Waiting(Tail(q)), later)
  <2>1. Len(q) \in Nat /\ Len(q) # 0 /\ Len(Tail(q)) = Len(q) - 1
    OBVIOUS
  <2>2. \A i \in 1..Len(q) - 1 : Tail(q)[i] = q[i + 1]
    OBVIOUS
  <2>3. \A i \in Waiting(Tail(q)) : i \in Nat /\ i + 1 \in later
    BY <2>1, <2>2 DEF Waiting
  <2>4. \A k \in later : k - 1 \in Waiting(Tail(q)) /\ (k - 1) + 1 = k
    BY <2>1, <2>2 DEF Waiting
  <2>5. shift \in Injection(Waiting(Tail(q)), later)
    BY <2>3 DEF Injection, IsInjective
  <2>6. shift \in Surjection(Waiting(Tail(q)), later)
    <3>1. shift \in [Waiting(Tail(q)) -> later] BY <2>3
    <3>2. \A k \in later : \E i \in Waiting(Tail(q)) : shift[i] = k BY <2>4
    <3>3. QED BY <3>1, <3>2 DEF Surjection
  <2>7. QED BY <2>5, <2>6 DEF Bijection
<1>3. IsFiniteSet(later) /\ Cardinality(later) = Cardinality(Waiting(Tail(q)))
  <2> HIDE DEF later, shift
  <2>1. ExistsBijection(Waiting(Tail(q)), later) BY <1>2 DEF ExistsBijection
  <2>2. QED BY <1>1, <2>1, FS_Bijection
<1>4. CASE Head(q).kind = "control"
  <2>1. Waiting(q) = later \cup {1} /\ 1 \notin later BY <1>4 DEF Waiting
  <2>2. QED BY <1>1, <1>3, <1>4, <2>1, FS_AddElement
<1>5. CASE Head(q).kind # "control"
  <2>1. Waiting(q) = later BY <1>5 DEF Waiting
  <2> HIDE DEF later, shift
  <2>2. QED BY <1>1, <1>3, <1>5, <2>1
<1>6. QED BY <1>1, <1>4, <1>5

(* What waits was accepted and is nowhere else.                             *)
ItemsOf(w) ==
  /\ accepted[w] \subseteq 1..issued[w] /\ job[w] \in 0..issued[w]
  /\ \A i \in 1..Len(jobs[w]) :
       /\ jobs[w][i].kind # "job" => jobs[w][i].id = 0
       /\ jobs[w][i].kind = "job" =>
            /\ jobs[w][i].id \in accepted[w] \ {job[w]}
            /\ \A k \in 1..Len(jobs[w]) : jobs[w][k] = jobs[w][i] => k = i

(* What the thread has at each place.                                       *)
PlaceOf(w) ==
  /\ pc[w] \in {"unborn", "get", "control", "closing", "dead"} => job[w] = 0
  /\ Active(w) => job[w] \in accepted[w]
  /\ pc[w] = "took" => job[w] \in accepted[w] \cup {0}
  /\ Active(w) \/ pc[w] \in {"control", "observe"} => processing[w]
  /\ pc[w] \in {"refuse", "report"} => result[w] # "none"

(* A control counts until it was carried out.                               *)
ControlsOf(w) ==
  controls[w] = Cardinality(Waiting(jobs[w]))
                  + (IF pc[w] = "control" \/ (pc[w] = "took" /\ job[w] = 0) THEN 1 ELSE 0)

QueueInv == \A w \in Worker : ItemsOf(w) /\ PlaceOf(w) /\ ControlsOf(w)

(* An approval is up while its job asks, and the answers in the queue are to *)
(* it once at most.                                                         *)
Hits(w) == {i \in 1..Len(answers[w]) : answers[w][i][1] = pending[w]}

AnswersOf(w) ==
  /\ \A i \in 1..Len(answers[w]) : answers[w][i][1] <= approvals[w]
  /\ pc[w] = "asking" => approvals[w] # 0 /\ (pending[w] = approvals[w] \/ job[w] \in cancelled[w])
  /\ pending[w] # 0 => /\ pc[w] = "asking" /\ pending[w] = approvals[w]
                       /\ IF answered[w] THEN \E i \in Hits(w) : Hits(w) = {i} ELSE Hits(w) = {}

AnswerInv == \A w \in Worker : AnswersOf(w)

WorkerInv == TypeOK /\ QueueInv /\ AnswerInv

Results == {"none", "cancelled", "error", "completed"}
Events == Seq([kind : EventKinds, job : Nat, approval : Nat])

(* The places where a job is and no approval is up.                         *)
Working == {"begin", "refuse", "work", "asked", "acting", "finishing", "report", "clear"}

------------------------------------------------------------------------------
(* Steps of the thread                                                      *)

\* From one place of a job to the next, outside of approvals.
LEMMA MovesOn ==
  ASSUME WorkerInv, NEW w \in Worker, NEW place \in Working,
         pc[w] \in Working, Goto(w, place),
         result' \in [Worker -> Results], \A v \in Worker \ {w} : result'[v] = result[v],
         place \in {"refuse", "report"} => result'[w] # "none",
         events' \in [Worker -> Events],
         UNCHANGED <<queueVars, processing, job, approvalVars>>
  PROVE  WorkerInv'
<1>1. TypeOK'
  BY DEF WorkerInv, TypeOK, Goto, Working, Places, Results, Events, queueVars, approvalVars
<1>2. pc'[w] = place /\ \A v \in Worker \ {w} : pc'[v] = pc[v]
  BY DEF WorkerInv, TypeOK, Goto
<1>3. QueueInv'
  <2> SUFFICES ASSUME NEW v \in Worker PROVE (ItemsOf(v) /\ PlaceOf(v) /\ ControlsOf(v))'
    BY DEF QueueInv
  <2>1. ItemsOf(v)' BY DEF WorkerInv, QueueInv, ItemsOf, queueVars
  <2>2. PlaceOf(v)'
    BY <1>2 DEF WorkerInv, QueueInv, PlaceOf, Active, Working, queueVars
  <2>3. ControlsOf(v)'
    BY <1>2 DEF WorkerInv, QueueInv, ControlsOf, Working, queueVars
  <2>4. QED BY <2>1, <2>2, <2>3
<1>4. AnswerInv'
  <2> SUFFICES ASSUME NEW v \in Worker PROVE AnswersOf(v)'
    BY DEF AnswerInv
  <2>1. AnswersOf(v) /\ Hits(v)' = Hits(v) BY DEF WorkerInv, AnswerInv, Hits, approvalVars
  <2>2. (pc[v] = "asking") = (pc'[v] = "asking") BY <1>2 DEF Working
  <2>3. QED BY <2>1, <2>2 DEF AnswersOf, approvalVars, queueVars
<1>5. QED BY <1>1, <1>3, <1>4 DEF WorkerInv

\* Outside of approvals the thread touches none.
LEMMA NotAsking ==
  ASSUME WorkerInv, NEW w \in Worker, pc[w] # "asking", pc'[w] # "asking",
         \A v \in Worker \ {w} : pc'[v] = pc[v] /\ job'[v] = job[v] /\ cancelled'[v] = cancelled[v],
         UNCHANGED approvalVars
  PROVE  AnswerInv'
<1> SUFFICES ASSUME NEW v \in Worker PROVE AnswersOf(v)'
  BY DEF AnswerInv
<1>1. AnswersOf(v) /\ Hits(v)' = Hits(v) BY DEF WorkerInv, AnswerInv, Hits, approvalVars
<1>2. CASE v = w BY <1>1, <1>2 DEF AnswersOf, approvalVars
<1>3. CASE v # w BY <1>1, <1>3 DEF AnswersOf, approvalVars
<1>4. QED BY <1>2, <1>3

LEMMA GetKeeps ==
  ASSUME WorkerInv, NEW w \in Worker, Get(w)
  PROVE  WorkerInv'
<1> DEFINE head == Head(jobs[w])
<1>1. jobs[w] \in Seq(Item) /\ jobs[w] # <<>> /\ head \in Item /\ head = jobs[w][1]
  <2>1. jobs[w] \in Seq(Item) /\ jobs[w] # <<>> BY DEF WorkerInv, TypeOK, Get, Item
  <2>2. QED BY <2>1
<1>2. /\ jobs'[w] = Tail(jobs[w]) /\ jobs' \in [Worker -> Seq(Item)]
      /\ \A v \in Worker \ {w} : jobs'[v] = jobs[v] /\ job'[v] = job[v] /\ pc'[v] = pc[v]
      /\ pc' \in [Worker -> Places] /\ pc[w] = "get" /\ job' \in [Worker -> Nat]
  <2>1. jobs' = [jobs EXCEPT ![w] = Tail(@)] /\ jobs \in [Worker -> Seq(Item)] /\ Tail(jobs[w]) \in Seq(Item)
    BY <1>1 DEF WorkerInv, TypeOK, Get, Item
  <2>2. /\ pc \in [Worker -> Places] /\ pc[w] = "get" /\ job \in [Worker -> Nat] /\ head.id \in Nat
        /\ {"closing", "took"} \subseteq Places
    BY <1>1 DEF WorkerInv, TypeOK, Get, Item, Places
  <2>3. \/ pc' = [pc EXCEPT ![w] = "closing"] /\ job' = job
        \/ pc' = [pc EXCEPT ![w] = "took"] /\ job' = [job EXCEPT ![w] = head.id]
    BY DEF Get, Goto
  <2> HIDE DEF head
  <2>4. QED BY <2>1, <2>2, <2>3
<1>3. \/ head = StopItem /\ pc'[w] = "closing" /\ job'[w] = job[w]
      \/ head # StopItem /\ pc'[w] = "took" /\ job'[w] = head.id
  BY DEF WorkerInv, TypeOK, Get, Goto
<1>4. UNCHANGED <<accepted, cancelled, stopping, controls, issued, processing, result, approvalVars, events>>
  BY DEF Get
<1>5. job[w] = 0 /\ accepted[w] \subseteq 1..issued[w] /\ issued[w] \in Nat
  BY <1>2 DEF WorkerInv, QueueInv, ItemsOf, PlaceOf, TypeOK
<1> HIDE DEF head
<1>6. head.kind = "control" <=> head # StopItem /\ head.id = 0
  <2>1. head.kind # "job" => head.id = 0 BY <1>1 DEF WorkerInv, QueueInv, ItemsOf
  <2>2. head.kind = "job" => head.id # 0 BY <1>1, <1>5 DEF WorkerInv, QueueInv, ItemsOf
  <2>3. QED BY <1>1, <2>1, <2>2 DEF Item, StopItem
<1>7. TypeOK' BY <1>2, <1>4 DEF WorkerInv, TypeOK, approvalVars, Item
<1>8. QueueInv'
  <2> SUFFICES ASSUME NEW v \in Worker PROVE (ItemsOf(v) /\ PlaceOf(v) /\ ControlsOf(v))'
    BY DEF QueueInv
  <2>1. CASE v # w
    <3>1. jobs'[v] = jobs[v] /\ job'[v] = job[v] /\ pc'[v] = pc[v] BY <1>2, <2>1
    <3>2. ItemsOf(v) /\ PlaceOf(v) /\ ControlsOf(v) BY DEF WorkerInv, QueueInv
    <3>3. QED BY <1>4, <3>1, <3>2 DEF ItemsOf, PlaceOf, ControlsOf, Active
  <2>2. CASE v = w
    <3>1. ItemsOf(w)'
      <4>1. \A i \in 1..Len(jobs'[w]) : i + 1 \in 1..Len(jobs[w]) /\ jobs'[w][i] = jobs[w][i + 1]
        BY <1>1, <1>2
      <4>2. \A i \in 1..Len(jobs'[w]) : jobs'[w][i] # head \/ head.kind # "job"
        BY <1>1, <1>2, <4>1 DEF WorkerInv, QueueInv, ItemsOf
      <4>3. job'[w] \in 0..issued[w]
        BY <1>1, <1>3, <1>5 DEF WorkerInv, QueueInv, ItemsOf
      <4>4. \A i \in 1..Len(jobs'[w]) : jobs'[w][i].kind = "job" => jobs'[w][i].id # job'[w]
        <5> SUFFICES ASSUME NEW i \in 1..Len(jobs'[w]), jobs'[w][i].kind = "job" PROVE jobs'[w][i].id # job'[w]
          OBVIOUS
        <5>1. jobs'[w][i] \in Item /\ jobs'[w][i].id # 0
          <6>1. jobs[w][i + 1] \in Item /\ jobs[w][i + 1].kind = "job" BY <1>1, <4>1
          <6>2. jobs[w][i + 1].id \in accepted[w] BY <4>1, <6>1 DEF WorkerInv, QueueInv, ItemsOf
          <6>3. QED BY <1>5, <4>1, <6>1, <6>2
        <5>2. CASE head.kind = "job"
          BY <1>1, <1>3, <1>5, <4>2, <5>1, <5>2 DEF Item
        <5>3. CASE head.kind # "job"
          BY <1>1, <1>3, <1>5, <5>1, <5>3 DEF WorkerInv, QueueInv, ItemsOf
        <5>4. QED BY <5>2, <5>3
      <4>5. \A i \in 1..Len(jobs'[w]) :
              /\ jobs'[w][i].kind # "job" => jobs'[w][i].id = 0
              /\ jobs'[w][i].kind = "job" =>
                   /\ jobs'[w][i].id \in accepted[w]
                   /\ \A k \in 1..Len(jobs'[w]) : jobs'[w][k] = jobs'[w][i] => k = i
        <5>1. ItemsOf(w) BY DEF WorkerInv, QueueInv
        <5>2. Len(jobs'[w]) \in Nat BY <1>1, <1>2
        <5> SUFFICES ASSUME NEW i \in 1..Len(jobs'[w])
                     PROVE  /\ jobs'[w][i].kind # "job" => jobs'[w][i].id = 0
                            /\ jobs'[w][i].kind = "job" =>
                                 /\ jobs'[w][i].id \in accepted[w]
                                 /\ \A k \in 1..Len(jobs'[w]) : jobs'[w][k] = jobs'[w][i] => k = i
          OBVIOUS
        <5>3. \A k \in 1..Len(jobs'[w]) : jobs'[w][k] = jobs'[w][i] /\ jobs'[w][i].kind = "job" => k + 1 = i + 1
          BY <4>1, <5>1 DEF ItemsOf
        <5>4. \A k \in 1..Len(jobs'[w]) : jobs'[w][k] = jobs'[w][i] /\ jobs'[w][i].kind = "job" => k = i
          BY <5>2, <5>3
        <5>5. /\ jobs[w][i + 1].kind # "job" => jobs[w][i + 1].id = 0
              /\ jobs[w][i + 1].kind = "job" => jobs[w][i + 1].id \in accepted[w]
          BY <4>1, <5>1 DEF ItemsOf
        <5>6. QED BY <4>1, <5>4, <5>5
      <4>6. QED BY <1>4, <1>5, <4>3, <4>4, <4>5 DEF ItemsOf
    <3>2. PlaceOf(w)'
      <4>1. head.id \in accepted[w] \cup {0} BY <1>1 DEF WorkerInv, QueueInv, ItemsOf
      <4>2. QED BY <1>3, <1>4, <1>5, <4>1 DEF PlaceOf, Active
    <3>3. ControlsOf(w)'
      <4>1. controls[w] = Cardinality(Waiting(jobs[w]))
        <5>1. Cardinality(Waiting(jobs[w])) \in Nat BY <1>1, CountTail
        <5>2. ControlsOf(w) BY DEF WorkerInv, QueueInv
        <5>3. QED BY <1>2, <5>1, <5>2 DEF ControlsOf
      <4>2. /\ Cardinality(Waiting(jobs'[w])) \in Nat
            /\ controls[w] = Cardinality(Waiting(jobs'[w])) + (IF head.kind = "control" THEN 1 ELSE 0)
        BY <1>1, <1>2, <4>1, CountTail DEF head
      <4>3. (pc'[w] = "took" /\ job'[w] = 0) <=> head.kind = "control" BY <1>3, <1>6
      <4>4. pc'[w] # "control" BY <1>3
      <4>5. QED BY <1>4, <4>2, <4>3, <4>4 DEF ControlsOf
    <3>4. QED BY <2>2, <3>1, <3>2, <3>3
  <2>3. QED BY <2>1, <2>2
<1>9. AnswerInv' BY <1>2, <1>3, <1>4, NotAsking
<1>10. QED BY <1>7, <1>8, <1>9 DEF WorkerInv

LEMMA TakeKeeps ==
  ASSUME WorkerInv, NEW w \in Worker, Take(w)
  PROVE  WorkerInv'
<1>1. /\ \A v \in Worker \ {w} : pc'[v] = pc[v] /\ processing'[v] = processing[v] /\ result'[v] = result[v]
      /\ processing'[w] /\ pc[w] = "took"
      /\ UNCHANGED <<queueVars, job, approvalVars, events>>
      /\ UNCHANGED <<jobs, accepted, cancelled, stopping, controls, issued, approvals, pending, answered, answers>>
  BY DEF WorkerInv, TypeOK, Take, Goto, Unwind, queueVars, approvalVars
<1>2. \/ job[w] = 0 /\ pc'[w] = "control" /\ result'[w] = result[w]
      \/ job[w] # 0 /\ pc'[w] = "refuse" /\ result'[w] = "cancelled"
      \/ job[w] # 0 /\ pc'[w] = "begin" /\ result'[w] = result[w]
  BY DEF WorkerInv, TypeOK, Take, Goto, Unwind
<1>3. TypeOK'
  <2>1. processing' \in [Worker -> BOOLEAN] BY DEF WorkerInv, TypeOK, Take
  <2>2. \E place \in {"control", "refuse", "begin"} : pc' = [pc EXCEPT ![w] = place]
    BY DEF Take, Goto, Unwind
  <2>3. pc' \in [Worker -> Places] BY <2>2 DEF WorkerInv, TypeOK, Places
  <2>4. result' \in [Worker -> Results] BY DEF WorkerInv, TypeOK, Take, Unwind, Results
  <2>5. QED BY <1>1, <2>1, <2>3, <2>4 DEF WorkerInv, TypeOK, Results
<1>4. QueueInv'
  <2> SUFFICES ASSUME NEW v \in Worker PROVE (ItemsOf(v) /\ PlaceOf(v) /\ ControlsOf(v))'
    BY DEF QueueInv
  <2>1. CASE v # w
    <3>1. ItemsOf(v) /\ PlaceOf(v) /\ ControlsOf(v) BY DEF WorkerInv, QueueInv
    <3>2. QED BY <1>1, <2>1, <3>1 DEF ItemsOf, PlaceOf, ControlsOf, Active
  <2>2. CASE v = w
    <3>1. ItemsOf(w) /\ PlaceOf(w) /\ ControlsOf(w) BY DEF WorkerInv, QueueInv
    <3>2. ItemsOf(w)' BY <1>1, <3>1 DEF ItemsOf
    <3>3. PlaceOf(w)' BY <1>1, <1>2, <3>1 DEF PlaceOf, Active
    <3>4. ControlsOf(w)' BY <1>1, <1>2, <3>1 DEF ControlsOf
    <3>5. QED BY <2>2, <3>2, <3>3, <3>4
  <2>3. QED BY <2>1, <2>2
<1>5. AnswerInv' BY <1>1, <1>2, NotAsking
<1>6. QED BY <1>3, <1>4, <1>5 DEF WorkerInv

LEMMA ClearKeeps ==
  ASSUME WorkerInv, NEW w \in Worker, Clear(w)
  PROVE  WorkerInv'
<1>1. /\ \A v \in Worker \ {w} : /\ pc'[v] = pc[v] /\ result'[v] = result[v]
                                 /\ accepted'[v] = accepted[v] /\ cancelled'[v] = cancelled[v]
      /\ pc[w] = "clear" /\ pc'[w] = "observe" /\ accepted'[w] = accepted[w] \ {job[w]}
      /\ UNCHANGED <<jobs, stopping, controls, issued, processing, job, approvalVars, events>>
  BY DEF WorkerInv, TypeOK, Clear, Goto, Unwind
<1>2. TypeOK'
  <2>1. accepted' \in [Worker -> SUBSET Nat] /\ cancelled' \in [Worker -> SUBSET Nat]
        /\ \A v \in Worker : cancelled'[v] \subseteq accepted'[v]
    BY DEF WorkerInv, TypeOK, Clear
  <2>2. pc' \in [Worker -> Places] BY DEF WorkerInv, TypeOK, Clear, Goto, Unwind, Places
  <2>3. result' \in [Worker -> Results] BY DEF WorkerInv, TypeOK, Clear, Unwind, Results
  <2>4. QED BY <1>1, <2>1, <2>2, <2>3 DEF WorkerInv, TypeOK, Results, approvalVars
<1>3. QueueInv'
  <2> SUFFICES ASSUME NEW v \in Worker PROVE (ItemsOf(v) /\ PlaceOf(v) /\ ControlsOf(v))'
    BY DEF QueueInv
  <2>1. CASE v # w
    <3>1. ItemsOf(v) /\ PlaceOf(v) /\ ControlsOf(v) BY DEF WorkerInv, QueueInv
    <3>2. QED BY <1>1, <2>1, <3>1 DEF ItemsOf, PlaceOf, ControlsOf, Active
  <2>2. CASE v = w
    <3>1. ItemsOf(w) /\ PlaceOf(w) /\ ControlsOf(w) BY DEF WorkerInv, QueueInv
    <3>2. ItemsOf(w)' BY <1>1, <3>1 DEF ItemsOf
    <3>3. PlaceOf(w)' BY <1>1, <3>1 DEF PlaceOf, Active
    <3>4. ControlsOf(w)' BY <1>1, <3>1 DEF ControlsOf
    <3>5. QED BY <2>2, <3>2, <3>3, <3>4
  <2>3. QED BY <2>1, <2>2
<1>4. AnswerInv' BY <1>1, NotAsking
<1>5. QED BY <1>2, <1>3, <1>4 DEF WorkerInv

LEMMA ReleaseKeeps ==
  ASSUME WorkerInv, NEW w \in Worker, Release(w)
  PROVE  WorkerInv'
<1>1. /\ \A v \in Worker \ {w} : /\ pc'[v] = pc[v] /\ job'[v] = job[v]
                                 /\ processing'[v] = processing[v] /\ controls'[v] = controls[v]
      /\ pc[w] \in {"control", "observe"} /\ pc'[w] = "get" /\ job'[w] = 0
      /\ controls'[w] = IF pc[w] = "control" THEN controls[w] - 1 ELSE controls[w]
      /\ UNCHANGED <<jobs, accepted, cancelled, stopping, issued, result, approvalVars, events>>
  BY DEF WorkerInv, TypeOK, Release, Goto
<1>2. Cardinality(Waiting(jobs[w])) \in Nat
  <2>1. jobs[w] \in Seq(Item) /\ StopItem \in Item BY DEF WorkerInv, TypeOK, Item, StopItem
  <2>2. QED BY <2>1, CountAppend
<1>3. controls'[w] = Cardinality(Waiting(jobs[w]))
  BY <1>1, <1>2 DEF WorkerInv, QueueInv, ControlsOf
<1>4. TypeOK'
  <2>1. controls' \in [Worker -> Nat]
    BY <1>1, <1>2, <1>3 DEF WorkerInv, TypeOK, Release
  <2>2. processing' \in [Worker -> BOOLEAN] /\ job' \in [Worker -> Nat] /\ pc' \in [Worker -> Places]
    BY DEF WorkerInv, TypeOK, Release, Goto, Places
  <2>3. QED BY <1>1, <2>1, <2>2 DEF WorkerInv, TypeOK, approvalVars
<1>5. QueueInv'
  <2> SUFFICES ASSUME NEW v \in Worker PROVE (ItemsOf(v) /\ PlaceOf(v) /\ ControlsOf(v))'
    BY DEF QueueInv
  <2>1. CASE v # w
    <3>1. ItemsOf(v) /\ PlaceOf(v) /\ ControlsOf(v) BY DEF WorkerInv, QueueInv
    <3>2. QED BY <1>1, <2>1, <3>1 DEF ItemsOf, PlaceOf, ControlsOf, Active
  <2>2. CASE v = w
    <3>1. ItemsOf(w) /\ PlaceOf(w) BY DEF WorkerInv, QueueInv
    <3>2. ItemsOf(w)'
      <4>1. issued[w] \in Nat BY DEF WorkerInv, TypeOK
      <4>2. 0 \notin accepted[w] /\ 0 \in 0..issued[w] BY <3>1, <4>1 DEF ItemsOf
      <4>3. QED BY <1>1, <3>1, <4>2 DEF ItemsOf
    <3>3. PlaceOf(w)' BY <1>1, <3>1 DEF PlaceOf, Active
    <3>4. ControlsOf(w)' BY <1>1, <1>2, <1>3 DEF ControlsOf
    <3>5. QED BY <2>2, <3>2, <3>3, <3>4
  <2>3. QED BY <2>1, <2>2
<1>6. AnswerInv' BY <1>1, NotAsking
<1>7. QED BY <1>4, <1>5, <1>6 DEF WorkerInv

LEMMA CloseKeeps ==
  ASSUME WorkerInv, NEW w \in Worker, Close(w)
  PROVE  WorkerInv'
<1>1. /\ \A v \in Worker \ {w} : pc'[v] = pc[v]
      /\ pc[w] = "closing" /\ pc'[w] = "dead" /\ pc' \in [Worker -> Places]
      /\ UNCHANGED <<queueVars, processing, job, result, approvalVars, events>>
      /\ UNCHANGED <<jobs, accepted, cancelled, stopping, controls, issued, approvals, pending, answered, answers>>
  BY DEF WorkerInv, TypeOK, Close, Goto, Places, queueVars, approvalVars
<1>2. TypeOK' BY <1>1 DEF WorkerInv, TypeOK
<1>3. QueueInv'
  <2> SUFFICES ASSUME NEW v \in Worker PROVE (ItemsOf(v) /\ PlaceOf(v) /\ ControlsOf(v))'
    BY DEF QueueInv
  <2>1. CASE v # w
    <3>1. ItemsOf(v) /\ PlaceOf(v) /\ ControlsOf(v) BY DEF WorkerInv, QueueInv
    <3>2. QED BY <1>1, <2>1, <3>1 DEF ItemsOf, PlaceOf, ControlsOf, Active
  <2>2. CASE v = w
    <3>1. ItemsOf(w) /\ PlaceOf(w) /\ ControlsOf(w) BY DEF WorkerInv, QueueInv
    <3>2. QED BY <1>1, <2>2, <3>1 DEF ItemsOf, PlaceOf, ControlsOf, Active
  <2>3. QED BY <2>1, <2>2
<1>4. AnswerInv' BY <1>1, NotAsking
<1>5. QED BY <1>2, <1>3, <1>4 DEF WorkerInv

\* Between two places where its job is, asking or not.
LEMMA JobStays ==
  ASSUME WorkerInv, NEW w \in Worker, pc[w] \in Working \cup {"asking"}, pc'[w] \in Working \cup {"asking"},
         \A v \in Worker \ {w} : pc'[v] = pc[v] /\ result'[v] = result[v],
         pc'[w] \in {"refuse", "report"} => result'[w] # "none",
         UNCHANGED <<queueVars, processing, job>>
  PROVE  QueueInv'
<1>1. UNCHANGED <<jobs, accepted, controls, issued, processing, job>> BY DEF queueVars
<1> SUFFICES ASSUME NEW v \in Worker PROVE (ItemsOf(v) /\ PlaceOf(v) /\ ControlsOf(v))'
  BY DEF QueueInv
<1>2. ItemsOf(v) /\ PlaceOf(v) /\ ControlsOf(v) BY DEF WorkerInv, QueueInv
<1>3. CASE v # w BY <1>1, <1>2, <1>3 DEF ItemsOf, PlaceOf, ControlsOf, Active
<1>4. CASE v = w BY <1>1, <1>2, <1>4 DEF ItemsOf, PlaceOf, ControlsOf, Active, Working
<1>5. QED BY <1>3, <1>4

\* A queue per worker to which an item is added, or from which one is taken.
LEMMA QueuesTyped ==
  ASSUME NEW T, NEW q \in [Worker -> Seq(T)], NEW w \in Worker
  PROVE  /\ \A x \in T : [q EXCEPT ![w] = Append(@, x)] \in [Worker -> Seq(T)]
         /\ q[w] # <<>> => [q EXCEPT ![w] = Tail(@)] \in [Worker -> Seq(T)]
<1>1. q[w] \in Seq(T) OBVIOUS
<1>2. \A x \in T : Append(q[w], x) \in Seq(T) BY <1>1
<1>3. q[w] # <<>> => Tail(q[w]) \in Seq(T) BY <1>1
<1>4. QED BY <1>2, <1>3

LEMMA EventTyped ==
  ASSUME NEW kind \in EventKinds, NEW j \in Nat, NEW a \in Nat
  PROVE  Event(kind, j, a) \in [kind : EventKinds, job : Nat, approval : Nat]
  BY DEF Event

LEMMA PostKeeps ==
  ASSUME WorkerInv, NEW w \in Worker, Post(w)
  PROVE  WorkerInv'
<1>1. /\ \A v \in Worker \ {w} : /\ pc'[v] = pc[v] /\ approvals'[v] = approvals[v]
                                 /\ pending'[v] = pending[v] /\ answered'[v] = answered[v]
      /\ pc[w] = "asked" /\ pc'[w] = "asking" /\ approvals'[w] = approvals[w] + 1
      /\ pending'[w] = approvals[w] + 1 /\ ~answered'[w] /\ approvals[w] \in Nat
      /\ UNCHANGED <<jobs, accepted, cancelled, stopping, controls, issued, processing, job, result, answers>>
      /\ UNCHANGED <<queueVars, processing, job>>
  BY DEF WorkerInv, TypeOK, Post, Goto, queueVars
<1>2. TypeOK'
  <2>1. approvals' \in [Worker -> Nat] /\ pending' \in [Worker -> Nat] /\ answered' \in [Worker -> BOOLEAN]
    BY DEF WorkerInv, TypeOK, Post
  <2>2. pc' \in [Worker -> Places] BY DEF WorkerInv, TypeOK, Post, Goto, Places
  <2>3. Event("approval_required", job[w], approvals'[w]) \in [kind : EventKinds, job : Nat, approval : Nat]
    <3>1. job[w] \in Nat /\ approvals'[w] \in Nat BY <1>1 DEF WorkerInv, TypeOK
    <3>2. "approval_required" \in EventKinds BY DEF EventKinds
    <3>3. QED BY <3>1, <3>2, EventTyped, Zenon
  <2>4. events' \in [Worker -> Seq([kind : EventKinds, job : Nat, approval : Nat])]
    <3>1. events' = [events EXCEPT ![w] = Append(@, Event("approval_required", job[w], approvals'[w]))]
      BY DEF Post, Publish
    <3>2. events \in [Worker -> Seq([kind : EventKinds, job : Nat, approval : Nat])]
      BY DEF WorkerInv, TypeOK
    <3>3. QED BY <2>3, <3>1, <3>2, QueuesTyped, Zenon
  <2>5. QED BY <1>1, <2>1, <2>2, <2>4 DEF WorkerInv, TypeOK
<1>3. QueueInv' BY <1>1, JobStays DEF Working
<1>4. AnswerInv'
  <2> SUFFICES ASSUME NEW v \in Worker PROVE AnswersOf(v)'
    BY DEF AnswerInv
  <2>1. CASE v # w
    <3>1. AnswersOf(v) BY DEF WorkerInv, AnswerInv
    <3>2. QED BY <1>1, <2>1, <3>1 DEF AnswersOf, Hits
  <2>2. CASE v = w
    <3>1. answers[w] \in Seq(Nat \X BOOLEAN) BY DEF WorkerInv, TypeOK
    <3>2. \A i \in 1..Len(answers[w]) : answers[w][i][1] \in Nat /\ answers[w][i][1] <= approvals[w]
      BY <3>1 DEF WorkerInv, AnswerInv, AnswersOf
    <3>3. \A i \in 1..Len(answers[w]) : answers[w][i][1] <= approvals'[w] /\ answers[w][i][1] # pending'[w]
      BY <1>1, <3>2
    <3>4. Hits(w)' = {} BY <1>1, <3>3 DEF Hits
    <3>5. QED BY <1>1, <2>2, <3>3, <3>4 DEF AnswersOf
  <2>3. QED BY <2>1, <2>2
<1>5. QED BY <1>2, <1>3, <1>4 DEF WorkerInv

LEMMA StopAskingKeeps ==
  ASSUME WorkerInv, NEW w \in Worker, StopAsking(w)
  PROVE  WorkerInv'
<1>1. /\ \A v \in Worker \ {w} : /\ pc'[v] = pc[v] /\ result'[v] = result[v]
                                 /\ pending'[v] = pending[v] /\ answered'[v] = answered[v]
      /\ pc[w] = "asking" /\ pc'[w] = "report" /\ result'[w] = "cancelled"
      /\ pending'[w] = (IF pending[w] = approvals[w] THEN 0 ELSE pending[w])
      /\ UNCHANGED <<jobs, accepted, cancelled, stopping, controls, issued, processing, job, approvals, answers, events>>
      /\ UNCHANGED <<queueVars, processing, job>>
  BY DEF WorkerInv, TypeOK, StopAsking, Goto, Unwind, ClearsApproval, queueVars
<1>2. TypeOK'
  <2>1. pending' \in [Worker -> Nat] /\ answered' \in [Worker -> BOOLEAN]
    BY DEF WorkerInv, TypeOK, StopAsking, ClearsApproval
  <2>2. pc' \in [Worker -> Places] BY DEF WorkerInv, TypeOK, StopAsking, Goto, Unwind, Places
  <2>3. result' \in [Worker -> Results] BY DEF WorkerInv, TypeOK, StopAsking, Unwind, Results
  <2>4. QED BY <1>1, <2>1, <2>2, <2>3 DEF WorkerInv, TypeOK, Results
<1>3. QueueInv' BY <1>1, JobStays DEF Working
<1>4. AnswerInv'
  <2> SUFFICES ASSUME NEW v \in Worker PROVE AnswersOf(v)'
    BY DEF AnswerInv
  <2>1. CASE v # w
    <3>1. AnswersOf(v) BY DEF WorkerInv, AnswerInv
    <3>2. QED BY <1>1, <2>1, <3>1 DEF AnswersOf, Hits
  <2>2. CASE v = w
    <3>1. AnswersOf(w) BY DEF WorkerInv, AnswerInv
    <3>2. pending'[w] = 0 BY <1>1, <3>1 DEF AnswersOf
    <3>3. QED BY <1>1, <2>2, <3>1, <3>2 DEF AnswersOf
  <2>3. QED BY <2>1, <2>2
<1>5. QED BY <1>2, <1>3, <1>4 DEF WorkerInv

\* The answer that is taken for the approval was given to it.
LEMMA GrantIsGiven ==
  ASSUME WorkerInv, NEW w \in Worker, TakeAnswer(w), Answered(w)
  PROVE  pending[w] = approvals[w] /\ answered[w]
<1>1. AnswersOf(w) BY DEF WorkerInv, AnswerInv
<1>2. answers[w] \in Seq(Nat \X BOOLEAN) /\ answers[w] # <<>> /\ pc[w] = "asking" /\ job[w] \notin cancelled[w]
  BY DEF WorkerInv, TypeOK, TakeAnswer, Stopped
<1>3. 1 \in 1..Len(answers[w]) /\ answers[w][1][1] = approvals[w]
  BY <1>2 DEF Answered
<1>4. pending[w] = approvals[w] /\ approvals[w] # 0 BY <1>1, <1>2 DEF AnswersOf
<1>5. 1 \in Hits(w) BY <1>3, <1>4 DEF Hits
<1>6. QED BY <1>1, <1>4, <1>5 DEF AnswersOf

LEMMA TakeAnswerKeeps ==
  ASSUME WorkerInv, NEW w \in Worker, TakeAnswer(w)
  PROVE  WorkerInv'
<1>1. /\ \A v \in Worker \ {w} : /\ pc'[v] = pc[v] /\ answers'[v] = answers[v]
                                 /\ pending'[v] = pending[v] /\ answered'[v] = answered[v]
      /\ pc[w] = "asking" /\ pc' \in [Worker -> Places]
      /\ answers'[w] = Tail(answers[w]) /\ answers[w] # <<>> /\ answers[w] \in Seq(Nat \X BOOLEAN)
      /\ UNCHANGED <<jobs, accepted, cancelled, stopping, controls, issued, processing, job, result, approvals, events>>
      /\ UNCHANGED <<queueVars, processing, job>>
  <2>1. /\ \A v \in Worker \ {w} : answers'[v] = answers[v]
        /\ pc[w] = "asking" /\ answers'[w] = Tail(answers[w]) /\ answers[w] # <<>>
        /\ answers[w] \in Seq(Nat \X BOOLEAN)
    BY DEF WorkerInv, TypeOK, TakeAnswer
  <2>2. /\ \A v \in Worker \ {w} : pc'[v] = pc[v] /\ pending'[v] = pending[v] /\ answered'[v] = answered[v]
        /\ pc' \in [Worker -> Places]
    <3>1. CASE Answered(w) BY <3>1 DEF WorkerInv, TypeOK, TakeAnswer, Goto, ClearsApproval, Places
    <3>2. CASE ~Answered(w) BY <3>2 DEF WorkerInv, TypeOK, TakeAnswer
    <3>3. QED BY <3>1, <3>2
  <2>3. QED BY <2>1, <2>2 DEF TakeAnswer, queueVars
<1>2. \/ Answered(w) /\ pc'[w] = "acting" /\ pending'[w] = (IF pending[w] = approvals[w] THEN 0 ELSE pending[w])
      \/ ~Answered(w) /\ UNCHANGED <<pc, pending, answered>>
  BY DEF WorkerInv, TypeOK, TakeAnswer, Goto, ClearsApproval
<1>3. TypeOK'
  <2>1. pending' \in [Worker -> Nat] /\ answered' \in [Worker -> BOOLEAN]
    <3>1. CASE Answered(w)
      <4>1. pending' = [pending EXCEPT ![w] = IF @ = approvals[w] THEN 0 ELSE @]
        BY <3>1 DEF TakeAnswer, ClearsApproval
      <4>2. pending' \in [Worker -> Nat] BY <4>1 DEF WorkerInv, TypeOK
      <4>3. answered' \in [Worker -> BOOLEAN] BY <3>1 DEF WorkerInv, TypeOK, TakeAnswer, ClearsApproval
      <4>4. QED BY <4>2, <4>3
    <3>2. CASE ~Answered(w) BY <3>2 DEF WorkerInv, TypeOK, TakeAnswer
    <3>3. QED BY <3>1, <3>2
  <2>2. answers' \in [Worker -> Seq(Nat \X BOOLEAN)]
    BY <1>1 DEF WorkerInv, TypeOK, TakeAnswer
  <2>3. QED BY <1>1, <2>1, <2>2 DEF WorkerInv, TypeOK
<1>4. QueueInv' BY <1>1, <1>2, JobStays DEF Working
<1>5. AnswerInv'
  <2> SUFFICES ASSUME NEW v \in Worker PROVE AnswersOf(v)'
    BY DEF AnswerInv
  <2>1. CASE v # w
    <3>1. AnswersOf(v) BY DEF WorkerInv, AnswerInv
    <3>2. Hits(v)' = Hits(v) BY <1>1, <2>1 DEF Hits
    <3>3. QED BY <1>1, <2>1, <3>1, <3>2 DEF AnswersOf
  <2>2. CASE v = w
    <3>1. AnswersOf(w) BY DEF WorkerInv, AnswerInv
    <3>2. \A i \in 1..Len(answers'[w]) : i + 1 \in 1..Len(answers[w]) /\ answers'[w][i] = answers[w][i + 1]
      BY <1>1
    <3>3. \A i \in 1..Len(answers'[w]) : answers'[w][i][1] <= approvals'[w]
      BY <1>1, <3>1, <3>2 DEF AnswersOf
    <3>4. CASE Answered(w)
      <4>1. pending[w] = approvals[w] BY <3>4, GrantIsGiven
      <4>2. QED BY <1>1, <1>2, <2>2, <3>3, <3>4, <4>1 DEF AnswersOf
    <3>5. CASE ~Answered(w) /\ pending[w] # 0
      <4>1. pending[w] = approvals[w] BY <3>1, <3>5 DEF AnswersOf
      <4>2. 1 \notin Hits(w) BY <1>1, <3>5, <4>1 DEF Answered, Hits
      <4>3. ASSUME Hits(w) = {} PROVE Hits(w)' = {}
        <5>1. \A k \in Hits(w)' : k + 1 \in Hits(w) BY <1>1, <1>2, <3>2, <3>5 DEF Hits
        <5>2. QED BY <4>3, <5>1
      <4>4. ASSUME NEW i \in Hits(w), Hits(w) = {i} PROVE i - 1 \in Hits(w)' /\ Hits(w)' = {i - 1}
        <5>1. i \in 2..Len(answers[w]) BY <4>2 DEF Hits
        <5>2. i - 1 \in 1..Len(answers'[w]) /\ (i - 1) + 1 = i BY <1>1, <5>1
        <5>3. i - 1 \in Hits(w)' BY <1>2, <3>2, <3>5, <5>2 DEF Hits
        <5>4. \A k \in Hits(w)' : k \in 1..Len(answers'[w]) /\ k + 1 \in Hits(w)
          BY <1>1, <1>2, <3>2, <3>5 DEF Hits
        <5>5. \A k \in Hits(w)' : k = i - 1 BY <4>4, <5>1, <5>4
        <5>6. QED BY <5>3, <5>5
      <4>5. IF answered'[w] THEN \E i \in Hits(w)' : Hits(w)' = {i} ELSE Hits(w)' = {}
        <5>1. answered'[w] = answered[w] BY <1>2, <3>5
        <5>2. CASE answered[w]
          <6>1. PICK i \in Hits(w) : Hits(w) = {i} BY <3>1, <3>5, <5>2 DEF AnswersOf
          <6>2. QED BY <4>4, <5>1, <5>2, <6>1
        <5>3. CASE ~answered[w]
          <6>1. Hits(w) = {} BY <3>1, <3>5, <5>3 DEF AnswersOf
          <6>2. QED BY <4>3, <5>1, <5>3, <6>1
        <5>4. QED BY <5>2, <5>3
      <4>6. QED BY <1>1, <1>2, <2>2, <3>1, <3>3, <3>5, <4>5 DEF AnswersOf
    <3>6. CASE ~Answered(w) /\ pending[w] = 0
      BY <1>1, <1>2, <2>2, <3>1, <3>3, <3>6 DEF AnswersOf
    <3>7. QED BY <3>4, <3>5, <3>6
  <2>3. QED BY <2>1, <2>2
<1>6. QED BY <1>3, <1>4, <1>5 DEF WorkerInv

LEMMA ThreadKeeps ==
  ASSUME WorkerInv, NEW w \in Worker, Thread(w)
  PROVE  WorkerInv'
<1> USE DEF WorkerInv
<1>1. /\ events \in [Worker -> Events] /\ result \in [Worker -> Results] /\ job[w] \in Nat
      /\ pc[w] \in {"refuse", "report"} => result[w] \in EventKinds /\ result[w] # "none"
  <2>1. events \in [Worker -> Events] /\ result \in [Worker -> Results] /\ job[w] \in Nat
    BY DEF TypeOK, Events, Results
  <2>2. pc[w] \in {"refuse", "report"} => result[w] # "none" BY DEF QueueInv, PlaceOf
  <2>3. QED BY <2>1, <2>2 DEF Results, EventKinds
<1>2. ASSUME NEW place \in Working, NEW how \in Results \ {"none"}, pc[w] \in Working, Unwind(w, place, how),
             UNCHANGED events, Keeps
      PROVE  WorkerInv'
  <2>1. Goto(w, place) /\ UNCHANGED <<queueVars, processing, job, approvalVars>> BY <1>2 DEF Unwind, Keeps
  <2>2. result' = [result EXCEPT ![w] = how] BY <1>2 DEF Unwind
  <2>3. result' \in [Worker -> Results] /\ result'[w] # "none" /\ \A v \in Worker \ {w} : result'[v] = result[v]
    BY <1>1, <2>2
  <2>4. events' \in [Worker -> Events] BY <1>1, <1>2
  <2>5. QED BY <1>2, <2>1, <2>3, <2>4, MovesOn DEF WorkerInv
<1>3. ASSUME NEW place \in Working, pc[w] \in Working, Goto(w, place), UNCHANGED result,
             place \in {"refuse", "report"} => pc[w] \in {"refuse", "report"},
             events' \in [Worker -> Events],
             UNCHANGED <<queueVars, processing, job, approvalVars>>
      PROVE  WorkerInv'
  <2>1. result' \in [Worker -> Results] /\ \A v \in Worker \ {w} : result'[v] = result[v] BY <1>1, <1>3
  <2>2. place \in {"refuse", "report"} => result'[w] # "none" BY <1>1, <1>3
  <2>3. QED BY <1>3, <2>1, <2>2, MovesOn DEF WorkerInv
<1>4. ASSUME NEW kind \in EventKinds, Publish(w, kind, 0) PROVE events' \in [Worker -> Events]
  <2>1. Event(kind, job[w], 0) \in [kind : EventKinds, job : Nat, approval : Nat]
    <3>1. 0 \in Nat OBVIOUS
    <3>2. QED BY <1>1, <3>1, EventTyped, Zenon
  <2>2. events' = [events EXCEPT ![w] = Append(@, Event(kind, job[w], 0))] BY <1>4 DEF Publish
  <2>3. QED BY <1>1, <2>1, <2>2, QueuesTyped, Zenon DEF Events
<1>5. Get(w) => WorkerInv' BY GetKeeps
<1>6. Take(w) => WorkerInv' BY TakeKeeps
<1>7. ASSUME Begin(w) PROVE WorkerInv'
  <2>1. CASE Unwind(w, "refuse", "cancelled") \/ Unwind(w, "refuse", "error")
    BY <1>2, <1>7, <2>1 DEF Begin, Working, Results
  <2>2. CASE Goto(w, "work") /\ UNCHANGED result
    BY <1>1, <1>3, <1>7, <2>2 DEF Begin, Keeps, Working
  <2>3. QED BY <1>7, <2>1, <2>2 DEF Begin
<1>8. SeesStop(w) => WorkerInv' BY <1>2 DEF SeesStop, Working, Results
<1>9. Raise(w) => WorkerInv' BY <1>2 DEF Raise, Working, Results
<1>10. Ask(w) => WorkerInv' BY <1>1, <1>3 DEF Ask, Keeps, Working
<1>11. Post(w) => WorkerInv' BY PostKeeps
<1>12. TakeAnswer(w) => WorkerInv' BY TakeAnswerKeeps
<1>13. StopAsking(w) => WorkerInv' BY StopAskingKeeps
<1>14. Act(w) => WorkerInv' BY <1>3, <1>4 DEF Act, Keeps, Working, EventKinds
<1>15. Reply(w) => WorkerInv' BY <1>3, <1>4 DEF Reply, Keeps, Working, EventKinds
<1>16. Finish(w) => WorkerInv' BY <1>2 DEF Finish, Working, Results
<1>17. Report(w) => WorkerInv' BY <1>1, <1>3, <1>4 DEF Report, Working
<1>18. Clear(w) => WorkerInv' BY ClearKeeps
<1>19. Release(w) => WorkerInv' BY ReleaseKeeps
<1>20. Close(w) => WorkerInv' BY CloseKeeps
<1> QED
  BY <1>5, <1>6, <1>7, <1>8, <1>9, <1>10, <1>11, <1>12, <1>13, <1>14, <1>15, <1>16, <1>17, <1>18, <1>19,
     <1>20 DEF Thread

------------------------------------------------------------------------------
(* Calls of other threads                                                   *)

\* A job or a control joins the queue of w.
LEMMA JoinKeeps ==
  ASSUME WorkerInv, NEW w \in Worker, NEW x \in Item,
         jobs' = [jobs EXCEPT ![w] = Append(@, x)],
         accepted' \in [Worker -> SUBSET Nat], issued' \in [Worker -> Nat], controls' \in [Worker -> Nat],
         \A v \in Worker \ {w} : /\ accepted'[v] = accepted[v] /\ issued'[v] = issued[v]
                                 /\ controls'[v] = controls[v],
         accepted'[w] \subseteq 1..issued'[w], accepted[w] \subseteq accepted'[w], issued[w] <= issued'[w],
         x.kind # "job" => x.id = 0,
         x.kind = "job" => x.id \in accepted'[w] /\ x.id > issued[w],
         controls'[w] = controls[w] + (IF x.kind = "control" THEN 1 ELSE 0),
         pc' = [pc EXCEPT ![w] = IF @ = "unborn" THEN "get" ELSE @],
         UNCHANGED <<cancelled, stopping, processing, job, result, approvalVars, events>>
  PROVE  WorkerInv'
<1>1. /\ \A v \in Worker \ {w} : /\ pc'[v] = pc[v] /\ jobs'[v] = jobs[v] /\ accepted'[v] = accepted[v]
                                 /\ issued'[v] = issued[v] /\ controls'[v] = controls[v]
      /\ pc'[w] = (IF pc[w] = "unborn" THEN "get" ELSE pc[w]) /\ jobs'[w] = Append(jobs[w], x)
      /\ jobs[w] \in Seq(Item) /\ issued[w] \in Nat /\ issued'[w] \in Nat
      /\ UNCHANGED <<cancelled, stopping, processing, job, result, approvals, pending, answered, answers, events>>
  BY DEF WorkerInv, TypeOK, Item, approvalVars
<1>2. TypeOK'
  <2>1. jobs' \in [Worker -> Seq([kind : {"job", "control", "stop"}, id : Nat])]
    BY DEF WorkerInv, TypeOK, Item
  <2>2. \A v \in Worker : cancelled'[v] \subseteq accepted'[v]
    BY <1>1 DEF WorkerInv, TypeOK
  <2>3. pc' \in [Worker -> Places] BY DEF WorkerInv, TypeOK, Places
  <2>4. QED BY <1>1, <2>1, <2>2, <2>3 DEF WorkerInv, TypeOK
<1>3. QueueInv'
  <2> SUFFICES ASSUME NEW v \in Worker PROVE (ItemsOf(v) /\ PlaceOf(v) /\ ControlsOf(v))'
    BY DEF QueueInv
  <2>1. CASE v # w
    <3>1. ItemsOf(v) /\ PlaceOf(v) /\ ControlsOf(v) BY DEF WorkerInv, QueueInv
    <3>2. QED BY <1>1, <2>1, <3>1 DEF ItemsOf, PlaceOf, ControlsOf, Active
  <2>2. CASE v = w
    <3>1. ItemsOf(w) /\ PlaceOf(w) /\ ControlsOf(w) BY DEF WorkerInv, QueueInv
    <3>2. ItemsOf(w)'
      <4>1. /\ \A i \in 1..Len(jobs[w]) : i \in 1..Len(jobs'[w]) /\ jobs'[w][i] = jobs[w][i]
            /\ \A i \in 1..Len(jobs'[w]) : i \in 1..Len(jobs[w]) \/ i = Len(jobs[w]) + 1
            /\ jobs'[w][Len(jobs[w]) + 1] = x /\ Len(jobs[w]) \in Nat
        BY <1>1
      <4>2. \A i \in 1..Len(jobs[w]) : jobs[w][i].kind = "job" => jobs[w][i].id <= issued[w]
        BY <1>1, <3>1 DEF ItemsOf
      <4>3. \A i \in 1..Len(jobs[w]) : x.kind = "job" => jobs[w][i] # x
        BY <1>1, <4>2
      <4>4. x.kind = "job" => x.id # job[w]
        BY <1>1, <3>1 DEF ItemsOf
      <4>5. \A i \in 1..Len(jobs'[w]) :
              /\ jobs'[w][i].kind # "job" => jobs'[w][i].id = 0
              /\ jobs'[w][i].kind = "job" => jobs'[w][i].id \in accepted'[w] \ {job'[w]}
        BY <1>1, <3>1, <4>1, <4>4 DEF ItemsOf
      <4>6. \A i, k \in 1..Len(jobs'[w]) : jobs'[w][i].kind = "job" /\ jobs'[w][k] = jobs'[w][i] => k = i
        <5> SUFFICES ASSUME NEW i \in 1..Len(jobs'[w]), NEW k \in 1..Len(jobs'[w]),
                            jobs'[w][i].kind = "job", jobs'[w][k] = jobs'[w][i]
                     PROVE  k = i
          OBVIOUS
        <5>1. CASE i \in 1..Len(jobs[w]) /\ k \in 1..Len(jobs[w]) BY <3>1, <4>1, <5>1 DEF ItemsOf
        <5>2. CASE i = Len(jobs[w]) + 1 /\ k \in 1..Len(jobs[w]) BY <4>1, <4>3, <5>2
        <5>3. CASE i \in 1..Len(jobs[w]) /\ k = Len(jobs[w]) + 1 BY <4>1, <4>3, <5>3
        <5>4. QED BY <4>1, <5>1, <5>2, <5>3
      <4>7. job'[w] \in 0..issued'[w] BY <1>1, <3>1 DEF ItemsOf
      <4>8. QED BY <4>5, <4>6, <4>7 DEF ItemsOf
    <3>3. PlaceOf(w)' BY <1>1, <3>1 DEF PlaceOf, Active
    <3>4. ControlsOf(w)'
      <4>1. /\ Cardinality(Waiting(jobs[w])) \in Nat
            /\ Cardinality(Waiting(jobs'[w])) = Cardinality(Waiting(jobs[w])) + (IF x.kind = "control" THEN 1 ELSE 0)
        BY <1>1, CountAppend
      <4>2. QED BY <1>1, <3>1, <4>1 DEF ControlsOf
    <3>5. QED BY <2>2, <3>2, <3>3, <3>4
  <2>3. QED BY <2>1, <2>2
<1>4. AnswerInv'
  <2> SUFFICES ASSUME NEW v \in Worker PROVE AnswersOf(v)'
    BY DEF AnswerInv
  <2>1. AnswersOf(v) /\ Hits(v)' = Hits(v) BY <1>1 DEF WorkerInv, AnswerInv, Hits
  <2>2. (pc'[v] = "asking") = (pc[v] = "asking") BY <1>1
  <2>3. QED BY <1>1, <2>1, <2>2 DEF AnswersOf
<1>5. QED BY <1>2, <1>3, <1>4 DEF WorkerInv

LEMMA SubmitKeeps ==
  ASSUME WorkerInv, NEW w \in Worker, Submit(w)
  PROVE  WorkerInv' /\ issued'[w] = issued[w] + 1
<1>1. issued \in [Worker -> Nat] /\ accepted \in [Worker -> SUBSET Nat] /\ accepted[w] \subseteq 1..issued[w]
  BY DEF WorkerInv, TypeOK, QueueInv, ItemsOf
<1>2. issued' = [issued EXCEPT ![w] = @ + 1] /\ accepted' = [accepted EXCEPT ![w] = @ \cup {issued'[w]}]
  BY DEF Submit
<1>3. /\ issued'[w] = issued[w] + 1 /\ issued' \in [Worker -> Nat] /\ accepted' \in [Worker -> SUBSET Nat]
      /\ \A v \in Worker \ {w} : accepted'[v] = accepted[v] /\ issued'[v] = issued[v]
      /\ accepted'[w] = accepted[w] \cup {issued'[w]} /\ issued[w] \in Nat
  BY <1>1, <1>2
<1> DEFINE x == JobItem(issued'[w])
<1>4. x \in Item /\ x.kind = "job" /\ x.id = issued'[w] BY <1>3 DEF Item, JobItem
<1>5. /\ jobs' = [jobs EXCEPT ![w] = Append(@, x)]
      /\ pc' = [pc EXCEPT ![w] = IF @ = "unborn" THEN "get" ELSE @]
      /\ UNCHANGED <<cancelled, stopping, controls, processing, job, result, approvalVars, events>>
  BY DEF Submit
<1>6. controls' \in [Worker -> Nat] /\ controls'[w] = controls[w] + 0 /\ \A v \in Worker : controls'[v] = controls[v]
  BY <1>5 DEF WorkerInv, TypeOK
<1> HIDE DEF x
<1>7. accepted'[w] \subseteq 1..issued'[w] /\ accepted[w] \subseteq accepted'[w] /\ issued[w] <= issued'[w]
  BY <1>1, <1>3
<1>8. /\ x.kind # "job" => x.id = 0
      /\ x.kind = "job" => x.id \in accepted'[w] /\ x.id > issued[w]
      /\ controls'[w] = controls[w] + (IF x.kind = "control" THEN 1 ELSE 0)
      /\ \A v \in Worker \ {w} : /\ accepted'[v] = accepted[v] /\ issued'[v] = issued[v]
                                 /\ controls'[v] = controls[v]
  BY <1>3, <1>4, <1>6
<1>9. UNCHANGED <<cancelled, stopping, processing, job, result, approvalVars, events>> BY <1>5
<1>10. WorkerInv' BY <1>3, <1>4, <1>5, <1>6, <1>7, <1>8, <1>9, JoinKeeps
<1>11. QED BY <1>3, <1>10

LEMMA ControlKeeps ==
  ASSUME WorkerInv, NEW w \in Worker, AddControl(w)
  PROVE  WorkerInv'
<1>1. /\ issued \in [Worker -> Nat] /\ accepted \in [Worker -> SUBSET Nat] /\ accepted[w] \subseteq 1..issued[w]
      /\ controls \in [Worker -> Nat]
  BY DEF WorkerInv, TypeOK, QueueInv, ItemsOf
<1>2. controls' = [controls EXCEPT ![w] = @ + 1] BY DEF AddControl
<1>3. /\ controls'[w] = controls[w] + 1 /\ controls' \in [Worker -> Nat]
      /\ \A v \in Worker \ {w} : controls'[v] = controls[v]
  BY <1>1, <1>2
<1>4. Control \in Item /\ Control.kind = "control" /\ Control.id = 0 BY DEF Item, Control
<1>5. /\ jobs' = [jobs EXCEPT ![w] = Append(@, Control)]
      /\ pc' = [pc EXCEPT ![w] = IF @ = "unborn" THEN "get" ELSE @]
      /\ UNCHANGED <<accepted, issued, cancelled, stopping, processing, job, result, approvalVars, events>>
  BY DEF AddControl
<1>6. issued[w] \in Nat /\ issued'[w] = issued[w] BY <1>1, <1>5
<1>7. /\ accepted' \in [Worker -> SUBSET Nat] /\ issued' \in [Worker -> Nat]
      /\ accepted'[w] \subseteq 1..issued'[w] /\ accepted[w] \subseteq accepted'[w] /\ issued[w] <= issued'[w]
      /\ \A v \in Worker \ {w} : /\ accepted'[v] = accepted[v] /\ issued'[v] = issued[v]
                                 /\ controls'[v] = controls[v]
  BY <1>1, <1>3, <1>5, <1>6
<1>8. /\ Control.kind # "job" => Control.id = 0
      /\ Control.kind = "job" => Control.id \in accepted'[w] /\ Control.id > issued[w]
      /\ controls'[w] = controls[w] + (IF Control.kind = "control" THEN 1 ELSE 0)
  BY <1>3, <1>4
<1>9. UNCHANGED <<cancelled, stopping, processing, job, result, approvalVars, events>> BY <1>5
<1>10. QED BY <1>3, <1>4, <1>5, <1>7, <1>8, <1>9, JoinKeeps

\* Stop items join some queues, whatever becomes of the answers.
LEMMA StopsKeep ==
  ASSUME WorkerInv, stopping' \in [Worker -> BOOLEAN], jobs' \in [Worker -> Seq(Item)],
         \A v \in Worker : jobs'[v] \in {jobs[v], Append(jobs[v], StopItem)},
         answered' \in [Worker -> BOOLEAN], answers' \in [Worker -> Seq(Nat \X BOOLEAN)], AnswerInv',
         UNCHANGED <<accepted, cancelled, controls, issued, threadVars, approvals, pending, events>>
  PROVE  WorkerInv'
<1>1. UNCHANGED <<accepted, cancelled, controls, issued, processing, pc, job, result, approvals, pending, events>>
  BY DEF threadVars
<1>2. TypeOK' BY <1>1 DEF WorkerInv, TypeOK, Item
<1>3. QueueInv'
  <2> SUFFICES ASSUME NEW v \in Worker PROVE (ItemsOf(v) /\ PlaceOf(v) /\ ControlsOf(v))'
    BY DEF QueueInv
  <2>1. ItemsOf(v) /\ PlaceOf(v) /\ ControlsOf(v) BY DEF WorkerInv, QueueInv
  <2>2. CASE jobs'[v] = jobs[v]
    BY <1>1, <2>1, <2>2 DEF ItemsOf, PlaceOf, ControlsOf, Active
  <2>3. CASE jobs'[v] = Append(jobs[v], StopItem)
    <3>1. jobs[v] \in Seq(Item) /\ StopItem \in Item /\ StopItem.kind = "stop" /\ StopItem.id = 0
      BY DEF WorkerInv, TypeOK, Item, StopItem
    <3>2. ItemsOf(v)'
      <4>1. \A i \in 1..Len(jobs'[v]) : (i \in 1..Len(jobs[v]) /\ jobs'[v][i] = jobs[v][i]) \/ jobs'[v][i] = StopItem
        BY <2>3, <3>1
      <4>2. QED BY <1>1, <2>1, <3>1, <4>1 DEF ItemsOf
    <3>3. PlaceOf(v)' BY <1>1, <2>1 DEF PlaceOf, Active
    <3>4. ControlsOf(v)'
      <4>1. /\ Cardinality(Waiting(jobs[v])) \in Nat
            /\ Cardinality(Waiting(jobs'[v])) = Cardinality(Waiting(jobs[v])) + 0
        BY <2>3, <3>1, CountAppend
      <4>2. QED BY <1>1, <2>1, <4>1 DEF ControlsOf
    <3>5. QED BY <3>2, <3>3, <3>4
  <2>4. QED BY <2>2, <2>3
<1>4. QED BY <1>2, <1>3 DEF WorkerInv

\* An answer to the approval that is up.
Gives(w, a, d) ==
  /\ Answerable(w, a)
  /\ answered' = [answered EXCEPT ![w] = TRUE]
  /\ answers' = [answers EXCEPT ![w] = Append(@, <<a, d>>)]

LEMMA GivenKeeps ==
  ASSUME WorkerInv, NEW w \in Worker, NEW a \in Nat, NEW d \in BOOLEAN, Gives(w, a, d),
         UNCHANGED <<pc, job, cancelled, approvals, pending>>
  PROVE  AnswerInv' /\ answered' \in [Worker -> BOOLEAN] /\ answers' \in [Worker -> Seq(Nat \X BOOLEAN)]
<1>1. answered' \in [Worker -> BOOLEAN] /\ answers' \in [Worker -> Seq(Nat \X BOOLEAN)]
  BY DEF WorkerInv, TypeOK, Gives
<1>2. /\ \A v \in Worker \ {w} : answered'[v] = answered[v] /\ answers'[v] = answers[v]
      /\ answered'[w] /\ answers'[w] = Append(answers[w], <<a, d>>)
      /\ answers[w] \in Seq(Nat \X BOOLEAN) /\ Len(answers[w]) \in Nat /\ <<a, d>> \in Nat \X BOOLEAN
      /\ a # 0 /\ a = pending[w] /\ ~answered[w]
  BY DEF WorkerInv, TypeOK, Gives, Answerable
<1>3. AnswerInv'
  <2> SUFFICES ASSUME NEW v \in Worker PROVE AnswersOf(v)'
    BY DEF AnswerInv
  <2>1. AnswersOf(v) BY DEF WorkerInv, AnswerInv
  <2>2. CASE v # w
    <3>1. Hits(v)' = Hits(v) BY <1>2, <2>2 DEF Hits
    <3>2. QED BY <1>2, <2>1, <2>2, <3>1 DEF AnswersOf
  <2>3. CASE v = w
    <3>1. pc[w] = "asking" /\ pending[w] = approvals[w] /\ Hits(w) = {} BY <1>2, <2>1, <2>3 DEF AnswersOf
    <3>2. /\ \A i \in 1..Len(answers[w]) : answers'[w][i] = answers[w][i]
          /\ \A i \in 1..Len(answers'[w]) : i \in 1..Len(answers[w]) \/ i = Len(answers[w]) + 1
          /\ answers'[w][Len(answers[w]) + 1] = <<a, d>> /\ Len(answers[w]) + 1 \in 1..Len(answers'[w])
      BY <1>2
    <3>3. Hits(w)' = {Len(answers[w]) + 1}
      <4>1. Len(answers[w]) + 1 \in Hits(w)' BY <1>2, <3>2 DEF Hits
      <4>2. \A i \in Hits(w)' : i = Len(answers[w]) + 1 BY <3>1, <3>2 DEF Hits
      <4>3. QED BY <4>1, <4>2
    <3>4. \A i \in 1..Len(answers'[w]) : answers'[w][i][1] <= approvals[w]
      <4>1. approvals[w] \in Nat BY DEF WorkerInv, TypeOK
      <4>2. QED BY <1>2, <2>1, <2>3, <3>1, <3>2, <4>1 DEF AnswersOf
    <3>5. QED BY <1>2, <2>1, <2>3, <3>1, <3>3, <3>4 DEF AnswersOf
  <2>4. QED BY <2>2, <2>3
<1>4. QED BY <1>1, <1>3

\* Events are read or published, and at most an answer is given.
LEMMA ReadKeeps ==
  ASSUME WorkerInv, events' \in [Worker -> Events],
         \/ UNCHANGED <<answered, answers>>
         \/ \E w \in Worker, a \in Nat, d \in BOOLEAN : Gives(w, a, d),
         UNCHANGED <<queueVars, threadVars, approvals, pending>>
  PROVE  WorkerInv'
<1>1. UNCHANGED <<jobs, accepted, cancelled, stopping, controls, issued, processing, pc, job, result, approvals, pending>>
  BY DEF queueVars, threadVars
<1>2. QueueInv'
  BY <1>1 DEF WorkerInv, QueueInv, ItemsOf, PlaceOf, ControlsOf, Active
<1>3. AnswerInv' /\ answered' \in [Worker -> BOOLEAN] /\ answers' \in [Worker -> Seq(Nat \X BOOLEAN)]
  <2>1. CASE UNCHANGED <<answered, answers>>
    <3>1. answered' \in [Worker -> BOOLEAN] /\ answers' \in [Worker -> Seq(Nat \X BOOLEAN)]
      BY <2>1 DEF WorkerInv, TypeOK
    <3>2. AnswerInv' BY <1>1, <2>1 DEF WorkerInv, AnswerInv, AnswersOf, Hits
    <3>3. QED BY <3>1, <3>2
  <2>2. CASE \E w \in Worker, a \in Nat, d \in BOOLEAN : Gives(w, a, d)
    BY <1>1, <2>2, GivenKeeps
  <2>3. QED BY <2>1, <2>2
<1>4. TypeOK' BY <1>1, <1>3 DEF WorkerInv, TypeOK, Events
<1>5. QED BY <1>2, <1>3, <1>4 DEF WorkerInv

LEMMA CancelKeeps ==
  ASSUME WorkerInv, NEW w \in Worker, NEW j, Cancel(w, j)
  PROVE  WorkerInv'
<1>1. /\ cancelled' = [cancelled EXCEPT ![w] = @ \cup {j}] /\ j \in accepted[w]
      /\ UNCHANGED <<jobs, accepted, stopping, controls, issued, processing, pc, job, result, approvals, answers, events>>
  BY DEF Cancel, threadVars
<1>2. \A v \in Worker \ {w} : pending'[v] = pending[v] /\ answered'[v] = answered[v]
  <2>1. CASE Active(w) /\ j = job[w] BY <2>1 DEF WorkerInv, TypeOK, Cancel
  <2>2. CASE ~(Active(w) /\ j = job[w]) BY <2>2 DEF Cancel
  <2>3. QED BY <2>1, <2>2
<1>3. \/ j = job[w] /\ pending'[w] = 0
      \/ ~(Active(w) /\ j = job[w]) /\ pending'[w] = pending[w] /\ answered'[w] = answered[w]
  BY DEF WorkerInv, TypeOK, Cancel
<1>4. TypeOK'
  <2>1. pending' \in [Worker -> Nat] /\ answered' \in [Worker -> BOOLEAN]
    <3>1. CASE Active(w) /\ j = job[w]
      <4>1. pending' = [pending EXCEPT ![w] = 0] /\ answered' = [answered EXCEPT ![w] = FALSE]
        BY <3>1 DEF Cancel
      <4>2. pending \in [Worker -> Nat] /\ answered \in [Worker -> BOOLEAN] /\ 0 \in Nat
        BY DEF WorkerInv, TypeOK
      <4>3. QED BY <4>1, <4>2
    <3>2. CASE ~(Active(w) /\ j = job[w]) BY <3>2 DEF WorkerInv, TypeOK, Cancel
    <3>3. QED BY <3>1, <3>2
  <2>2. cancelled' \in [Worker -> SUBSET Nat] /\ \A v \in Worker : cancelled'[v] \subseteq accepted'[v]
    BY <1>1 DEF WorkerInv, TypeOK
  <2>3. QED BY <1>1, <2>1, <2>2 DEF WorkerInv, TypeOK
<1>5. QueueInv' BY <1>1 DEF WorkerInv, QueueInv, ItemsOf, PlaceOf, ControlsOf, Active
<1>6. AnswerInv'
  <2> SUFFICES ASSUME NEW v \in Worker PROVE AnswersOf(v)'
    BY DEF AnswerInv
  <2>1. AnswersOf(v) BY DEF WorkerInv, AnswerInv
  <2>2. job[v] \in cancelled[v] => job[v] \in cancelled'[v] BY <1>1 DEF WorkerInv, TypeOK
  <2>3. CASE pending'[v] = pending[v] /\ answered'[v] = answered[v]
    <3>1. Hits(v)' = Hits(v) BY <1>1, <2>3 DEF Hits
    <3>2. QED BY <1>1, <2>1, <2>2, <2>3, <3>1 DEF AnswersOf
  <2>4. CASE v = w /\ j = job[w] /\ pending'[w] = 0
    <3>1. job[w] \in cancelled'[w] BY <1>1, <2>4 DEF WorkerInv, TypeOK
    <3>2. QED BY <1>1, <2>1, <2>4, <3>1 DEF AnswersOf
  <2>5. QED BY <1>2, <1>3, <2>3, <2>4
<1>7. QED BY <1>4, <1>5, <1>6 DEF WorkerInv

LEMMA DrainedTyped ==
  ASSUME WorkerInv, NEW w \in Worker, Drained(w)
  PROVE  events' \in [Worker -> Events]
<1>1. events \in [Worker -> Events] BY DEF WorkerInv, TypeOK, Events
<1>2. events[w] # <<>> /\ events' = [events EXCEPT ![w] = Tail(@)] BY DEF Drained
<1>3. QED BY <1>1, <1>2, QueuesTyped, Zenon DEF Events

LEMMA StopKeeps ==
  ASSUME WorkerInv, NEW w \in Worker, Stop(w)
  PROVE  WorkerInv'
<1>1. StopItem \in Item BY DEF StopItem, Item
<1>2. stopping' \in [Worker -> BOOLEAN] BY DEF WorkerInv, TypeOK, Stop
<1>3. jobs' = [jobs EXCEPT ![w] = Append(@, StopItem)] /\ jobs \in [Worker -> Seq(Item)]
  BY DEF WorkerInv, TypeOK, Stop, Item
<1>4. jobs' \in [Worker -> Seq(Item)] /\ \A v \in Worker : jobs'[v] \in {jobs[v], Append(jobs[v], StopItem)}
  BY <1>1, <1>3
<1>5. /\ UNCHANGED <<accepted, cancelled, controls, issued, threadVars, approvals, pending, events>>
      /\ UNCHANGED <<pc, job, answered, answers>>
  BY DEF Stop, threadVars, approvalVars
<1>6. AnswerInv' BY <1>5 DEF WorkerInv, AnswerInv, AnswersOf, Hits
<1>7. answered' \in [Worker -> BOOLEAN] /\ answers' \in [Worker -> Seq(Nat \X BOOLEAN)]
  BY <1>5 DEF WorkerInv, TypeOK
<1>8. QED BY <1>2, <1>4, <1>5, <1>6, <1>7, StopsKeep

LEMMA ClientKeeps ==
  ASSUME WorkerInv, NEW w \in Worker, Client(w)
  PROVE  WorkerInv'
<1>1. Drain(w) => WorkerInv'
  <2> SUFFICES ASSUME Drain(w) PROVE WorkerInv' OBVIOUS
  <2>1. events' \in [Worker -> Events] BY DrainedTyped DEF Drain
  <2>2. UNCHANGED <<answered, answers>> /\ UNCHANGED <<queueVars, threadVars, approvals, pending>>
    BY DEF Drain, approvalVars
  <2>3. QED BY <2>1, <2>2, ReadKeeps
<1>2. ASSUME NEW a \in 1..MaxApprovals, NEW d \in BOOLEAN, Respond(w, a, d) PROVE WorkerInv'
  <2>1. a \in Nat BY WorkerAssumption
  <2>2. Gives(w, a, d) BY <1>2 DEF Respond, Gives
  <2>3. events' \in [Worker -> Events] BY <1>2 DEF WorkerInv, TypeOK, Respond, Events
  <2>4. UNCHANGED <<queueVars, threadVars, approvals, pending>> BY <1>2 DEF Respond
  <2>5. QED BY <2>1, <2>2, <2>3, <2>4, ReadKeeps
<1>3. QED BY <1>1, <1>2, SubmitKeeps, ControlKeeps, StopKeeps, CancelKeeps DEF Client

LEMMA WorkerInitInv == WorkerInit => WorkerInv
<1> SUFFICES ASSUME WorkerInit PROVE WorkerInv
  OBVIOUS
<1>1. TypeOK
  <2>1. /\ jobs \in [Worker -> Seq([kind : {"job", "control", "stop"}, id : Nat])]
        /\ answers \in [Worker -> Seq(Nat \X BOOLEAN)]
        /\ events \in [Worker -> Seq([kind : EventKinds, job : Nat, approval : Nat])]
    <3>1. \A T : <<>> \in Seq(T) OBVIOUS
    <3>2. QED BY <3>1, Zenon DEF WorkerInit
  <2>2. pc \in [Worker -> Places]
    BY DEF WorkerInit, Places
  <2>3. QED BY <2>1, <2>2 DEF WorkerInit, TypeOK
<1>2. QueueInv
  <2> SUFFICES ASSUME NEW w \in Worker PROVE ItemsOf(w) /\ PlaceOf(w) /\ ControlsOf(w)
    BY DEF QueueInv
  <2>1. Waiting(jobs[w]) = {} BY DEF WorkerInit, Waiting
  <2>2. Cardinality(Waiting(jobs[w])) = 0 BY <2>1, FS_EmptySet
  <2>3. QED BY <2>2 DEF WorkerInit, ItemsOf, PlaceOf, ControlsOf, Active
<1>3. AnswerInv BY DEF WorkerInit, AnswerInv, AnswersOf
<1>4. QED BY <1>1, <1>2, <1>3 DEF WorkerInv

LEMMA WorkerNextInv == WorkerInv /\ [WorkerNext]_workerVars => WorkerInv'
<1>1. WorkerInv /\ WorkerNext => WorkerInv'
  BY ThreadKeeps, ClientKeeps DEF WorkerNext
<1>2. WorkerInv /\ UNCHANGED workerVars => WorkerInv'
  <2> SUFFICES ASSUME WorkerInv, UNCHANGED workerVars PROVE WorkerInv'
    OBVIOUS
  <2>1. UNCHANGED <<queueVars, threadVars, approvals, pending>> /\ UNCHANGED <<answered, answers>>
    BY DEF workerVars, approvalVars
  <2>2. events' \in [Worker -> Events] BY DEF WorkerInv, TypeOK, Events, workerVars
  <2>3. QED BY <2>1, <2>2, ReadKeeps
<1>3. QED BY <1>1, <1>2

LEMMA QuietIsIdle == WorkerInv => QuietMeansIdle
<1> SUFFICES ASSUME WorkerInv, NEW w \in Worker, Quiescent(w)
             PROVE  pc[w] \in {"unborn", "get", "closing", "dead"}
  BY DEF QuietMeansIdle
<1>1. PlaceOf(w) /\ ControlsOf(w) /\ pc[w] \in Places BY DEF WorkerInv, QueueInv, TypeOK
<1>2. Cardinality(Waiting(jobs[w])) \in Nat
  <2>1. jobs[w] \in Seq(Item) /\ StopItem \in Item BY DEF WorkerInv, TypeOK, Item, StopItem
  <2>2. QED BY <2>1, CountAppend
<1>3. ~(pc[w] = "took" /\ job[w] = 0) BY <1>1, <1>2 DEF Quiescent, ControlsOf
<1>4. QED BY <1>1, <1>3 DEF Quiescent, PlaceOf, Active, Places

LEMMA AnsweredOnce == WorkerInv => OneAnswer
<1> SUFFICES ASSUME WorkerInv, NEW w \in Worker, pending[w] # 0
             PROVE  /\ pc[w] = "asking" /\ pending[w] = approvals[w]
                    /\ Cardinality(Hits(w)) = IF answered[w] THEN 1 ELSE 0
  BY DEF OneAnswer, Hits
<1>1. AnswersOf(w) BY DEF WorkerInv, AnswerInv
<1>2. CASE answered[w] BY <1>1, <1>2, FS_Singleton DEF AnswersOf
<1>3. CASE ~answered[w] BY <1>1, <1>3, FS_EmptySet DEF AnswersOf
<1>4. QED BY <1>1, <1>2, <1>3 DEF AnswersOf

\* Only the taking of an answer leads from an approval to its action.
LEMMA GrantsAreGiven ==
  ASSUME WorkerInv, [WorkerNext]_workerVars, NEW w \in Worker, pc[w] = "asking", pc'[w] = "acting"
  PROVE  pending[w] = approvals[w] /\ answered[w]
<1>1. CASE UNCHANGED workerVars BY <1>1 DEF workerVars, threadVars
<1>2. ASSUME NEW v \in Worker, Client(v) PROVE FALSE
  BY <1>2 DEF Client, Submit, AddControl, Stop, Drain, Cancel, Respond, threadVars, WorkerInv, TypeOK
<1>3. ASSUME NEW v \in Worker, Thread(v) PROVE TakeAnswer(w) /\ Answered(w)
  <2>1. v = w
    BY <1>3 DEF Thread, Get, Take, Begin, SeesStop, Raise, Ask, Post, TakeAnswer, StopAsking, Act, Reply,
                Finish, Report, Clear, Release, Close, Goto, Unwind, WorkerInv, TypeOK
  <2>2. TakeAnswer(w)
    BY <1>3, <2>1 DEF Thread, Get, Take, Begin, SeesStop, Raise, Ask, Post, StopAsking, Act, Reply,
                Finish, Report, Clear, Release, Close, Goto, Unwind, WorkerInv, TypeOK
  <2>3. QED BY <2>2 DEF TakeAnswer
<1>4. QED BY <1>1, <1>2, <1>3, GrantIsGiven DEF WorkerNext

(* What others see of a worker is what its thread does: a worker that calls  *)
(* itself quiescent is idle, the approval that can be answered is the one    *)
(* its job waits for, and no action goes on without an answer of its own.    *)
THEOREM WorkersAreSound == WorkerSpec => WorkerIsSound
<1>1. WorkerSpec => []WorkerInv
  BY WorkerInitInv, WorkerNextInv, PTL DEF WorkerSpec
<1>2. WorkerInv => TypeOK /\ QuietMeansIdle /\ OneAnswer
  BY QuietIsIdle, AnsweredOnce DEF WorkerInv
<1>3. WorkerInv /\ [WorkerNext]_workerVars =>
        [\A w \in Worker : pc[w] = "asking" /\ pc'[w] = "acting"
                             => pending[w] = approvals[w] /\ answered[w]]_workerVars
  BY GrantsAreGiven
<1>4. QED BY <1>1, <1>2, <1>3, PTL DEF WorkerSpec, WorkerIsSound, GrantWasGiven

------------------------------------------------------------------------------
(* The refinement of JobBoard                                               *)

\* The jobs of a queue are numbered in its order.
Ascends(q) ==
  \A i, k \in 1..Len(q) : i < k /\ q[i].kind = "job" /\ q[k].kind = "job" => q[i].id < q[k].id

(* What waits is the last of what was accepted, and the thread has the       *)
(* oldest of it or what came before.                                         *)
OrderOf(w) ==
  /\ \E m \in 0..issued[w] : Backlog(w) = m + 1..issued[w]
  /\ Ascends(jobs[w])
  /\ \A j \in JobsIn(jobs[w]) : job[w] < j
  /\ accepted[w] \subseteq Backlog(w) \cup (IF Begun(w) \/ pc[w] = "clear" THEN {job[w]} ELSE {})

(* A job that is about to end as cancelled was asked to stop.                *)
EndsOf(w) ==
  /\ \A i \in 1..Len(ended[w]) : ended[w][i][1] \in 0..issued[w]
  /\ pc[w] \in {"refuse", "report"} /\ result[w] = "cancelled" => Stopped(w)
  /\ pc[w] = "refuse" => result[w] \in {"cancelled", "error"}

BoardInv == /\ ended \in [Worker -> Seq(Nat \X Results)]
            /\ \A w \in Worker : OrderOf(w) /\ EndsOf(w)

LEMMA JobsAppend ==
  ASSUME NEW q \in Seq(Item), NEW x \in Item
  PROVE  /\ JobsIn(Append(q, x)) = JobsIn(q) \cup (IF x.kind = "job" THEN {x.id} ELSE {})
         /\ Ascends(q) /\ (x.kind = "job" => \A j \in JobsIn(q) : j < x.id) => Ascends(Append(q, x))
<1>1. /\ Len(Append(q, x)) = Len(q) + 1 /\ Append(q, x)[Len(q) + 1] = x
      /\ \A i \in 1..Len(q) : Append(q, x)[i] = q[i]
      /\ Len(q) \in Nat
  OBVIOUS
<1>2. JobsIn(Append(q, x)) = JobsIn(q) \cup (IF x.kind = "job" THEN {x.id} ELSE {})
  <2>1. \A i : i \in 1..Len(q) + 1 <=> i \in 1..Len(q) \/ i = Len(q) + 1 BY <1>1
  <2>2. QED BY <1>1, <2>1 DEF JobsIn
<1>3. ASSUME Ascends(q), x.kind = "job" => \A j \in JobsIn(q) : j < x.id PROVE Ascends(Append(q, x))
  <2> SUFFICES ASSUME NEW i \in 1..Len(q) + 1, NEW k \in 1..Len(q) + 1, i < k,
                      Append(q, x)[i].kind = "job", Append(q, x)[k].kind = "job"
               PROVE  Append(q, x)[i].id < Append(q, x)[k].id
    BY <1>1 DEF Ascends
  <2>1. i \in 1..Len(q) BY <1>1
  <2>2. CASE k \in 1..Len(q) BY <1>1, <1>3, <2>1, <2>2 DEF Ascends
  <2>3. CASE k = Len(q) + 1
    <3>1. x.kind = "job" /\ q[i].kind = "job" BY <1>1, <2>1, <2>3
    <3>2. q[i].id \in JobsIn(q) BY <2>1, <3>1 DEF JobsIn
    <3>3. QED BY <1>1, <1>3, <2>1, <2>3, <3>1, <3>2
  <2>4. QED BY <1>1, <2>2, <2>3
<1>4. QED BY <1>2, <1>3

LEMMA JobsTail ==
  ASSUME NEW q \in Seq(Item), q # <<>>, Ascends(q)
  PROVE  /\ JobsIn(q) = JobsIn(Tail(q)) \cup (IF Head(q).kind = "job" THEN {Head(q).id} ELSE {})
         /\ Ascends(Tail(q))
         /\ Head(q).kind = "job" => \A j \in JobsIn(Tail(q)) : Head(q).id < j
<1>1. /\ Len(q) \in Nat /\ Len(q) # 0 /\ Len(Tail(q)) = Len(q) - 1 /\ Head(q) = q[1]
      /\ \A i \in 1..Len(q) - 1 : Tail(q)[i] = q[i + 1]
  OBVIOUS
<1>2. \A j : j \in JobsIn(Tail(q)) <=> \E i \in 1..Len(q) : i # 1 /\ q[i].kind = "job" /\ q[i].id = j
  <2>1. \A i \in 1..Len(q) - 1 : i + 1 \in 1..Len(q) /\ i + 1 # 1 BY <1>1
  <2>2. \A i \in 1..Len(q) : i # 1 => i - 1 \in 1..Len(q) - 1 /\ (i - 1) + 1 = i BY <1>1
  <2>3. QED BY <1>1, <2>1, <2>2 DEF JobsIn
<1>3. JobsIn(q) = JobsIn(Tail(q)) \cup (IF Head(q).kind = "job" THEN {Head(q).id} ELSE {})
  <2>1. 1 \in 1..Len(q) BY <1>1
  <2>2. \A j : j \in JobsIn(q) <=> \E i \in 1..Len(q) : q[i].kind = "job" /\ q[i].id = j BY DEF JobsIn
  <2>3. QED BY <1>1, <1>2, <2>1, <2>2
<1>4. Ascends(Tail(q))
  <2> SUFFICES ASSUME NEW i \in 1..Len(q) - 1, NEW k \in 1..Len(q) - 1, i < k,
                      Tail(q)[i].kind = "job", Tail(q)[k].kind = "job"
               PROVE  Tail(q)[i].id < Tail(q)[k].id
    BY <1>1 DEF Ascends
  <2>1. i + 1 \in 1..Len(q) /\ k + 1 \in 1..Len(q) /\ i + 1 < k + 1 BY <1>1
  <2>2. QED BY <1>1, <2>1 DEF Ascends
<1>5. Head(q).kind = "job" => \A j \in JobsIn(Tail(q)) : Head(q).id < j
  <2>1. 1 \in 1..Len(q) /\ \A i \in 1..Len(q) : i # 1 => 1 < i BY <1>1
  <2>2. QED BY <1>1, <1>2, <2>1 DEF Ascends
<1>6. QED BY <1>3, <1>4, <1>5

\* The jobs m + 1 to m + n in order: the next is added at the end, the first
\* is taken from the front.
From(m, n) == [i \in 1..n |-> m + i]

LEMMA FromTyped ==
  ASSUME NEW m \in Nat, NEW n \in Nat
  PROVE  /\ From(m, n) \in Seq(Nat) /\ Len(From(m, n)) = n
         /\ \A i \in 1..n : From(m, n)[i] = m + i
<1>1. From(m, n) \in [1..n -> Nat] /\ \A i \in 1..n : From(m, n)[i] = m + i BY DEF From
<1> HIDE DEF From
<1>2. From(m, n) \in Seq(Nat) BY <1>1
<1>3. Len(From(m, n)) = n
  <2>1. DOMAIN From(m, n) = 1..n BY <1>1
  <2>2. Len(From(m, n)) \in Nat /\ DOMAIN From(m, n) = 1..Len(From(m, n)) BY <1>2, LenProperties
  <2>3. QED BY <2>1, <2>2
<1>4. QED BY <1>1, <1>2, <1>3

LEMMA FromAppend ==
  ASSUME NEW m \in Nat, NEW n \in Nat
  PROVE  From(m, n + 1) = Append(From(m, n), m + n + 1)
<1> DEFINE s == Append(From(m, n), m + n + 1)
           t == From(m, n + 1)
<1>1. From(m, n) \in Seq(Nat) /\ Len(From(m, n)) = n /\ \A i \in 1..n : From(m, n)[i] = m + i
  BY FromTyped
<1>2. t \in Seq(Nat) /\ Len(t) = n + 1 /\ \A i \in 1..n + 1 : t[i] = m + i
  BY FromTyped
<1>3. /\ s \in Seq(Nat) /\ Len(s) = n + 1
      /\ \A i \in 1..n : s[i] = m + i
      /\ s[n + 1] = m + n + 1
  BY <1>1, AppendProperties
<1>4. \A i \in 1..Len(t) : t[i] = s[i] BY <1>2, <1>3
<1> HIDE DEF s, t
<1>5. QED BY <1>2, <1>3, <1>4, SeqEqual DEF s, t

LEMMA FromTail ==
  ASSUME NEW m \in Nat, NEW n \in Nat, n # 0
  PROVE  /\ From(m, n) # <<>> /\ Head(From(m, n)) = m + 1
         /\ From(m + 1, n - 1) = Tail(From(m, n))
<1> DEFINE s == From(m, n)
           t == From(m + 1, n - 1)
<1>1. s \in Seq(Nat) /\ Len(s) = n /\ \A i \in 1..n : s[i] = m + i
  BY FromTyped
<1>2. n - 1 \in Nat /\ m + 1 \in Nat OBVIOUS
<1>3. t \in Seq(Nat) /\ Len(t) = n - 1 /\ \A i \in 1..n - 1 : t[i] = (m + 1) + i
  BY <1>2, FromTyped
<1> HIDE DEF s, t
<1>4. s # <<>> /\ Head(s) = m + 1
  <2>1. s # <<>> BY <1>1, EmptySeq
  <2>2. Head(s) = s[1] /\ 1 \in 1..n BY <1>1, <2>1
  <2>3. QED BY <1>1, <2>1, <2>2
<1>5. Tail(s) \in Seq(Nat) /\ Len(Tail(s)) = n - 1 /\ \A i \in 1..n - 1 : Tail(s)[i] = s[i + 1]
  BY <1>1, <1>4, HeadTailProperties
<1>6. \A i \in 1..Len(t) : t[i] = Tail(s)[i]
  <2>1. \A i \in 1..n - 1 : s[i + 1] = m + (i + 1) /\ m + (i + 1) = (m + 1) + i BY <1>1
  <2>2. QED BY <1>3, <1>5, <2>1
<1>7. t = Tail(s) BY <1>3, <1>5, <1>6, SeqEqual
<1>8. QED BY <1>4, <1>7 DEF s, t

LEMMA ComingIs ==
  ASSUME NEW w \in Worker, issued[w] \in Nat, NEW m \in 0..issued[w], Backlog(w) = m + 1..issued[w]
  PROVE  Coming(w) = From(m, issued[w] - m)
<1>1. Cardinality(m + 1..issued[w]) = issued[w] - m BY FS_Interval
<1>2. QED BY <1>1 DEF Coming, From

\* What the board sees of a worker.
Still(w) == UNCHANGED <<Coming(w), Runs(w), AskedFor(w)>>

\* What no step of another worker touches.
Apart(v) ==
  /\ jobs'[v] = jobs[v] /\ accepted'[v] = accepted[v] /\ cancelled'[v] = cancelled[v]
  /\ stopping'[v] = stopping[v] /\ issued'[v] = issued[v]
  /\ pc'[v] = pc[v] /\ job'[v] = job[v] /\ result'[v] = result[v]

LEMMA OthersApart ==
  ASSUME WorkerInv, NEW w \in Worker, Thread(w) \/ Client(w), NEW v \in Worker \ {w}
  PROVE  Apart(v)
<1>1. ASSUME Get(w) PROVE Apart(v) BY <1>1 DEF WorkerInv, TypeOK, Get, Goto, Apart
<1>2. ASSUME Take(w) PROVE Apart(v) BY <1>2 DEF WorkerInv, TypeOK, Take, Goto, Unwind, queueVars, Apart
<1>3. ASSUME Begin(w) \/ SeesStop(w) \/ Raise(w) \/ Ask(w) \/ Act(w) \/ Reply(w) \/ Finish(w) PROVE Apart(v)
  BY <1>3 DEF WorkerInv, TypeOK, Begin, SeesStop, Raise, Ask, Act, Reply, Finish, Goto, Unwind, Keeps,
              queueVars, Apart
<1>4. ASSUME Post(w) \/ TakeAnswer(w) \/ StopAsking(w) \/ Report(w) \/ Close(w) PROVE Apart(v)
  BY <1>4 DEF WorkerInv, TypeOK, Post, TakeAnswer, StopAsking, Report, Close, Goto, Unwind, queueVars, Apart
<1>5. ASSUME Clear(w) \/ Release(w) PROVE Apart(v)
  BY <1>5 DEF WorkerInv, TypeOK, Clear, Release, Goto, Unwind, Apart
<1>6. ASSUME Submit(w) \/ AddControl(w) \/ Stop(w) \/ Drain(w) PROVE Apart(v)
  BY <1>6 DEF WorkerInv, TypeOK, Submit, AddControl, Stop, Drain, queueVars, threadVars, Apart
<1>7. ASSUME NEW j, Cancel(w, j) PROVE Apart(v)
  BY <1>7 DEF WorkerInv, TypeOK, Cancel, threadVars, Apart
<1>8. ASSUME NEW a, NEW d, Respond(w, a, d) PROVE Apart(v)
  BY <1>8 DEF WorkerInv, TypeOK, Respond, queueVars, threadVars, Apart
<1>9. CASE Thread(w) BY <1>1, <1>2, <1>3, <1>4, <1>5, <1>9 DEF Thread
<1>10. CASE Client(w) BY <1>6, <1>7, <1>8, <1>10 DEF Client
<1>11. QED BY <1>9, <1>10

LEMMA ApartStill ==
  ASSUME BoardInv, NEW v \in Worker, Apart(v), ended'[v] = ended[v]
  PROVE  Still(v) /\ OrderOf(v)' /\ EndsOf(v)'
<1>1. Backlog(v)' = Backlog(v) BY DEF Apart, Backlog, NotBegun
<1>2. Coming(v)' = Coming(v) BY <1>1 DEF Apart, Coming
<1>3. Begun(v) = Begun(v)' BY DEF Apart, Begun
<1>4. Still(v) BY <1>2, <1>3 DEF Still, Apart, Runs, AskedFor
<1>5. OrderOf(v)' BY <1>1, <1>3 DEF BoardInv, OrderOf, Apart
<1>6. EndsOf(v)' BY DEF BoardInv, EndsOf, Apart, Stopped
<1>7. QED BY <1>4, <1>5, <1>6

\* Where the job is stays the same for the board.
SameStage(w) ==
  /\ NotBegun(w)' = NotBegun(w) /\ Begun(w)' = Begun(w) /\ (pc'[w] = "clear") = (pc[w] = "clear")
  /\ job'[w] = job[w] \/ (job'[w] = 0 /\ ~NotBegun(w) /\ ~Begun(w) /\ pc[w] # "clear")

LEMMA JobsTyped ==
  ASSUME WorkerInv, NEW w \in Worker
  PROVE  jobs[w] \in Seq(Item) /\ JobsIn(jobs[w]) \subseteq Nat
<1>1. jobs[w] \in Seq(Item) BY DEF WorkerInv, TypeOK, Item
<1>2. \A i \in 1..Len(jobs[w]) : jobs[w][i] \in Item BY <1>1, ElementOfSeq
<1>3. QED BY <1>1, <1>2 DEF JobsIn, Item

LEMMA StageStill ==
  ASSUME WorkerInv, BoardInv, NEW w \in Worker, SameStage(w),
         JobsIn(jobs'[w]) = JobsIn(jobs[w]), Ascends(jobs'[w]),
         accepted'[w] = accepted[w], issued'[w] = issued[w]
  PROVE  /\ OrderOf(w)' /\ Coming(w)' = Coming(w) /\ Runs(w)' = Runs(w)
         /\ cancelled'[w] = cancelled[w] => Still(w)
<1>1. Backlog(w)' = Backlog(w) BY DEF SameStage, Backlog
<1>2. Coming(w)' = Coming(w) BY <1>1 DEF Coming
<1>3. Runs(w)' = Runs(w) BY DEF SameStage, Runs
<1>4. \A j \in JobsIn(jobs'[w]) : job'[w] < j
  <2>1. \A j \in JobsIn(jobs[w]) : job[w] < j BY DEF BoardInv, OrderOf
  <2>2. JobsIn(jobs[w]) \subseteq Nat BY JobsTyped
  <2>3. job[w] \in Nat BY DEF WorkerInv, TypeOK
  <2>4. QED BY <2>1, <2>2, <2>3 DEF SameStage
<1>5. OrderOf(w)'
  <2>1. OrderOf(w) BY DEF BoardInv
  <2>2. QED BY <1>1, <1>4, <2>1 DEF OrderOf, SameStage
<1>6. cancelled'[w] = cancelled[w] => AskedFor(w)' = AskedFor(w) BY DEF SameStage, AskedFor
<1>7. QED BY <1>2, <1>3, <1>5, <1>6 DEF Still

\* The thread's own steps in a job, and the end of a control.
Inside(w) ==
  /\ UNCHANGED <<jobs, accepted, issued, cancelled, stopping>>
  /\ SameStage(w) /\ pc'[w] # "clear"
  /\ pc'[w] \in {"refuse", "report"} => job'[w] = job[w] /\ (result'[w] # "cancelled" \/ Stopped(w))
  /\ pc'[w] = "refuse" => result'[w] \in {"cancelled", "error"}

LEMMA InsideSteps ==
  ASSUME WorkerInv, NEW w \in Worker,
         \/ Take(w) \/ (Begin(w) /\ pc'[w] # "work") \/ SeesStop(w) \/ Raise(w) \/ Ask(w) \/ Post(w)
         \/ TakeAnswer(w) \/ StopAsking(w) \/ Act(w) \/ Reply(w) \/ Finish(w) \/ Release(w) \/ Close(w)
  PROVE  Inside(w)
<1> USE DEF Inside, SameStage, NotBegun, Begun, Stopped, queueVars, Goto, Unwind
<1>1. pc \in [Worker -> Places] /\ result \in [Worker -> Results] /\ job \in [Worker -> Nat]
  BY DEF WorkerInv, TypeOK, Results
<1>2. ASSUME Take(w) PROVE Inside(w) BY <1>1, <1>2 DEF Take
<1>3. ASSUME Begin(w), pc'[w] # "work" PROVE Inside(w) BY <1>1, <1>3 DEF Begin, Keeps
<1>4. ASSUME SeesStop(w) \/ Raise(w) PROVE Inside(w) BY <1>1, <1>4 DEF SeesStop, Raise, Keeps
<1>5. ASSUME Ask(w) \/ Act(w) \/ Reply(w) \/ Finish(w) PROVE Inside(w) BY <1>1, <1>5 DEF Ask, Act, Reply, Finish, Keeps
<1>6. ASSUME Post(w) \/ TakeAnswer(w) PROVE Inside(w) BY <1>1, <1>6 DEF Post, TakeAnswer
<1>7. ASSUME StopAsking(w) \/ Close(w) PROVE Inside(w) BY <1>1, <1>7 DEF StopAsking, Close
<1>8. ASSUME Release(w) PROVE Inside(w)
  <2>1. UNCHANGED <<jobs, accepted, issued, cancelled, stopping>> /\ pc[w] \in {"control", "observe"}
        /\ pc'[w] = "get" /\ job'[w] = 0
    BY <1>1, <1>8 DEF Release
  <2>2. QED BY <2>1
<1>9. QED BY <1>2, <1>3, <1>4, <1>5, <1>6, <1>7, <1>8

LEMMA InsideStill ==
  ASSUME WorkerInv, BoardInv, NEW w \in Worker, Inside(w), ended' = ended
  PROVE  Still(w) /\ OrderOf(w)' /\ EndsOf(w)' /\ stopping' = stopping
<1>1. Ascends(jobs'[w]) BY DEF BoardInv, OrderOf, Inside
<1>2. Still(w) /\ OrderOf(w)' BY <1>1, StageStill DEF Inside
<1>3. EndsOf(w)' BY DEF BoardInv, EndsOf, Inside, Stopped
<1>4. QED BY <1>2, <1>3 DEF Inside

LEMMA GetStill ==
  ASSUME WorkerInv, BoardInv, NEW w \in Worker, Get(w), ended' = ended
  PROVE  Still(w) /\ OrderOf(w)' /\ EndsOf(w)' /\ stopping' = stopping
<1> DEFINE head == Head(jobs[w])
<1>1. jobs[w] \in Seq(Item) /\ jobs[w] # <<>> /\ JobsIn(jobs[w]) \subseteq Nat
  BY JobsTyped DEF Get
<1>2. head \in Item /\ head = jobs[w][1] /\ 1 \in 1..Len(jobs[w]) BY <1>1
<1>3. /\ pc[w] = "get" /\ job[w] = 0 /\ jobs'[w] = Tail(jobs[w])
      /\ UNCHANGED <<accepted, cancelled, stopping, issued>>
      /\ \/ head = StopItem /\ pc'[w] = "closing" /\ job'[w] = 0
         \/ head # StopItem /\ pc'[w] = "took" /\ job'[w] = head.id
  <2>1. pc[w] = "get" /\ job[w] = 0 BY DEF Get, WorkerInv, QueueInv, PlaceOf
  <2>2. QED BY <2>1 DEF Get, Goto, WorkerInv, TypeOK
<1> HIDE DEF head
<1>4. /\ head.kind # "job" => head.id = 0
      /\ head.kind = "job" => head.id \in accepted[w] /\ head.id # 0
  BY <1>2 DEF WorkerInv, QueueInv, ItemsOf
<1>5. /\ JobsIn(jobs[w]) = JobsIn(jobs'[w]) \cup (IF head.kind = "job" THEN {head.id} ELSE {})
      /\ Ascends(jobs'[w])
      /\ head.kind = "job" => \A j \in JobsIn(jobs'[w]) : head.id < j
  BY <1>1, <1>3, JobsTail DEF BoardInv, OrderOf, head
<1>6. EndsOf(w)' BY <1>3 DEF BoardInv, EndsOf
<1>7. CASE head.kind # "job"
  <2>1. SameStage(w) BY <1>3, <1>4, <1>7 DEF SameStage, NotBegun, Begun
  <2>2. QED BY <1>3, <1>5, <1>6, <1>7, <2>1, StageStill
<1>8. CASE head.kind = "job"
  <2>1. pc'[w] = "took" /\ job'[w] = head.id /\ job'[w] # 0 BY <1>3, <1>4, <1>8 DEF StopItem
  <2>2. Backlog(w)' = Backlog(w) BY <1>3, <1>5, <1>8, <2>1 DEF Backlog, NotBegun
  <2>3. Coming(w)' = Coming(w) BY <1>3, <2>2 DEF Coming
  <2>4. Runs(w)' = Runs(w) /\ AskedFor(w)' = AskedFor(w) BY <1>3, <2>1 DEF Runs, Begun, AskedFor
  <2>5. OrderOf(w)'
    <3>1. OrderOf(w) BY DEF BoardInv
    <3>2. QED BY <1>3, <1>5, <1>8, <2>1, <2>2, <3>1 DEF OrderOf, Begun
  <2>6. QED BY <1>3, <1>6, <2>3, <2>4, <2>5 DEF Still
<1>9. QED BY <1>7, <1>8

\* The job in the thread is the oldest of those that wait.
LEMMA OldestLeaves ==
  ASSUME WorkerInv, BoardInv, NEW w \in Worker, NotBegun(w), issued'[w] = issued[w],
         jobs'[w] = jobs[w], ~NotBegun(w)'
  PROVE  /\ Coming(w) # <<>> /\ Head(Coming(w)) = job[w] /\ Coming(w)' = Tail(Coming(w))
         /\ \E m \in 0..issued[w] : Backlog(w)' = m + 1..issued[w]
         /\ Backlog(w) = Backlog(w)' \cup {job[w]}
<1>1. OrderOf(w) /\ issued[w] \in Nat /\ job[w] \in Nat BY DEF BoardInv, WorkerInv, TypeOK
<1>2. PICK m \in 0..issued[w] : Backlog(w) = m + 1..issued[w] BY <1>1 DEF OrderOf
<1>3. /\ Backlog(w) = JobsIn(jobs[w]) \cup {job[w]} /\ Backlog(w)' = JobsIn(jobs[w])
      /\ \A j \in JobsIn(jobs[w]) : job[w] < j
  BY <1>1 DEF Backlog, OrderOf
<1>4. job[w] = m + 1 /\ m < issued[w]
  <2>1. job[w] \in m + 1..issued[w] BY <1>2, <1>3
  <2>2. m + 1 \in JobsIn(jobs[w]) \/ m + 1 = job[w] BY <1>1, <1>2, <1>3, <2>1
  <2>3. QED BY <1>1, <1>3, <2>1, <2>2
<1>5. Backlog(w)' = (m + 1) + 1..issued[w]
  <2>1. \A j : j \in JobsIn(jobs[w]) <=> j \in m + 1..issued[w] /\ j # m + 1
    BY <1>1, <1>2, <1>3, <1>4
  <2>2. \A j : j \in (m + 1) + 1..issued[w] <=> j \in m + 1..issued[w] /\ j # m + 1
    BY <1>1
  <2>3. QED BY <1>3, <2>1, <2>2
<1>6. Coming(w) = From(m, issued[w] - m) BY <1>1, <1>2, ComingIs
<1>7. Coming(w)' = From(m + 1, (issued[w] - m) - 1)
  <2>1. m + 1 \in 0..issued[w] BY <1>1, <1>4
  <2>2. Cardinality((m + 1) + 1..issued[w]) = issued[w] - (m + 1)
    <3>1. (m + 1) + 1 \in Int /\ issued[w] \in Int BY <1>1
    <3>2. Cardinality((m + 1) + 1..issued[w])
            = IF (m + 1) + 1 > issued[w] THEN 0 ELSE (issued[w] - ((m + 1) + 1)) + 1
      BY <3>1, FS_Interval
    <3>3. QED BY <1>1, <2>1, <3>2
  <2>3. issued[w] - (m + 1) = (issued[w] - m) - 1 BY <1>1
  <2>4. issued[w] - (issued[w] - (m + 1)) = m + 1 BY <1>1
  <2>5. QED BY <1>5, <2>2, <2>3, <2>4 DEF Coming, From
<1>8. issued[w] - m \in Nat /\ issued[w] - m # 0 BY <1>1, <1>4
<1>9. Coming(w) # <<>> /\ Head(Coming(w)) = m + 1 /\ Coming(w)' = Tail(Coming(w))
  <2>1. m \in Nat BY <1>1
  <2>2. /\ From(m, issued[w] - m) # <<>> /\ Head(From(m, issued[w] - m)) = m + 1
        /\ From(m + 1, (issued[w] - m) - 1) = Tail(From(m, issued[w] - m))
    BY <1>8, <2>1, FromTail
  <2>3. QED BY <1>6, <1>7, <2>2
<1>10. m + 1 \in 0..issued[w] BY <1>1, <1>4
<1>11. QED BY <1>3, <1>4, <1>5, <1>9, <1>10

LEMMA BeginMaps ==
  ASSUME WorkerInv, BoardInv, NEW w \in Worker, Begin(w), pc'[w] = "work", ended' = ended,
         \A v \in Worker \ {w} : Still(v)
  PROVE  Board!Begin(w) /\ OrderOf(w)' /\ EndsOf(w)'
<1>1. /\ pc[w] = "begin" /\ ~Stopped(w)
      /\ UNCHANGED <<jobs, accepted, cancelled, stopping, issued, job>>
  BY DEF Begin, Goto, Unwind, Keeps, queueVars, WorkerInv, TypeOK
<1>2. job[w] \in accepted[w] /\ job[w] # 0
  BY <1>1 DEF WorkerInv, QueueInv, ItemsOf, PlaceOf, Active, TypeOK
<1>3. /\ Coming(w) # <<>> /\ Head(Coming(w)) = job[w] /\ Coming(w)' = Tail(Coming(w))
      /\ \E m \in 0..issued[w] : Backlog(w)' = m + 1..issued[w]
      /\ Backlog(w) = Backlog(w)' \cup {job[w]}
  BY <1>1, <1>2, OldestLeaves DEF NotBegun
<1>4. /\ Runs(w) = 0 /\ Runs(w)' = job[w]
      /\ AskedFor(w) = cancelled[w] /\ AskedFor(w)' = cancelled[w]
  BY <1>1 DEF Runs, Begun, AskedFor
<1>5. ~stopping[w] /\ job[w] \notin cancelled[w] BY <1>1 DEF Stopped
<1>6. OrderOf(w)'
  <2>1. OrderOf(w) BY DEF BoardInv
  <2>2. QED BY <1>1, <1>3, <2>1 DEF OrderOf, Begun
<1>7. EndsOf(w)' BY <1>1 DEF BoardInv, EndsOf
<1>8. \A v \in Worker : /\ v # w => Coming(v)' = Coming(v) /\ Runs(v)' = Runs(v)
                        /\ AskedFor(v)' = AskedFor(v)
  BY <1>4 DEF Still
<1>9. Board!Begin(w)
  BY <1>1, <1>3, <1>4, <1>5, <1>8, Zenon DEF Board!Begin
<1>10. QED BY <1>6, <1>7, <1>9

LEMMA EndedTyped ==
  ASSUME NEW S, ended \in [Worker -> Seq(S)], NEW w \in Worker, NEW x \in S,
         ended' = [ended EXCEPT ![w] = Append(@, x)]
  PROVE  /\ ended' \in [Worker -> Seq(S)] /\ ended'[w] = Append(ended[w], x)
         /\ \A v \in Worker \ {w} : ended'[v] = ended[v]
<1>1. ended[w] \in Seq(S) OBVIOUS
<1>2. Append(ended[w], x) \in Seq(S) BY <1>1, AppendProperties
<1>3. QED BY <1>2, Zenon

LEMMA ReportMaps ==
  ASSUME WorkerInv, BoardInv, NEW w \in Worker, Report(w),
         ended' = [ended EXCEPT ![w] = Append(@, <<job[w], result[w]>>)],
         \A v \in Worker \ {w} : Still(v)
  PROVE  /\ Board!Drop(w) \/ Board!Finish(w)
         /\ OrderOf(w)' /\ EndsOf(w)' /\ ended' \in [Worker -> Seq(Nat \X Results)]
<1>1. /\ pc[w] \in {"refuse", "report"} /\ pc'[w] = "clear"
      /\ UNCHANGED <<jobs, accepted, cancelled, stopping, issued, job>>
  BY DEF Report, Goto, queueVars, WorkerInv, TypeOK
<1>2. /\ job[w] \in accepted[w] /\ job[w] # 0 /\ job[w] \in 1..issued[w]
      /\ result[w] \in {"cancelled", "error", "completed"}
      /\ pc[w] = "refuse" => result[w] \in {"cancelled", "error"}
      /\ result[w] = "cancelled" => job[w] \in cancelled[w] \/ stopping[w]
  <2>1. PlaceOf(w) /\ ItemsOf(w) BY DEF WorkerInv, QueueInv
  <2>2. EndsOf(w) BY DEF BoardInv
  <2>3. result[w] \in Results BY DEF WorkerInv, TypeOK, Results
  <2>4. QED BY <1>1, <2>1, <2>2, <2>3 DEF PlaceOf, ItemsOf, Active, EndsOf, Stopped, Results
<1>3. job[w] \in Nat /\ issued[w] \in Nat BY DEF WorkerInv, TypeOK
<1>4. /\ ended' \in [Worker -> Seq(Nat \X Results)] /\ ended'[w] = Append(ended[w], <<job[w], result[w]>>)
      /\ ended \in [Worker -> Seq(Nat \X Results)]
  <2>1. <<job[w], result[w]>> \in Nat \X Results BY <1>2, <1>3 DEF Results
  <2>2. ended \in [Worker -> Seq(Nat \X Results)] BY DEF BoardInv
  <2>3. QED BY <2>1, <2>2, EndedTyped
<1>5. EndsOf(w)'
  <2>1. \A i \in 1..Len(ended[w]) : ended[w][i][1] \in 0..issued[w] BY DEF BoardInv, EndsOf
  <2>2. \A i \in 1..Len(ended'[w]) : ended'[w][i][1] \in 0..issued[w]
    <3>1. ended[w] \in Seq(Nat \X Results) BY <1>4
    <3>2. QED BY <1>2, <1>3, <1>4, <2>1, <3>1
  <2>3. QED BY <1>1, <2>2 DEF EndsOf
<1>6. AskedFor(w) = cancelled[w] /\ AskedFor(w)' = cancelled[w] \ {job[w]} BY <1>1 DEF AskedFor
<1>7. ~NotBegun(w)' /\ ~Begun(w)' /\ Runs(w)' = 0 BY <1>1 DEF NotBegun, Begun, Runs
<1>8. [v \in Worker |-> AskedFor(v)']
        = [[v \in Worker |-> AskedFor(v)] EXCEPT ![w] = @ \ {job[w]}]
  BY <1>6 DEF Still
<1>9. CASE pc[w] = "refuse"
  <2>1. /\ Coming(w) # <<>> /\ Head(Coming(w)) = job[w] /\ Coming(w)' = Tail(Coming(w))
        /\ \E m \in 0..issued[w] : Backlog(w)' = m + 1..issued[w]
        /\ Backlog(w) = Backlog(w)' \cup {job[w]}
    BY <1>1, <1>2, <1>7, <1>9, OldestLeaves DEF NotBegun
  <2>2. Runs(w) = 0 /\ ~Begun(w) BY <1>9 DEF Runs, Begun
  <2>3. OrderOf(w)'
    <3>1. OrderOf(w) BY DEF BoardInv
    <3>2. QED BY <1>1, <1>9, <2>1, <2>2, <3>1 DEF OrderOf
  <2>4. Board!End(w, job[w], result[w]) BY <1>1, <1>2, <1>6, <1>8, Zenon DEF Board!End
  <2>5. [v \in Worker |-> Coming(v)'] = [[v \in Worker |-> Coming(v)] EXCEPT ![w] = Tail(@)]
    BY <2>1 DEF Still
  <2>6. [v \in Worker |-> Runs(v)'] = [v \in Worker |-> Runs(v)]
    BY <1>7, <2>2 DEF Still
  <2>7. Board!Drop(w) BY <1>2, <1>9, <2>1, <2>2, <2>4, <2>5, <2>6, Zenon DEF Board!Drop
  <2>8. QED BY <1>4, <1>5, <2>3, <2>7
<1>10. CASE pc[w] = "report"
  <2>1. Backlog(w)' = Backlog(w) /\ Runs(w) = job[w] BY <1>1, <1>10 DEF Backlog, NotBegun, Runs, Begun
  <2>2. Coming(w)' = Coming(w) BY <1>1, <2>1 DEF Coming
  <2>3. OrderOf(w)'
    <3>1. OrderOf(w) BY DEF BoardInv
    <3>2. QED BY <1>1, <1>10, <2>1, <3>1 DEF OrderOf, Begun
  <2>4. Board!End(w, job[w], result[w]) BY <1>1, <1>2, <1>6, <1>8, Zenon DEF Board!End
  <2>5. [v \in Worker |-> Coming(v)'] = [v \in Worker |-> Coming(v)] BY <2>2 DEF Still
  <2>6. [v \in Worker |-> Runs(v)'] = [[v \in Worker |-> Runs(v)] EXCEPT ![w] = 0]
    BY <1>7 DEF Still
  <2>7. Board!Finish(w) BY <1>2, <2>1, <2>4, <2>5, <2>6, Zenon DEF Board!Finish
  <2>8. QED BY <1>4, <1>5, <2>3, <2>7
<1>11. QED BY <1>1, <1>9, <1>10

LEMMA ClearStill ==
  ASSUME WorkerInv, BoardInv, NEW w \in Worker, Clear(w), ended' = ended
  PROVE  Still(w) /\ OrderOf(w)' /\ EndsOf(w)' /\ stopping' = stopping
<1>1. /\ pc[w] = "clear" /\ pc'[w] = "observe" /\ accepted'[w] = accepted[w] \ {job[w]}
      /\ cancelled'[w] = cancelled[w] \ {job[w]} /\ UNCHANGED <<jobs, stopping, issued, job>>
  BY DEF Clear, Goto, Unwind, WorkerInv, TypeOK
<1>2. Backlog(w)' = Backlog(w) BY <1>1 DEF Backlog, NotBegun
<1>3. Coming(w)' = Coming(w) BY <1>1, <1>2 DEF Coming
<1>4. Runs(w)' = Runs(w) /\ AskedFor(w)' = AskedFor(w) BY <1>1 DEF Runs, Begun, AskedFor
<1>5. OrderOf(w)'
  <2>1. OrderOf(w) BY DEF BoardInv
  <2>2. QED BY <1>1, <1>2, <2>1 DEF OrderOf, Begun
<1>6. EndsOf(w)' BY <1>1 DEF BoardInv, EndsOf
<1>7. QED BY <1>1, <1>3, <1>4, <1>5, <1>6 DEF Still

\* The board's queue holds what waits.
LEMMA ComingHolds ==
  ASSUME WorkerInv, BoardInv, NEW w \in Worker
  PROVE  /\ Board!Elements(Coming(w)) = Backlog(w) /\ Backlog(w) \subseteq 1..issued[w]
         /\ Board!Open(w) = Backlog(w) \cup ({Runs(w)} \ {0})
<1>1. OrderOf(w) /\ issued[w] \in Nat BY DEF BoardInv, WorkerInv, TypeOK
<1>2. PICK m \in 0..issued[w] : Backlog(w) = m + 1..issued[w] BY <1>1 DEF OrderOf
<1>3. Coming(w) = From(m, issued[w] - m) BY <1>1, <1>2, ComingIs
<1>4. m \in Nat /\ issued[w] - m \in Nat BY <1>1
<1>5. /\ Len(Coming(w)) = issued[w] - m
      /\ \A i \in 1..issued[w] - m : Coming(w)[i] = m + i
  <2>1. /\ Len(From(m, issued[w] - m)) = issued[w] - m
        /\ \A i \in 1..issued[w] - m : From(m, issued[w] - m)[i] = m + i
    BY <1>4, FromTyped
  <2>2. QED BY <1>3, <2>1
<1>6. \A j : j \in Board!Elements(Coming(w)) <=> j \in m + 1..issued[w]
  <2>1. ASSUME NEW i \in 1..issued[w] - m PROVE m + i \in m + 1..issued[w] BY <1>1
  <2>2. ASSUME NEW j \in m + 1..issued[w] PROVE j - m \in 1..issued[w] - m /\ m + (j - m) = j BY <1>1
  <2>3. \A j : j \in Board!Elements(Coming(w)) <=> \E i \in 1..issued[w] - m : j = m + i
    <3>1. Board!Elements(Coming(w)) = {Coming(w)[i] : i \in 1..issued[w] - m} BY <1>5 DEF Board!Elements
    <3>2. QED BY <1>5, <3>1
  <2>4. QED BY <2>1, <2>2, <2>3
<1>7. Board!Elements(Coming(w)) = Backlog(w) BY <1>2, <1>6
<1>8. Board!Open(w) = Backlog(w) \cup ({Runs(w)} \ {0}) BY <1>7 DEF Board!Open
<1>9. QED BY <1>1, <1>2, <1>7, <1>8

LEMMA SubmitMaps ==
  ASSUME WorkerInv, BoardInv, NEW w \in Worker, Submit(w), ended' = ended,
         \A v \in Worker \ {w} : Still(v)
  PROVE  Board!Accept(w, issued'[w]) /\ OrderOf(w)' /\ EndsOf(w)'
<1> DEFINE x == JobItem(issued'[w])
<1>1. /\ ~stopping[w] /\ issued'[w] = issued[w] + 1 /\ issued[w] \in Nat
      /\ accepted'[w] = accepted[w] \cup {issued'[w]} /\ jobs'[w] = Append(jobs[w], x)
      /\ UNCHANGED <<cancelled, stopping, job, result>>
      /\ pc'[w] = IF pc[w] = "unborn" THEN "get" ELSE pc[w]
  BY DEF Submit, WorkerInv, TypeOK
<1>2. x \in Item /\ x.kind = "job" /\ x.id = issued[w] + 1 BY <1>1 DEF Item, JobItem
<1> HIDE DEF x
<1>3. jobs[w] \in Seq(Item) /\ JobsIn(jobs[w]) \subseteq Nat BY JobsTyped
<1>4. OrderOf(w) /\ job[w] \in 0..issued[w] BY DEF BoardInv, WorkerInv, QueueInv, ItemsOf
<1>5. PICK m \in 0..issued[w] : Backlog(w) = m + 1..issued[w] BY <1>4 DEF OrderOf
<1>6. \A j \in JobsIn(jobs[w]) : j < issued[w] + 1 BY <1>1, <1>5 DEF Backlog
<1>7. JobsIn(jobs'[w]) = JobsIn(jobs[w]) \cup {issued[w] + 1} /\ Ascends(jobs'[w])
  BY <1>1, <1>2, <1>3, <1>4, <1>6, JobsAppend DEF OrderOf
<1>8. NotBegun(w)' = NotBegun(w) /\ Begun(w)' = Begun(w) /\ (pc'[w] = "clear") = (pc[w] = "clear")
  BY <1>1 DEF NotBegun, Begun
<1>9. Backlog(w)' = Backlog(w) \cup {issued[w] + 1} BY <1>1, <1>7, <1>8 DEF Backlog
<1>10. Backlog(w)' = m + 1..issued'[w] /\ m \in 0..issued'[w]
  <2>1. \A j : j \in m + 1..issued[w] + 1 <=> j \in m + 1..issued[w] \/ j = issued[w] + 1 BY <1>1
  <2>2. QED BY <1>1, <1>5, <1>9, <2>1
<1>11. OrderOf(w)'
  <2>1. \A j \in JobsIn(jobs'[w]) : job'[w] < j BY <1>1, <1>4, <1>7 DEF OrderOf
  <2>2. QED BY <1>1, <1>4, <1>7, <1>8, <1>9, <1>10, <2>1 DEF OrderOf
<1>12. EndsOf(w)'
  <2>1. \A i \in 1..Len(ended[w]) : ended[w][i][1] \in 0..issued'[w] BY <1>1 DEF BoardInv, EndsOf
  <2>2. QED BY <1>1, <2>1 DEF BoardInv, EndsOf, Stopped
<1>13. Coming(w) = From(m, issued[w] - m) BY <1>1, <1>5, ComingIs
<1>14. Coming(w)' = From(m, (issued[w] - m) + 1)
  <2>1. Cardinality(m + 1..issued'[w]) = issued'[w] - m
    <3>1. m + 1 \in Int /\ issued'[w] \in Int BY <1>1
    <3>2. Cardinality(m + 1..issued'[w]) = IF m + 1 > issued'[w] THEN 0 ELSE (issued'[w] - (m + 1)) + 1
      BY <3>1, FS_Interval
    <3>3. QED BY <1>1, <3>2
  <2>2. issued'[w] - m = (issued[w] - m) + 1 /\ issued'[w] - (issued'[w] - m) = m BY <1>1
  <2>3. QED BY <1>10, <2>1, <2>2 DEF Coming, From
<1>15. Coming(w)' = Append(Coming(w), issued'[w])
  <2>1. m \in Nat /\ issued[w] - m \in Nat /\ m + (issued[w] - m) + 1 = issued'[w] BY <1>1
  <2>2. From(m, (issued[w] - m) + 1) = Append(From(m, issued[w] - m), m + (issued[w] - m) + 1)
    BY <2>1, FromAppend
  <2>3. QED BY <1>13, <1>14, <2>1, <2>2
<1>16. issued'[w] \notin Board!Open(w) \cup Board!Past(w)
  <2>1. issued'[w] \notin 0..issued[w] BY <1>1
  <2>2. Backlog(w) \subseteq 1..issued[w] /\ Board!Open(w) = Backlog(w) \cup ({Runs(w)} \ {0})
    BY ComingHolds
  <2>3. Runs(w) \in 0..issued[w] BY <1>1, <1>4 DEF Runs
  <2>4. \A i \in 1..Len(ended[w]) : ended[w][i][1] \in 0..issued[w] BY DEF BoardInv, EndsOf
  <2>5. Board!Past(w) \subseteq 0..issued[w] BY <2>4 DEF Board!Past
  <2>6. Board!Open(w) \subseteq 0..issued[w] BY <1>1, <2>2, <2>3
  <2>7. QED BY <2>1, <2>5, <2>6
<1>17. Runs(w)' = Runs(w) /\ AskedFor(w)' = AskedFor(w) BY <1>1, <1>8 DEF Runs, AskedFor
<1>18. [v \in Worker |-> Coming(v)'] = [[v \in Worker |-> Coming(v)] EXCEPT ![w] = Append(@, issued'[w])]
  BY <1>15 DEF Still
<1>19. /\ [v \in Worker |-> Runs(v)'] = [v \in Worker |-> Runs(v)]
       /\ [v \in Worker |-> AskedFor(v)'] = [v \in Worker |-> AskedFor(v)]
  BY <1>17 DEF Still
<1>20. Board!Accept(w, issued'[w]) BY <1>1, <1>16, <1>18, <1>19, Zenon DEF Board!Accept
<1>21. QED BY <1>11, <1>12, <1>20

LEMMA CancelMaps ==
  ASSUME WorkerInv, BoardInv, NEW w \in Worker, NEW j, Cancel(w, j), ended' = ended,
         \A v \in Worker \ {w} : Still(v)
  PROVE  /\ (j \in Board!Open(w) /\ Board!Ask(w, j)) \/ (Still(w) /\ stopping' = stopping)
         /\ OrderOf(w)' /\ EndsOf(w)'
<1>1. /\ j \in accepted[w] /\ cancelled'[w] = cancelled[w] \cup {j}
      /\ UNCHANGED <<jobs, accepted, stopping, issued, pc, job, result>>
  BY DEF Cancel, threadVars, WorkerInv, TypeOK
<1>2. SameStage(w) BY <1>1 DEF SameStage, NotBegun, Begun
<1>3. OrderOf(w)' /\ Coming(w)' = Coming(w) /\ Runs(w)' = Runs(w)
  BY <1>1, <1>2, StageStill DEF BoardInv, OrderOf
<1>4. EndsOf(w)' BY <1>1 DEF BoardInv, EndsOf, Stopped
<1>5. CASE pc[w] = "clear" /\ j = job[w]
  <2>1. AskedFor(w)' = AskedFor(w) BY <1>1, <1>5 DEF AskedFor
  <2>2. QED BY <1>1, <1>3, <1>4, <2>1 DEF Still
<1>6. CASE ~(pc[w] = "clear" /\ j = job[w])
  <2>1. AskedFor(w)' = AskedFor(w) \cup {j} BY <1>1, <1>6 DEF AskedFor
  <2>2. j \in Board!Open(w)
    <3>1. j \in Backlog(w) \/ (Begun(w) /\ j = job[w]) BY <1>1, <1>6 DEF BoardInv, OrderOf
    <3>2. j # 0 BY <1>1 DEF WorkerInv, QueueInv, ItemsOf
    <3>3. Board!Open(w) = Backlog(w) \cup ({Runs(w)} \ {0}) BY ComingHolds
    <3>4. QED BY <3>1, <3>2, <3>3 DEF Runs
  <2>3. [v \in Worker |-> AskedFor(v)'] = [[v \in Worker |-> AskedFor(v)] EXCEPT ![w] = @ \cup {j}]
    BY <2>1 DEF Still
  <2>4. /\ [v \in Worker |-> Runs(v)'] = [v \in Worker |-> Runs(v)]
        /\ [v \in Worker |-> Coming(v)'] = [v \in Worker |-> Coming(v)]
    BY <1>3 DEF Still
  <2>5. Board!Ask(w, j) BY <1>1, <2>2, <2>3, <2>4, Zenon DEF Board!Ask
  <2>6. QED BY <1>3, <1>4, <2>2, <2>5
<1>7. QED BY <1>5, <1>6

LEMMA QueueGrows ==
  ASSUME WorkerInv, BoardInv, NEW w \in Worker, NEW x \in Item, x.kind # "job",
         jobs'[w] = Append(jobs[w], x),
         UNCHANGED <<accepted, cancelled, issued, job, result, ended>>,
         pc'[w] = pc[w] \/ (pc[w] = "unborn" /\ pc'[w] = "get"),
         stopping[w] => stopping'[w]
  PROVE  Still(w) /\ OrderOf(w)' /\ EndsOf(w)'
<1>1. SameStage(w) BY DEF SameStage, NotBegun, Begun
<1>2. JobsIn(jobs'[w]) = JobsIn(jobs[w]) /\ Ascends(jobs'[w])
  <2>1. jobs[w] \in Seq(Item) /\ Ascends(jobs[w]) BY JobsTyped DEF BoardInv, OrderOf
  <2>2. QED BY <2>1, JobsAppend
<1>3. EndsOf(w)' BY DEF BoardInv, EndsOf, Stopped
<1>4. QED BY <1>1, <1>2, <1>3, StageStill

LEMMA BoardStill ==
  ASSUME \A v \in Worker : Still(v), stopping' = stopping, ended' = ended
  PROVE  UNCHANGED Board!board
<1>1. /\ [v \in Worker |-> Coming(v)'] = [v \in Worker |-> Coming(v)]
      /\ [v \in Worker |-> Runs(v)'] = [v \in Worker |-> Runs(v)]
      /\ [v \in Worker |-> AskedFor(v)'] = [v \in Worker |-> AskedFor(v)]
  BY DEF Still
<1>2. QED BY <1>1, Zenon DEF Board!board

LEMMA ThreadMaps ==
  ASSUME WorkerInv, BoardInv, NEW w \in Worker, Thread(w), \A v \in Worker \ {w} : Still(v),
         ended' = IF Reports(w) THEN [ended EXCEPT ![w] = Append(@, <<job[w], result[w]>>)] ELSE ended
  PROVE  /\ Board!Begin(w) \/ Board!Drop(w) \/ Board!Finish(w) \/ UNCHANGED Board!board
         /\ OrderOf(w)' /\ EndsOf(w)' /\ ended' \in [Worker -> Seq(Nat \X Results)]
<1>1. ended \in [Worker -> Seq(Nat \X Results)] /\ pc \in [Worker -> Places]
  BY DEF BoardInv, WorkerInv, TypeOK
<1>2. CASE Report(w)
  <2>1. Reports(w) BY <1>1, <1>2 DEF Report, Reports, Goto
  <2>2. QED BY <1>2, <2>1, ReportMaps
<1>3. CASE Get(w)
  <2>1. ~Reports(w) BY <1>3 DEF Get, Reports
  <2>2. QED BY <1>1, <1>3, <2>1, GetStill, BoardStill
<1>4. CASE Clear(w)
  <2>1. ~Reports(w) BY <1>4 DEF Clear, Reports
  <2>2. QED BY <1>1, <1>4, <2>1, ClearStill, BoardStill
<1>5. CASE Begin(w) /\ pc'[w] = "work"
  <2>1. ~Reports(w) BY <1>5 DEF Reports
  <2>2. QED BY <1>1, <1>5, <2>1, BeginMaps
<1>6. CASE \/ Take(w) \/ (Begin(w) /\ pc'[w] # "work") \/ SeesStop(w) \/ Raise(w) \/ Ask(w) \/ Post(w)
           \/ TakeAnswer(w) \/ StopAsking(w) \/ Act(w) \/ Reply(w) \/ Finish(w) \/ Release(w) \/ Close(w)
  <2>1. Inside(w) BY <1>6, InsideSteps
  <2>2. ~Reports(w) BY <2>1 DEF Inside, Reports
  <2>3. QED BY <1>1, <2>1, <2>2, InsideStill, BoardStill
<1>7. QED BY <1>2, <1>3, <1>4, <1>5, <1>6 DEF Thread

LEMMA ClientMaps ==
  ASSUME WorkerInv, BoardInv, NEW w \in Worker, Client(w), \A v \in Worker \ {w} : Still(v),
         ended' = IF Reports(w) THEN [ended EXCEPT ![w] = Append(@, <<job[w], result[w]>>)] ELSE ended
  PROVE  /\ \/ \E j \in UNION {1..MaxJobs[v] : v \in Worker} : Board!Accept(w, j)
            \/ \E j \in Board!Open(w) : Board!Ask(w, j)
            \/ Board!Close(w) \/ UNCHANGED Board!board
         /\ OrderOf(w)' /\ EndsOf(w)' /\ ended' \in [Worker -> Seq(Nat \X Results)]
<1>1. /\ ended \in [Worker -> Seq(Nat \X Results)] /\ pc \in [Worker -> Places]
      /\ issued \in [Worker -> Nat] /\ stopping \in [Worker -> BOOLEAN]
  BY DEF BoardInv, WorkerInv, TypeOK
<1>2. ended' = ended
  <2>1. pc'[w] = pc[w] \/ pc'[w] = "get"
    BY <1>1 DEF Client, Submit, AddControl, Stop, Drain, Cancel, Respond, threadVars
  <2>2. ~Reports(w) BY <2>1 DEF Reports
  <2>3. QED BY <2>2
<1>3. CASE Submit(w)
  <2>1. Board!Accept(w, issued'[w]) /\ OrderOf(w)' /\ EndsOf(w)' BY <1>2, <1>3, SubmitMaps
  <2>2. issued'[w] \in 1..MaxJobs[w]
    <3>1. issued'[w] = issued[w] + 1 /\ issued[w] < MaxJobs[w] BY <1>1, <1>3 DEF Submit
    <3>2. MaxJobs[w] \in Nat /\ issued[w] \in Nat BY <1>1, WorkerAssumption
    <3>3. QED BY <3>1, <3>2
  <2>3. issued'[w] \in UNION {1..MaxJobs[v] : v \in Worker} BY <2>2
  <2>4. QED BY <1>1, <1>2, <2>1, <2>3
<1>4. ASSUME NEW j, Cancel(w, j)
      PROVE  /\ (j \in Board!Open(w) /\ Board!Ask(w, j)) \/ UNCHANGED Board!board
             /\ OrderOf(w)' /\ EndsOf(w)'
  BY <1>2, <1>4, CancelMaps, BoardStill
<1>5. CASE Stop(w)
  <2>1. /\ jobs'[w] = Append(jobs[w], StopItem) /\ StopItem \in Item /\ StopItem.kind # "job"
        /\ UNCHANGED <<accepted, cancelled, issued, job, result, pc>>
        /\ stopping' = [stopping EXCEPT ![w] = TRUE] /\ stopping'[w]
    BY <1>1, <1>5 DEF Stop, threadVars, WorkerInv, TypeOK, StopItem, Item
  <2>2. Still(w) /\ OrderOf(w)' /\ EndsOf(w)' BY <1>2, <2>1, QueueGrows
  <2>3. /\ [v \in Worker |-> Coming(v)'] = [v \in Worker |-> Coming(v)]
        /\ [v \in Worker |-> Runs(v)'] = [v \in Worker |-> Runs(v)]
        /\ [v \in Worker |-> AskedFor(v)'] = [v \in Worker |-> AskedFor(v)]
    BY <2>2 DEF Still
  <2>4. Board!Close(w) BY <1>2, <2>1, <2>3, Zenon DEF Board!Close
  <2>5. QED BY <1>1, <1>2, <2>2, <2>4
<1>6. CASE AddControl(w)
  <2>1. /\ jobs'[w] = Append(jobs[w], Control) /\ Control \in Item /\ Control.kind # "job"
        /\ UNCHANGED <<accepted, cancelled, issued, job, result, stopping>>
        /\ pc'[w] = IF pc[w] = "unborn" THEN "get" ELSE pc[w]
    BY <1>1, <1>6 DEF AddControl, WorkerInv, TypeOK, Control, Item
  <2>2. Still(w) /\ OrderOf(w)' /\ EndsOf(w)' BY <1>2, <2>1, QueueGrows
  <2>3. UNCHANGED Board!board BY <1>2, <2>1, <2>2, BoardStill
  <2>4. QED BY <1>1, <1>2, <2>2, <2>3
<1>7. ASSUME Drain(w) \/ \E a \in 1..MaxApprovals, d \in BOOLEAN : Respond(w, a, d)
      PROVE  UNCHANGED Board!board /\ OrderOf(w)' /\ EndsOf(w)'
  <2>1. Apart(w) /\ stopping' = stopping BY <1>7 DEF Drain, Respond, queueVars, threadVars, Apart
  <2>2. QED BY <1>2, <2>1, ApartStill, BoardStill
<1>8. QED BY <1>1, <1>2, <1>3, <1>4, <1>5, <1>6, <1>7 DEF Client

LEMMA BoardStep ==
  ASSUME WorkerInv, BoardInv, JobsNext
  PROVE  BoardInv' /\ (Board!Next \/ UNCHANGED Board!board)
<1>1. PICK w \in Worker :
        /\ Thread(w) \/ Client(w)
        /\ ended' = IF Reports(w) THEN [ended EXCEPT ![w] = Append(@, <<job[w], result[w]>>)] ELSE ended
  BY DEF JobsNext
<1>2. \A v \in Worker \ {w} : Still(v) /\ OrderOf(v)' /\ EndsOf(v)'
  <2> SUFFICES ASSUME NEW v \in Worker \ {w} PROVE Still(v) /\ OrderOf(v)' /\ EndsOf(v)'
    OBVIOUS
  <2>1. ended'[v] = ended[v] BY <1>1 DEF BoardInv
  <2>2. QED BY <1>1, <2>1, OthersApart, ApartStill
<1>3. \A v \in Worker \ {w} : Still(v) BY <1>2
<1>4. CASE Thread(w)
  <2>1. /\ Board!Begin(w) \/ Board!Drop(w) \/ Board!Finish(w) \/ UNCHANGED Board!board
        /\ OrderOf(w)' /\ EndsOf(w)' /\ ended' \in [Worker -> Seq(Nat \X Results)]
    BY <1>1, <1>3, <1>4, ThreadMaps
  <2>2. BoardInv' BY <1>2, <2>1 DEF BoardInv
  <2>3. QED BY <2>1, <2>2 DEF Board!Next
<1>5. CASE Client(w)
  <2>1. /\ \/ \E j \in UNION {1..MaxJobs[v] : v \in Worker} : Board!Accept(w, j)
           \/ \E j \in Board!Open(w) : Board!Ask(w, j)
           \/ Board!Close(w) \/ UNCHANGED Board!board
        /\ OrderOf(w)' /\ EndsOf(w)' /\ ended' \in [Worker -> Seq(Nat \X Results)]
    BY <1>1, <1>3, <1>5, ClientMaps
  <2>2. BoardInv' BY <1>2, <2>1 DEF BoardInv
  <2>3. QED BY <2>1, <2>2 DEF Board!Next
<1>6. QED BY <1>1, <1>4, <1>5

LEMMA BoardInit ==
  ASSUME JobsInit
  PROVE  BoardInv /\ Board!Init
<1>1. \A w \in Worker :
        /\ jobs[w] = <<>> /\ job[w] = 0 /\ issued[w] = 0 /\ accepted[w] = {} /\ cancelled[w] = {}
        /\ pc[w] \in {"unborn", "get"} /\ ended[w] = <<>>
  BY DEF JobsInit, WorkerInit
<1>2. ended \in [Worker -> Seq(Nat \X Results)]
  <2>1. <<>> \in Seq(Nat \X Results) OBVIOUS
  <2>2. QED BY <2>1, Zenon DEF JobsInit
<1>3. \A w \in Worker : Backlog(w) = {}
  BY <1>1 DEF Backlog, NotBegun, JobsIn
<1>4. \A w \in Worker : OrderOf(w) /\ EndsOf(w)
  <2> SUFFICES ASSUME NEW w \in Worker PROVE OrderOf(w) /\ EndsOf(w)
    OBVIOUS
  <2>1. 0 \in 0..issued[w] /\ Backlog(w) = 0 + 1..issued[w]
    <3>1. issued[w] = 0 /\ 0 \in 0..0 BY <1>1
    <3>2. \A j : j \notin 0 + 1..0 OBVIOUS
    <3>3. Backlog(w) = {} BY <1>3
    <3>4. QED BY <3>1, <3>2, <3>3
  <2>2. QED BY <1>1, <2>1 DEF OrderOf, EndsOf, Ascends, JobsIn
<1>5. \A w \in Worker : Coming(w) = <<>> /\ Runs(w) = 0 /\ AskedFor(w) = {}
  <2> SUFFICES ASSUME NEW w \in Worker PROVE Coming(w) = <<>> /\ Runs(w) = 0 /\ AskedFor(w) = {}
    OBVIOUS
  <2>1. Cardinality(Backlog(w)) = 0 BY <1>3, FS_EmptySet
  <2>2. QED BY <1>1, <2>1 DEF Coming, Runs, Begun, AskedFor
<1>6. Board!Init BY <1>5 DEF Board!Init, JobsInit, WorkerInit
<1>7. QED BY <1>2, <1>4, <1>6 DEF BoardInv

(* Every step of a worker is one of JobBoard or changes nothing it can see:  *)
(* jobs begin in the order they were accepted and one at a time, each ends   *)
(* once, and only a job somebody asked to stop, or one of a worker that is   *)
(* stopping, ends cancelled; asked before it began, it never begins.         *)
THEOREM JobsAreOnBoard == JobsSpec => ImplementsBoard
<1>1. JobsInit => WorkerInv /\ BoardInv /\ Board!Init
  BY WorkerInitInv, BoardInit DEF JobsInit
<1>2. WorkerInv /\ BoardInv /\ [JobsNext]_jobsVars => (WorkerInv /\ BoardInv)' /\ [Board!Next]_Board!board
  <2> SUFFICES ASSUME WorkerInv, BoardInv, [JobsNext]_jobsVars
               PROVE  (WorkerInv /\ BoardInv)' /\ [Board!Next]_Board!board
    OBVIOUS
  <2>1. WorkerInv' BY WorkerNextInv DEF JobsNext, WorkerNext, jobsVars
  <2>2. CASE JobsNext BY <2>1, <2>2, BoardStep
  <2>3. CASE UNCHANGED jobsVars
    <3>1. ended' = ended /\ stopping' = stopping /\ \A v \in Worker : Apart(v)
      BY <2>3 DEF jobsVars, workerVars, queueVars, threadVars, Apart
    <3>2. \A v \in Worker : Still(v) /\ OrderOf(v)' /\ EndsOf(v)' BY <3>1, ApartStill
    <3>3. BoardInv' BY <3>1, <3>2 DEF BoardInv
    <3>4. QED BY <2>1, <3>1, <3>2, <3>3, BoardStill
  <2>4. QED BY <2>2, <2>3
<1>3. QED BY <1>1, <1>2, PTL DEF JobsSpec, ImplementsBoard, Board!Spec

------------------------------------------------------------------------------
(* The chat: its screen, its answers to the supervisor, its messages.       *)

Calm == ~quitting /\ ~forgot /\ raised = {}
Live == Calm /\ turn # 0

Said(w) == Elements(events[w])
Is(e, j, kind) == e.job = j /\ e.kind = kind

(* The order of a job's events: after its reply only its end, after its     *)
(* question nothing, before a completed end its reply.                      *)
DoneLast(q) ==
  \A i, k \in 1..Len(q) : i < k /\ q[i].kind = "done" /\ q[k].job = q[i].job => q[k].kind \in Terminal

AskLast(q, j) ==
  \A i, k \in 1..Len(q) : i < k /\ Is(q[i], j, "approval_required") => q[k].job # j

DoneFirst(q, j) ==
  \A i \in 1..Len(q) : Is(q[i], j, "completed") => \E k \in 1..Len(q) : k < i /\ Is(q[k], j, "done")

(* A job that has replied: its thread only reports how it ends.             *)
Past(j) ==
  /\ j \notin JobsIn(jobs["turn"])
  /\ job["turn"] = j => pc["turn"] \in {"finishing", "report", "clear", "observe"}

(* What the threads did, whatever is on the screen.                         *)
Fits(e) ==
  /\ e.job \in 1..issued["turn"]
  /\ e.kind = "session_restored" => e.job \in resumes
  /\ e.kind = "done" => Past(e.job)

EventsFit == DoneLast(events["turn"]) /\ \A e \in Said("turn") : Fits(e)

CommandEventsFit ==
  \A e \in Said("command") : /\ e.job \in 1..issued["command"]
                             /\ e.kind \in {"result", "done"} \cup Terminal

ThreadsFit ==
  /\ pc["command"] \notin {"asked", "asking", "acting"}
  /\ pc["turn"] \in {"asked", "asking"} => job["turn"] \notin resumes
  /\ resumes \subseteq 1..issued["turn"] /\ turn \in 0..issued["turn"] /\ command \in 0..issued["command"]
  /\ \A w \in Worker : (stopping[w] => ~Calm) /\ (pc[w] = "refuse" => result[w] # "completed")

(* The phase while a task is under way: IDLE only after a /resume restored  *)
(* its session, DONE only once it has replied.                              *)
PhaseFits == Live => phase # "ERROR" /\ (phase = "IDLE" => turn \in resumes)

DoneFits ==
  Live /\ phase = "DONE" =>
    Past(turn) /\ \A e \in Said("turn") : e.job = turn => e.kind \in Terminal

StopFits == Live /\ phase # "STOPPING" => turn \notin cancelled["turn"] \ resumes

(* The task waits for the approval it asked for, whether that is still on   *)
(* its way or on the screen, and has nothing more to say meanwhile.         *)
Asks(a) == /\ job["turn"] = turn /\ pc["turn"] = "asking"
           /\ a # 0 /\ pending["turn"] = a /\ ~answered["turn"]

AskFits ==
  Live /\ phase # "STOPPING" =>
    /\ AskLast(events["turn"], turn)
    /\ \A e \in Said("turn") : Is(e, turn, "approval_required") => phase = "RUNNING" /\ Asks(e.approval)

ApprovalFits ==
  Calm /\ phase = "APPROVAL" => turn # 0 /\ Asks(shown) /\ \A e \in Said("turn") : e.job # turn

(* A job that completes has replied before: its reply is to be read, before *)
(* the end is.                                                              *)
Replied(w) == pc[w] = "finishing" \/ (pc[w] = "report" /\ result[w] = "completed")

Replies(w, j) ==
  /\ job[w] = j /\ Replied(w) => \E e \in Said(w) : Is(e, j, "done")
  /\ DoneFirst(events[w], j)

EndFits == Live /\ phase \notin {"DONE", "STOPPING"} => Replies("turn", turn)

(* A command that is shown like a task: the phase follows its events.       *)
CommandFits ==
  Calm =>
    /\ picker => command = 0
    /\ command # 0 /\ startedIdle =>
         /\ turn = 0 /\ phase \in {"RUNNING", "DONE"}
         /\ phase = "RUNNING" => Replies("command", command)

(* A chat that forgot its turn: it shows a task as running and has none.    *)
ForgotFits == forgot /\ ~quitting => turn = 0 /\ command = 0 /\ Busy

ThreadPart == WorkerInv /\ EventsFit /\ CommandEventsFit /\ ThreadsFit
TurnPart == PhaseFits /\ DoneFits /\ StopFits /\ AskFits /\ ApprovalFits /\ EndFits

Screen == ThreadPart /\ TurnPart /\ CommandFits /\ PhaseHasJob /\ OnlyPickRaises /\ ForgotFits
ScreenInv == Screen /\ ViewTypeOK

------------------------------------------------------------------------------
(* Sequences of events                                                      *)

LEMMA Appended ==
  ASSUME NEW T, NEW q \in Seq(T), NEW x \in T
  PROVE  /\ Len(q) \in Nat /\ Len(Append(q, x)) = Len(q) + 1 /\ Append(q, x)[Len(q) + 1] = x
         /\ \A i \in 1..Len(q) : Append(q, x)[i] = q[i]
         /\ Elements(Append(q, x)) = Elements(q) \cup {x}
<1>1. /\ Len(q) \in Nat /\ Len(Append(q, x)) = Len(q) + 1 /\ Append(q, x)[Len(q) + 1] = x
      /\ \A i \in 1..Len(q) : Append(q, x)[i] = q[i]
  OBVIOUS
<1>2. \A i : i \in 1..Len(Append(q, x)) <=> i \in 1..Len(q) \/ i = Len(q) + 1 BY <1>1
<1>3. \A e : e \in Elements(Append(q, x)) <=> e \in Elements(q) \cup {x} BY <1>1, <1>2 DEF Elements
<1>4. QED BY <1>1, <1>3

LEMMA Shifted ==
  ASSUME NEW T, NEW q \in Seq(T), q # <<>>
  PROVE  /\ Len(q) \in Nat \ {0} /\ Len(Tail(q)) = Len(q) - 1 /\ Head(q) = q[1] /\ Head(q) \in T
         /\ \A i \in 1..Len(q) - 1 : Tail(q)[i] = q[i + 1]
         /\ Elements(q) = Elements(Tail(q)) \cup {Head(q)}
<1>1. /\ Len(q) \in Nat \ {0} /\ Len(Tail(q)) = Len(q) - 1 /\ Head(q) = q[1] /\ Head(q) \in T
      /\ \A i \in 1..Len(q) - 1 : Tail(q)[i] = q[i + 1]
  OBVIOUS
<1>2. \A e \in Elements(q) : e \in Elements(Tail(q)) \cup {Head(q)}
  <2> SUFFICES ASSUME NEW i \in 1..Len(q) PROVE q[i] \in Elements(Tail(q)) \cup {Head(q)}
    BY DEF Elements
  <2>1. CASE i = 1 BY <1>1, <2>1
  <2>2. CASE i # 1
    <3>1. i - 1 \in 1..Len(Tail(q)) /\ Tail(q)[i - 1] = q[i] BY <1>1, <2>2
    <3>2. QED BY <3>1 DEF Elements
  <2>3. QED BY <2>1, <2>2
<1>3. \A i \in 1..Len(Tail(q)) : i + 1 \in 1..Len(q) /\ Tail(q)[i] = q[i + 1] BY <1>1
<1>4. \A e \in Elements(Tail(q)) : e \in Elements(q) BY <1>3 DEF Elements
<1>5. Head(q) \in Elements(q) BY <1>1 DEF Elements
<1>6. QED BY <1>1, <1>2, <1>4, <1>5

\* An event joins those that are not read yet.
LEMMA OrderAppend ==
  ASSUME NEW T, NEW q \in Seq(T), NEW x \in T
  PROVE  /\ DoneLast(q) /\ (\A e \in Elements(q) : e.kind = "done" /\ x.job = e.job => x.kind \in Terminal)
              => DoneLast(Append(q, x))
         /\ \A j : AskLast(q, j) /\ (x.job # j \/ \A e \in Elements(q) : ~Is(e, j, "approval_required"))
                     => AskLast(Append(q, x), j)
         /\ \A j : DoneFirst(q, j) /\ (Is(x, j, "completed") => \E e \in Elements(q) : Is(e, j, "done"))
                     => DoneFirst(Append(q, x), j)
<1> DEFINE s == Append(q, x)
<1>1. /\ Len(q) \in Nat /\ Len(s) = Len(q) + 1 /\ s[Len(q) + 1] = x
      /\ \A i \in 1..Len(q) : s[i] = q[i] /\ q[i] \in Elements(q)
  BY Appended DEF Elements
<1> HIDE DEF s
<1>2. \A i, k \in 1..Len(s) : i < k => /\ i \in 1..Len(q) /\ s[i] = q[i] /\ q[i] \in Elements(q)
                                        /\ \/ k \in 1..Len(q) /\ s[k] = q[k]
                                           \/ k = Len(q) + 1 /\ s[k] = x
  BY <1>1
<1>3. ASSUME DoneLast(q), \A e \in Elements(q) : e.kind = "done" /\ x.job = e.job => x.kind \in Terminal
      PROVE  DoneLast(s)
  BY <1>2, <1>3 DEF DoneLast
<1>4. ASSUME NEW j, AskLast(q, j), x.job # j \/ \A e \in Elements(q) : ~Is(e, j, "approval_required")
      PROVE  AskLast(s, j)
  BY <1>2, <1>4 DEF AskLast
<1>5. ASSUME NEW j, DoneFirst(q, j), Is(x, j, "completed") => \E e \in Elements(q) : Is(e, j, "done")
      PROVE  DoneFirst(s, j)
  <2> SUFFICES ASSUME NEW i \in 1..Len(s), Is(s[i], j, "completed")
               PROVE  \E k \in 1..Len(s) : k < i /\ Is(s[k], j, "done")
    BY DEF DoneFirst
  <2>1. \E k \in 1..Len(q) : k < i /\ Is(q[k], j, "done")
    <3>1. CASE i \in 1..Len(q) BY <1>1, <1>5, <3>1 DEF DoneFirst
    <3>2. CASE i = Len(q) + 1 BY <1>1, <1>5, <3>2 DEF Elements
    <3>3. QED BY <1>1, <3>1, <3>2
  <2>2. \A k \in 1..Len(q) : k \in 1..Len(s) /\ s[k] = q[k] BY <1>1
  <2>3. QED BY <2>1, <2>2
<1>6. QED BY <1>3, <1>4, <1>5 DEF s

\* The oldest event is read.
LEMMA OrderTail ==
  ASSUME NEW T, NEW q \in Seq(T), q # <<>>
  PROVE  /\ DoneLast(q) => /\ DoneLast(Tail(q))
                           /\ Head(q).kind = "done" =>
                                \A e \in Elements(Tail(q)) : e.job = Head(q).job => e.kind \in Terminal
         /\ \A j : AskLast(q, j) => /\ AskLast(Tail(q), j)
                                    /\ Is(Head(q), j, "approval_required") =>
                                         \A e \in Elements(Tail(q)) : e.job # j
         /\ \A j : DoneFirst(q, j) => /\ ~Is(Head(q), j, "completed")
                                      /\ ~Is(Head(q), j, "done") => DoneFirst(Tail(q), j)
<1> DEFINE s == Tail(q)
<1>1. /\ Len(q) \in Nat \ {0} /\ Len(s) = Len(q) - 1 /\ Head(q) = q[1]
      /\ \A i \in 1..Len(q) - 1 : s[i] = q[i + 1]
  BY Shifted
<1> HIDE DEF s
<1>2. \A i \in 1..Len(s) : i + 1 \in 1..Len(q) /\ s[i] = q[i + 1] /\ 1 < i + 1 BY <1>1
<1>3. \A i, k \in 1..Len(s) : i < k => i + 1 < k + 1 OBVIOUS
<1>4. 1 \in 1..Len(q) BY <1>1
<1>5. ASSUME DoneLast(q)
      PROVE  DoneLast(s) /\ (Head(q).kind = "done" =>
                               \A e \in Elements(s) : e.job = Head(q).job => e.kind \in Terminal)
  <2>1. DoneLast(s) BY <1>2, <1>3, <1>5 DEF DoneLast
  <2>2. ASSUME Head(q).kind = "done", NEW i \in 1..Len(s), s[i].job = Head(q).job PROVE s[i].kind \in Terminal
    BY <1>1, <1>2, <1>4, <1>5, <2>2 DEF DoneLast
  <2>3. QED BY <2>1, <2>2 DEF Elements
<1>6. ASSUME NEW j, AskLast(q, j)
      PROVE  AskLast(s, j) /\ (Is(Head(q), j, "approval_required") => \A e \in Elements(s) : e.job # j)
  <2>1. AskLast(s, j) BY <1>2, <1>3, <1>6 DEF AskLast
  <2>2. ASSUME Is(Head(q), j, "approval_required"), NEW i \in 1..Len(s) PROVE s[i].job # j
    BY <1>1, <1>2, <1>4, <1>6, <2>2 DEF AskLast
  <2>3. QED BY <2>1, <2>2 DEF Elements
<1>7. ASSUME NEW j, DoneFirst(q, j)
      PROVE  ~Is(Head(q), j, "completed") /\ (~Is(Head(q), j, "done") => DoneFirst(s, j))
  <2>1. ~Is(Head(q), j, "completed") BY <1>1, <1>4, <1>7 DEF DoneFirst
  <2>2. ASSUME ~Is(Head(q), j, "done"), NEW i \in 1..Len(s), Is(s[i], j, "completed")
        PROVE  \E k \in 1..Len(s) : k < i /\ Is(s[k], j, "done")
    <3>1. PICK k \in 1..Len(q) : k < i + 1 /\ Is(q[k], j, "done") BY <1>2, <1>7, <2>2 DEF DoneFirst
    <3>2. k # 1 BY <1>1, <2>2, <3>1
    <3>3. k - 1 \in 1..Len(s) /\ k - 1 < i /\ s[k - 1] = q[k] BY <1>1, <3>1, <3>2
    <3>4. QED BY <3>1, <3>3
  <2>3. QED BY <2>1, <2>2 DEF DoneFirst
<1>8. QED BY <1>5, <1>6, <1>7 DEF s

------------------------------------------------------------------------------
(* What the interface does to its workers                                   *)

LEMMA Workers == "turn" \in Worker /\ "command" \in Worker /\ Worker = {"turn", "command"}
  BY ViewAssumption

\* What the types say of a worker.
LEMMA WorkerTypes ==
  ASSUME WorkerInv, NEW w \in Worker
  PROVE  /\ jobs[w] \in Seq(Item) /\ events[w] \in Events
         /\ issued[w] \in Nat /\ job[w] \in 0..issued[w] /\ pc[w] \in Places /\ result[w] \in Results
         /\ approvals[w] \in Nat /\ pending[w] \in Nat /\ cancelled[w] \subseteq 1..issued[w]
<1>1. /\ jobs[w] \in Seq(Item) /\ events[w] \in Events
      /\ issued[w] \in Nat /\ pc[w] \in Places /\ result[w] \in Results
      /\ approvals[w] \in Nat /\ pending[w] \in Nat
  BY DEF WorkerInv, TypeOK, Item, Results, Events
<1>2. job[w] \in 0..issued[w] /\ accepted[w] \subseteq 1..issued[w] BY DEF WorkerInv, QueueInv, ItemsOf
<1>3. cancelled[w] \subseteq accepted[w] BY DEF WorkerInv, TypeOK
<1>4. QED BY <1>1, <1>2, <1>3

LEMMA JobsOfTail ==
  ASSUME NEW q \in Seq(Item), q # <<>>
  PROVE  /\ JobsIn(Tail(q)) \subseteq JobsIn(q)
         /\ Head(q).kind = "job" => Head(q).id \in JobsIn(q)
<1>1. /\ Len(q) \in Nat \ {0} /\ Len(Tail(q)) = Len(q) - 1 /\ Head(q) = q[1]
      /\ \A i \in 1..Len(q) - 1 : Tail(q)[i] = q[i + 1]
  OBVIOUS
<1>2. \A i \in 1..Len(q) - 1 : i + 1 \in 1..Len(q) BY <1>1
<1>3. 1 \in 1..Len(q) BY <1>1
<1>4. QED BY <1>1, <1>2, <1>3 DEF JobsIn

LEMMA StopAllKeeps ==
  ASSUME WorkerInv, StopAll, UNCHANGED <<approvals, pending>>,
         \/ UNCHANGED <<answered, answers>>
         \/ \E a \in Nat, d \in BOOLEAN : Gives("turn", a, d)
  PROVE  /\ WorkerInv' /\ JobsIn(jobs'["turn"]) = JobsIn(jobs["turn"])
         /\ UNCHANGED <<accepted, cancelled, issued, pc, job, result, events>>
<1>1. /\ UNCHANGED <<accepted, cancelled, controls, issued, threadVars, events>>
      /\ UNCHANGED <<accepted, cancelled, issued, pc, job, result, events>>
  BY DEF StopAll, threadVars
<1>2. stopping' \in [Worker -> BOOLEAN] BY DEF StopAll
<1>3. StopItem \in Item /\ StopItem.kind # "job" BY DEF StopItem, Item
<1>4. \A w \in Worker : jobs[w] \in Seq(Item) /\ Append(jobs[w], StopItem) \in Seq(Item)
  BY <1>3, WorkerTypes, AppendProperties
<1>5. /\ jobs' = [w \in Worker |-> IF stopping[w] THEN jobs[w] ELSE Append(jobs[w], StopItem)]
      /\ \A w \in Worker : jobs'[w] \in {jobs[w], Append(jobs[w], StopItem)}
  BY DEF StopAll
<1>6. jobs' \in [Worker -> Seq(Item)]
  BY <1>4, <1>5, Zenon
<1>7. AnswerInv' /\ answered' \in [Worker -> BOOLEAN] /\ answers' \in [Worker -> Seq(Nat \X BOOLEAN)]
  <2>1. CASE UNCHANGED <<answered, answers>>
    <3>1. answered' \in [Worker -> BOOLEAN] /\ answers' \in [Worker -> Seq(Nat \X BOOLEAN)]
      BY <2>1 DEF WorkerInv, TypeOK
    <3>2. UNCHANGED <<pc, job, cancelled, approvals, pending>> BY <1>1
    <3>3. AnswerInv' BY <2>1, <3>2 DEF WorkerInv, AnswerInv, AnswersOf, Hits
    <3>4. QED BY <3>1, <3>3
  <2>2. ASSUME NEW a \in Nat, NEW d \in BOOLEAN, Gives("turn", a, d)
        PROVE  AnswerInv' /\ answered' \in [Worker -> BOOLEAN] /\ answers' \in [Worker -> Seq(Nat \X BOOLEAN)]
    <3>1. UNCHANGED <<pc, job, cancelled, approvals, pending>> BY <1>1
    <3>2. QED BY <2>2, <3>1, GivenKeeps, Workers
  <2>3. QED BY <2>1, <2>2
<1>8. WorkerInv' BY <1>1, <1>2, <1>5, <1>6, <1>7, StopsKeep
<1>9. JobsIn(jobs'["turn"]) = JobsIn(jobs["turn"])
  <2>1. JobsIn(Append(jobs["turn"], StopItem)) = JobsIn(jobs["turn"]) BY <1>3, <1>4, Workers, JobsAppend
  <2>2. QED BY <1>5, <2>1, Workers
<1>10. QED BY <1>1, <1>8, <1>9

\* A call: nothing is published, and the threads stay where they are.
Call == /\ UNCHANGED <<events, job, result>>
        /\ \A w \in Worker : /\ issued[w] <= issued'[w]
                             /\ pc'[w] = pc[w] \/ (pc[w] = "unborn" /\ pc'[w] = "get")
        /\ JobsIn(jobs'["turn"]) \subseteq JobsIn(jobs["turn"]) \cup (issued["turn"] + 1..issued'["turn"])

LEMMA CallFits ==
  ASSUME ThreadPart, WorkerInv', Call,
         resumes \subseteq resumes', resumes' \subseteq resumes \cup (issued["turn"] + 1..issued'["turn"]),
         turn' \in 0..issued'["turn"], command' \in 0..issued'["command"],
         \A w \in Worker : stopping'[w] => ~Calm'
  PROVE  ThreadPart' /\ \A j \in 1..issued["turn"] : Past(j) => Past(j)'
<1>1. /\ issued["turn"] \in Nat /\ issued'["turn"] \in Nat /\ issued["turn"] <= issued'["turn"]
      /\ issued["command"] \in Nat /\ issued'["command"] \in Nat /\ issued["command"] <= issued'["command"]
  <2>1. issued \in [Worker -> Nat] /\ issued' \in [Worker -> Nat] BY DEF ThreadPart, WorkerInv, TypeOK
  <2>2. QED BY <2>1, Workers DEF Call
<1>2. \A j \in 1..issued["turn"] : Past(j) => Past(j)'
  BY <1>1, Workers DEF Past, Call
<1>3. EventsFit'
  <2>1. \A e : Fits(e) => Fits(e)'
    <3> SUFFICES ASSUME NEW e, Fits(e) PROVE Fits(e)' OBVIOUS
    <3>1. e.job \in 1..issued["turn"] /\ e.job \in 1..issued'["turn"] BY <1>1 DEF Fits
    <3>2. QED BY <1>2, <3>1 DEF Fits
  <2>2. QED BY <2>1 DEF ThreadPart, EventsFit, Said, Call
<1>4. CommandEventsFit' BY <1>1 DEF ThreadPart, CommandEventsFit, Said, Call
<1>5. ThreadsFit'
  <2>1. /\ pc["turn"] \in {"asked", "asking"} => job["turn"] \notin resumes
        /\ job["turn"] \in 0..issued["turn"]
    BY Workers, WorkerTypes DEF ThreadPart, ThreadsFit
  <2>2. pc'["turn"] \in {"asked", "asking"} => job'["turn"] \notin resumes'
    BY <1>1, <2>1, Workers DEF Call
  <2>3. resumes' \subseteq 1..issued'["turn"]
    BY <1>1 DEF ThreadPart, ThreadsFit
  <2>4. pc'["command"] \notin {"asked", "asking", "acting"}
    BY Workers DEF ThreadPart, ThreadsFit, Call
  <2>5. \A w \in Worker : pc'[w] = "refuse" => result'[w] # "completed" BY DEF ThreadPart, ThreadsFit, Call
  <2>6. QED BY <2>2, <2>3, <2>4, <2>5 DEF ThreadsFit
<1>6. QED BY <1>2, <1>3, <1>4, <1>5 DEF ThreadPart

------------------------------------------------------------------------------
(* What a step leaves alone                                                 *)

LEMMA TurnGone ==
  ASSUME ~Calm' \/ (turn' = 0 /\ phase' # "APPROVAL")
  PROVE  TurnPart'
  BY DEF TurnPart, PhaseFits, DoneFits, StopFits, AskFits, ApprovalFits, EndFits, Live

LEMMA TurnStopping ==
  ASSUME phase' = "STOPPING"
  PROVE  TurnPart'
  BY DEF TurnPart, PhaseFits, DoneFits, StopFits, AskFits, ApprovalFits, EndFits, Live

LEMMA CommandGone ==
  ASSUME ~Calm' \/ command' = 0
  PROVE  CommandFits'
  BY DEF CommandFits

LEMMA TurnStays ==
  ASSUME ThreadPart, TurnPart, Calm' => Calm, UNCHANGED <<turn, shown, resumes>>,
         phase' = phase \/ (turn = 0 /\ phase' # "APPROVAL"),
         events'["turn"] = events["turn"], pc'["turn"] = pc["turn"], job'["turn"] = job["turn"],
         result'["turn"] = result["turn"], pending'["turn"] = pending["turn"],
         answered'["turn"] = answered["turn"], cancelled'["turn"] \subseteq cancelled["turn"],
         \A j \in 1..issued["turn"] : Past(j) => Past(j)'
  PROVE  TurnPart'
<1>1. CASE ~Calm' \/ (turn = 0 /\ phase' # "APPROVAL") BY <1>1, TurnGone
<1>2. CASE Calm' /\ phase' = phase
  <2>1. Calm /\ (Live' <=> Live) /\ Said("turn")' = Said("turn") BY <1>2 DEF Live, Said
  <2>2. \A a : Asks(a) => Asks(a)' BY DEF Asks
  <2>3. PhaseFits' BY <1>2, <2>1 DEF TurnPart, PhaseFits
  <2>4. DoneFits'
    <3>1. Live => turn \in 1..issued["turn"] BY DEF Live, ThreadPart, ThreadsFit
    <3>2. Live => (Past(turn) => Past(turn)') BY <3>1 DEF Past
    <3>3. QED BY <1>2, <2>1, <3>2 DEF TurnPart, DoneFits
  <2>5. StopFits' BY <1>2, <2>1 DEF TurnPart, StopFits
  <2>6. AskFits' BY <1>2, <2>1, <2>2 DEF TurnPart, AskFits
  <2>7. ApprovalFits' BY <1>2, <2>1, <2>2 DEF TurnPart, ApprovalFits
  <2>8. EndFits' BY <1>2, <2>1 DEF TurnPart, EndFits, Replies, Replied
  <2>9. QED BY <2>3, <2>4, <2>5, <2>6, <2>7, <2>8 DEF TurnPart
<1>3. QED BY <1>1, <1>2

LEMMA CommandStays ==
  ASSUME CommandFits, Calm' => Calm, UNCHANGED <<command, startedIdle>>, picker' => picker \/ command = 0,
         command # 0 /\ startedIdle /\ Calm' => UNCHANGED <<turn, phase>>,
         events'["command"] = events["command"], pc'["command"] = pc["command"],
         job'["command"] = job["command"], result'["command"] = result["command"]
  PROVE  CommandFits'
  BY DEF CommandFits, Replies, Replied, Said

------------------------------------------------------------------------------
(* What a thread says, and when                                             *)

Reporting == {"finishing", "report", "clear", "observe"}

Continues(w) ==
  /\ UNCHANGED <<stopping, issued>> /\ cancelled'[w] \subseteq cancelled[w]
  /\ JobsIn(jobs'[w]) \subseteq JobsIn(jobs[w])
  /\ \/ job'[w] = job[w] /\ (pc[w] \in Reporting => pc'[w] \in Reporting)
     \/ job'[w] \in JobsIn(jobs[w]) \cup {0}
  /\ pc'[w] \in {"asked", "asking"} =>
       job'[w] = job[w] /\ (pc'[w] = "asked" \/ pc[w] \in {"asked", "asking"})
  /\ pc'[w] = "acting" => pc[w] \in {"asking", "acting"}
  /\ pc'[w] = "refuse" => result'[w] # "completed"

Hushes(w) ==
  /\ events' = events
  /\ pc[w] = "asking" /\ ~answered[w] /\ pending[w] # 0 /\ ~Stopped(w) =>
       pc'[w] = "asking" /\ job'[w] = job[w] /\ pending'[w] = pending[w] /\ ~answered'[w]
  /\ Replied(w)' => Replied(w) /\ job'[w] = job[w]

Publishes(w, e) ==
  /\ events' = [events EXCEPT ![w] = Append(@, e)] /\ e \in [kind : EventKinds, job : Nat, approval : Nat]
  /\ e.job = job[w] /\ job'[w] = job[w] /\ e.job \in 1..issued[w] /\ pc[w] # "asking"
  /\ e.kind \notin Terminal => pc[w] \in {"work", "asked", "acting"}
  /\ e.kind = "done" => pc'[w] = "finishing"
  /\ e.kind = "approval_required" =>
       pc[w] = "asked" /\ pc'[w] = "asking" /\ e.approval # 0 /\ pending'[w] = e.approval /\ ~answered'[w]
  /\ e.kind = "session_restored" => pc[w] = "work" /\ e.job \in resumes
  /\ e.kind = "completed" => Replied(w)
  /\ Replied(w)' => e.kind = "done"

LEMMA ThreadSpeaks ==
  ASSUME WorkerInv, NEW w \in Worker, Thread(w), pc[w] = "refuse" => result[w] # "completed"
  PROVE  Continues(w) /\ (Hushes(w) \/ \E e : Publishes(w, e) /\ e.kind # "session_restored")
<1> DEFINE Goal == Continues(w) /\ (Hushes(w) \/ \E e : Publishes(w, e) /\ e.kind # "session_restored")
<1>1. /\ pc \in [Worker -> Places] /\ job \in [Worker -> Nat] /\ result \in [Worker -> Results]
      /\ jobs \in [Worker -> Seq(Item)] /\ cancelled \in [Worker -> SUBSET Nat]
      /\ approvals \in [Worker -> Nat] /\ pending \in [Worker -> Nat] /\ answered \in [Worker -> BOOLEAN]
      /\ answers \in [Worker -> Seq(Nat \X BOOLEAN)] /\ issued[w] \in Nat
  BY DEF WorkerInv, TypeOK, Item, Results
<1>2. Active(w) => job[w] \in 1..issued[w]
  <2>1. accepted[w] \subseteq 1..issued[w] /\ (Active(w) => job[w] \in accepted[w])
    BY DEF WorkerInv, QueueInv, ItemsOf, PlaceOf
  <2>2. QED BY <2>1
<1>3. PlaceOf(w) /\ AnswersOf(w) /\ ItemsOf(w) BY DEF WorkerInv, QueueInv, AnswerInv
<1>4. Get(w) => Goal
  <2> SUFFICES ASSUME Get(w) PROVE Goal OBVIOUS
  <2>1. /\ jobs'[w] = Tail(jobs[w]) /\ jobs[w] # <<>> /\ jobs[w] \in Seq(Item) /\ pc[w] = "get"
        /\ pc'[w] \in {"took", "closing"} /\ job'[w] \in {job[w], Head(jobs[w]).id}
        /\ UNCHANGED <<stopping, issued, cancelled, events>>
    BY <1>1 DEF Get, Goto
  <2>2. JobsIn(jobs'[w]) \subseteq JobsIn(jobs[w]) /\ (Head(jobs[w]).kind = "job" => Head(jobs[w]).id \in JobsIn(jobs[w]))
    BY <2>1, JobsOfTail
  <2>3. Head(jobs[w]).kind # "job" => Head(jobs[w]).id = 0
    <3>1. 1 \in 1..Len(jobs[w]) /\ Head(jobs[w]) = jobs[w][1] BY <2>1
    <3>2. QED BY <1>3, <3>1 DEF ItemsOf
  <2>4. job[w] = 0 BY <1>3, <2>1 DEF PlaceOf
  <2>5. job'[w] \in JobsIn(jobs[w]) \cup {0} BY <2>1, <2>2, <2>3, <2>4
  <2>6. Continues(w) BY <2>1, <2>2, <2>5 DEF Continues
  <2>7. Hushes(w) BY <2>1 DEF Hushes, Replied
  <2>8. QED BY <2>6, <2>7
<1>5. Take(w) \/ Begin(w) \/ SeesStop(w) \/ Raise(w) \/ Ask(w) \/ Finish(w) => Goal
  <2> SUFFICES ASSUME Take(w) \/ Begin(w) \/ SeesStop(w) \/ Raise(w) \/ Ask(w) \/ Finish(w) PROVE Goal OBVIOUS
  <2>1. /\ UNCHANGED <<jobs, cancelled, stopping, issued, job, events>>
        /\ pc[w] \in {"took", "begin", "work", "asked", "acting", "finishing"}
    BY DEF Take, Begin, SeesStop, Raise, Ask, Finish, Keeps, queueVars
  <2>2. /\ pc'[w] \in {"control", "refuse", "begin", "work", "report", "asked"}
        /\ pc[w] = "finishing" => pc'[w] = "report"
        /\ pc'[w] = "report" /\ result'[w] = "completed" => pc[w] = "finishing"
        /\ pc'[w] = "refuse" => result'[w] # "completed"
    BY <1>1, <1>3 DEF Take, Begin, SeesStop, Raise, Ask, Finish, Goto, Unwind, Results
  <2>3. Continues(w) BY <2>1, <2>2 DEF Continues, Reporting
  <2>4. Hushes(w) BY <2>1, <2>2 DEF Hushes, Replied
  <2>5. QED BY <2>3, <2>4
<1>6. TakeAnswer(w) => Goal
  <2> SUFFICES ASSUME TakeAnswer(w) PROVE Goal OBVIOUS
  <2>1. /\ UNCHANGED <<jobs, cancelled, stopping, issued, job, events>> /\ pc[w] = "asking"
        /\ pc'[w] \in {"asking", "acting"}
    BY <1>1 DEF TakeAnswer, Goto, queueVars
  <2>2. ~answered[w] /\ pending[w] # 0 => ~Answered(w)
    BY GrantIsGiven
  <2>3. ~answered[w] /\ pending[w] # 0 => UNCHANGED <<pc, pending, answered>>
    BY <2>2 DEF TakeAnswer
  <2>4. Continues(w) BY <2>1 DEF Continues, Reporting
  <2>5. Hushes(w) BY <2>1, <2>3 DEF Hushes, Replied
  <2>6. QED BY <2>4, <2>5
<1>7. StopAsking(w) => Goal
  <2> SUFFICES ASSUME StopAsking(w) PROVE Goal OBVIOUS
  <2>1. /\ UNCHANGED <<jobs, cancelled, stopping, issued, job, events>> /\ pc[w] = "asking" /\ Stopped(w)
        /\ pc'[w] = "report" /\ result'[w] = "cancelled"
    BY <1>1 DEF StopAsking, Unwind, Goto, queueVars
  <2>2. Continues(w) BY <2>1 DEF Continues, Reporting
  <2>3. Hushes(w) BY <2>1 DEF Hushes, Replied
  <2>4. QED BY <2>2, <2>3
<1>8. Clear(w) \/ Release(w) \/ Close(w) => Goal
  <2> SUFFICES ASSUME Clear(w) \/ Release(w) \/ Close(w) PROVE Goal OBVIOUS
  <2>1. /\ UNCHANGED <<jobs, stopping, issued, events>> /\ cancelled'[w] \subseteq cancelled[w]
        /\ pc[w] \in {"clear", "control", "observe", "closing"} /\ pc'[w] \in {"observe", "get", "dead"}
        /\ \/ job'[w] = job[w] /\ (pc[w] \in {"clear", "observe"} => pc'[w] = "observe")
           \/ job'[w] = 0
    BY <1>1 DEF Clear, Release, Close, Unwind, Goto, queueVars
  <2>2. Continues(w) BY <2>1 DEF Continues, Reporting
  <2>3. Hushes(w) BY <2>1 DEF Hushes, Replied
  <2>4. QED BY <2>2, <2>3
<1>9. ASSUME NEW kind \in {"result", "done"} \cup (Results \ {"none"}), NEW place \in Places,
             UNCHANGED <<queueVars, job>>, Publish(w, kind, 0), Goto(w, place), Active(w),
             \/ kind = "result" /\ pc[w] = "acting" /\ place = "work"
             \/ kind = "done" /\ pc[w] = "work" /\ place = "finishing"
             \/ kind = result[w] /\ pc[w] \in {"refuse", "report"} /\ place = "clear"
                /\ (pc[w] = "refuse" => result[w] # "completed")
      PROVE  Goal
  <2> DEFINE e == Event(kind, job[w], 0)
  <2>1. kind \in EventKinds /\ (kind \in Terminal \/ kind \in {"result", "done"})
    BY DEF Results, EventKinds, Terminal
  <2>2. job[w] \in Nat BY <1>1
  <2>3. /\ e \in [kind : EventKinds, job : Nat, approval : Nat]
        /\ e.kind = kind /\ e.job = job[w]
    BY <2>1, <2>2 DEF Event
  <2>4. /\ pc'[w] = place /\ UNCHANGED <<jobs, cancelled, stopping, issued, job>>
        /\ events' = [events EXCEPT ![w] = Append(@, e)]
    BY <1>1, <1>9 DEF Goto, Publish, queueVars
  <2> HIDE DEF e
  <2>5. Continues(w) BY <1>9, <2>4 DEF Continues, Reporting
  <2>6. result[w] \in Results BY <1>1
  <2>7. Publishes(w, e)
    BY <1>2, <1>9, <2>1, <2>3, <2>4, <2>6 DEF Publishes, Replied, Terminal, Results
  <2>8. e.kind # "session_restored" BY <2>1, <2>3 DEF Terminal
  <2>9. QED BY <2>5, <2>7, <2>8
<1>10. Act(w) \/ Reply(w) => Goal
  <2> SUFFICES ASSUME Act(w) \/ Reply(w) PROVE Goal OBVIOUS
  <2> HIDE DEF Goal
  <2>1. UNCHANGED <<queueVars, job>> /\ Active(w) BY DEF Act, Reply, Keeps, Active
  <2>2. CASE Act(w)
    <3>1. pc[w] = "acting" /\ Goto(w, "work") /\ Publish(w, "result", 0) BY <2>2 DEF Act
    <3>2. "work" \in Places /\ "result" \in {"result", "done"} \cup (Results \ {"none"}) BY DEF Places
    <3>3. QED BY <1>9, <2>1, <3>1, <3>2
  <2>3. CASE Reply(w)
    <3>1. pc[w] = "work" /\ Goto(w, "finishing") /\ Publish(w, "done", 0) BY <2>3 DEF Reply
    <3>2. "finishing" \in Places /\ "done" \in {"result", "done"} \cup (Results \ {"none"}) BY DEF Places
    <3>3. QED BY <1>9, <2>1, <3>1, <3>2
  <2>4. QED BY <2>2, <2>3
<1>11. Post(w) => Goal
  <2> SUFFICES ASSUME Post(w) PROVE Goal OBVIOUS
  <2> DEFINE e == Event("approval_required", job[w], approvals'[w])
  <2>1. /\ pc[w] = "asked" /\ pc'[w] = "asking" /\ UNCHANGED <<jobs, cancelled, stopping, issued, job>>
        /\ approvals'[w] = approvals[w] + 1 /\ pending'[w] = approvals'[w] /\ ~answered'[w]
        /\ events' = [events EXCEPT ![w] = Append(@, e)]
    BY <1>1 DEF Post, Goto, Publish, queueVars
  <2>2. approvals'[w] \in Nat \ {0} /\ job[w] \in Nat /\ "approval_required" \in EventKinds
    BY <1>1, <2>1 DEF EventKinds
  <2>3. /\ e \in [kind : EventKinds, job : Nat, approval : Nat]
        /\ e.kind = "approval_required" /\ e.job = job[w] /\ e.approval = approvals'[w]
    BY <2>2 DEF Event
  <2> HIDE DEF e
  <2>4. Active(w) BY <2>1 DEF Active
  <2>5. Continues(w) BY <2>1 DEF Continues, Reporting
  <2>6. Publishes(w, e)
    BY <1>2, <2>1, <2>2, <2>3, <2>4 DEF Publishes, Replied, Terminal
  <2>7. QED BY <2>3, <2>5, <2>6
<1>12. Report(w) => Goal
  <2> SUFFICES ASSUME Report(w) PROVE Goal OBVIOUS
  <2> HIDE DEF Goal
  <2>1. /\ UNCHANGED <<queueVars, job>> /\ Active(w) /\ pc[w] \in {"refuse", "report"}
        /\ Goto(w, "clear") /\ Publish(w, result[w], 0) /\ "clear" \in Places
    BY DEF Report, Active, Places
  <2>2. result[w] \in Results \ {"none"} BY <1>1, <1>3, <2>1 DEF PlaceOf
  <2>3. QED BY <1>9, <2>1, <2>2
<1>13. QED BY <1>4, <1>5, <1>6, <1>7, <1>8, <1>10, <1>11, <1>12 DEF Thread

\* What a publication adds.
LEMMA Published ==
  ASSUME WorkerInv, NEW w \in Worker, NEW e, Publishes(w, e)
  PROVE  /\ events'[w] = Append(events[w], e) /\ Said(w)' = Said(w) \cup {e}
         /\ events[w] \in Seq([kind : EventKinds, job : Nat, approval : Nat])
         /\ \A v \in Worker \ {w} : events'[v] = events[v]
<1>1. events \in [Worker -> Events] BY DEF WorkerInv, TypeOK, Events
<1>2. /\ events'[w] = Append(events[w], e) /\ \A v \in Worker \ {w} : events'[v] = events[v]
      /\ events[w] \in Seq([kind : EventKinds, job : Nat, approval : Nat])
      /\ e \in [kind : EventKinds, job : Nat, approval : Nat]
  BY <1>1 DEF Publishes, Events
<1>3. Elements(Append(events[w], e)) = Elements(events[w]) \cup {e}
  <2> DEFINE T == [kind : EventKinds, job : Nat, approval : Nat]
  <2>1. events[w] \in Seq(T) /\ e \in T BY <1>2
  <2> HIDE DEF T
  <2>2. QED BY <2>1, Appended
<1>4. QED BY <1>2, <1>3 DEF Said

LEMMA RepliesStay ==
  ASSUME WorkerInv, NEW w \in Worker, Hushes(w) \/ (\E e : Publishes(w, e)), NEW j, Replies(w, j)
  PROVE  Replies(w, j)'
<1>1. CASE Hushes(w) BY <1>1 DEF Hushes, Replies, Said
<1>2. ASSUME NEW e, Publishes(w, e) PROVE Replies(w, j)'
  <2>1. /\ events'[w] = Append(events[w], e) /\ Said(w)' = Said(w) \cup {e}
        /\ events[w] \in Seq([kind : EventKinds, job : Nat, approval : Nat])
    BY <1>2, Published
  <2>2. e \in [kind : EventKinds, job : Nat, approval : Nat] /\ e.job = job[w] /\ job'[w] = job[w]
    BY <1>2 DEF Publishes
  <2>3. job'[w] = j /\ Replied(w)' => Is(e, j, "done") BY <1>2 DEF Publishes, Is
  <2>4. Is(e, j, "completed") => \E d \in Elements(events[w]) : Is(d, j, "done")
    BY <1>2, <2>2 DEF Publishes, Replies, Is, Said
  <2>5. DoneFirst(Append(events[w], e), j) BY <2>1, <2>2, <2>4, OrderAppend DEF Replies
  <2>6. QED BY <2>1, <2>3, <2>5 DEF Replies
<1>3. QED BY <1>1, <1>2

LEMMA PastStays ==
  ASSUME WorkerInv, Continues("turn")
  PROVE  \A j \in 1..issued["turn"] : Past(j) => Past(j)'
<1>1. issued["turn"] \in Nat BY Workers, WorkerTypes
<1>2. QED BY <1>1 DEF Continues, Past, Reporting

\* What the turn publishes fits what it did.
LEMMA TurnPublished ==
  ASSUME ThreadPart, Continues("turn"), NEW e, Publishes("turn", e), resumes' = resumes
  PROVE  /\ EventsFit' /\ Fits(e)'
         /\ e.kind \in Terminal \/ ~Past(e.job)
<1>1. /\ events'["turn"] = Append(events["turn"], e) /\ Said("turn")' = Said("turn") \cup {e}
      /\ events["turn"] \in Seq([kind : EventKinds, job : Nat, approval : Nat])
  BY Published, Workers DEF ThreadPart
<1>2. /\ e \in [kind : EventKinds, job : Nat, approval : Nat] /\ e.job = job["turn"] /\ job'["turn"] = job["turn"]
      /\ e.job \in 1..issued["turn"] /\ issued' = issued
  BY DEF Publishes, Continues
<1>3. e.kind \in Terminal \/ ~Past(e.job) BY <1>2 DEF Publishes, Past
<1>4. job["turn"] \notin JobsIn(jobs["turn"])
  BY Workers DEF ThreadPart, WorkerInv, QueueInv, ItemsOf, JobsIn
<1>5. e.kind = "done" => Past(e.job)'
  <2> SUFFICES ASSUME e.kind = "done" PROVE Past(e.job)' OBVIOUS
  <2>1. pc'["turn"] = "finishing" BY DEF Publishes
  <2>2. e.job \notin JobsIn(jobs'["turn"]) BY <1>2, <1>4 DEF Continues
  <2>3. QED BY <2>1, <2>2 DEF Past
<1>6. Fits(e)' BY <1>2, <1>5 DEF Fits, Publishes
<1>7. \A d \in Said("turn") : Fits(d)'
  <2>1. \A j \in 1..issued["turn"] : Past(j) => Past(j)' BY PastStays DEF ThreadPart
  <2> SUFFICES ASSUME NEW d \in Said("turn") PROVE Fits(d)' OBVIOUS
  <2>2. Fits(d) BY DEF ThreadPart, EventsFit
  <2>3. QED BY <1>2, <2>1, <2>2 DEF Fits
<1>8. DoneLast(events'["turn"])
  <2>1. \A d \in Elements(events["turn"]) : d.kind = "done" /\ e.job = d.job => e.kind \in Terminal
    <3>1. \A d \in Said("turn") : d.kind = "done" => Past(d.job) BY DEF ThreadPart, EventsFit, Fits
    <3>2. \A d \in Said("turn") : e.job = d.job => (Past(e.job) <=> Past(d.job)) BY DEF Past
    <3>3. QED BY <1>3, <3>1, <3>2 DEF Said
  <2>2. DoneLast(events["turn"]) BY DEF ThreadPart, EventsFit
  <2> DEFINE T == [kind : EventKinds, job : Nat, approval : Nat]
  <2>3. events["turn"] \in Seq(T) /\ e \in T BY <1>1, <1>2
  <2> HIDE DEF T
  <2>4. DoneLast(Append(events["turn"], e)) BY <2>1, <2>2, <2>3, OrderAppend
  <2>5. QED BY <1>1, <2>4
<1>9. QED BY <1>1, <1>3, <1>6, <1>7, <1>8 DEF EventsFit

\* The thread of the turn takes a step of its own.
Apartly == /\ Apart("command") /\ events'["command"] = events["command"]
           /\ UNCHANGED <<turn, command, phase, shown, resumes, quitting, raised, forgot>>
           /\ pc'["turn"] = "asked" => job["turn"] \notin resumes

LEMMA TurnThreadFits ==
  ASSUME ThreadPart, WorkerInv', Continues("turn"), Hushes("turn") \/ (\E e : Publishes("turn", e)), Apartly
  PROVE  ThreadPart'
<1>1. EventsFit'
  <2>1. CASE Hushes("turn")
    <3>1. \A j \in 1..issued["turn"] : Past(j) => Past(j)' BY PastStays DEF ThreadPart
    <3>2. events' = events /\ issued' = issued /\ resumes' = resumes BY <2>1 DEF Hushes, Continues, Apartly
    <3>3. \A e : Fits(e) => Fits(e)' BY <3>1, <3>2 DEF Fits
    <3>4. QED BY <3>2, <3>3 DEF ThreadPart, EventsFit, Said
  <2>2. ASSUME NEW e, Publishes("turn", e) PROVE EventsFit' BY <2>2, TurnPublished DEF Apartly
  <2>3. QED BY <2>1, <2>2
<1>2. CommandEventsFit' BY DEF ThreadPart, CommandEventsFit, Apartly, Continues, Said
<1>3. ThreadsFit'
  <2>1. pc'["turn"] \in {"asked", "asking"} => job'["turn"] \notin resumes'
    BY DEF ThreadPart, ThreadsFit, Continues, Apartly
  <2>2. pc'["command"] = pc["command"] /\ UNCHANGED <<issued, stopping, turn, command, resumes>> /\ (Calm' <=> Calm)
    BY DEF Apartly, Apart, Continues, Calm
  <2>3. \A w \in Worker : pc'[w] = "refuse" => result'[w] # "completed"
    BY Workers DEF ThreadPart, ThreadsFit, Continues, Apartly, Apart
  <2>4. QED BY <2>1, <2>2, <2>3 DEF ThreadPart, ThreadsFit
<1>4. QED BY <1>1, <1>2, <1>3 DEF ThreadPart

LEMMA TurnThreadKeeps ==
  ASSUME ThreadPart, TurnPart, ViewTypeOK, WorkerInv', Continues("turn"),
         Hushes("turn") \/ (\E e : Publishes("turn", e)), Apartly
  PROVE  TurnPart'
<1>1. CASE ~Live
  <2>1. Calm' <=> Calm BY DEF Apartly, Calm
  <2>2. Calm => turn = 0 /\ phase # "APPROVAL" BY <1>1 DEF Live, TurnPart, ApprovalFits
  <2>3. ~Calm' \/ (turn' = 0 /\ phase' # "APPROVAL") BY <2>1, <2>2 DEF Apartly
  <2>4. QED BY <2>3, TurnGone
<1>2. CASE Live /\ phase = "STOPPING" BY <1>2, TurnStopping DEF Apartly
<1>3. CASE Live /\ phase # "STOPPING"
  <2>1. /\ Live' /\ Calm /\ UNCHANGED <<turn, phase, shown, resumes>>
        /\ turn \in 1..issued["turn"]
    BY <1>3 DEF Apartly, Live, Calm, ThreadPart, ThreadsFit
  <2>2. \A a : Asks(a) => Hushes("turn") /\ Asks(a)'
    <3> SUFFICES ASSUME NEW a, Asks(a) PROVE Hushes("turn") /\ Asks(a)' OBVIOUS
    <3>1. pc["turn"] = "asking" /\ job["turn"] = turn /\ ~answered["turn"] /\ pending["turn"] = a /\ a # 0
      BY DEF Asks
    <3>2. Hushes("turn") BY <3>1 DEF Publishes
    <3>3. ~Stopped("turn")
      <4>1. ~stopping["turn"] BY <2>1, Workers DEF ThreadPart, ThreadsFit
      <4>2. turn \notin resumes BY <3>1 DEF ThreadPart, ThreadsFit
      <4>3. turn \notin cancelled["turn"] BY <1>3, <4>2 DEF TurnPart, StopFits
      <4>4. QED BY <3>1, <4>1, <4>3 DEF Stopped
    <3>4. QED BY <2>1, <3>1, <3>2, <3>3 DEF Hushes, Asks
  <2>3. PhaseFits' /\ StopFits'
    BY <1>3, <2>1 DEF TurnPart, PhaseFits, StopFits, Continues
  <2>4. EndFits'
    <3>1. phase \notin {"DONE", "STOPPING"} => Replies("turn", turn) BY <1>3 DEF TurnPart, EndFits
    <3>2. \A j : Replies("turn", j) => Replies("turn", j)' BY RepliesStay, Workers DEF ThreadPart
    <3>3. QED BY <2>1, <3>1, <3>2 DEF EndFits
  <2>5. CASE Hushes("turn")
    <3>1. Said("turn")' = Said("turn") /\ events' = events BY <2>5 DEF Hushes, Said
    <3>2. DoneFits'
      <4>1. \A j \in 1..issued["turn"] : Past(j) => Past(j)' BY PastStays DEF ThreadPart
      <4>2. Past(turn) => Past(turn)' BY <2>1, <4>1
      <4>3. QED BY <1>3, <2>1, <3>1, <4>2 DEF TurnPart, DoneFits
    <3>3. AskFits' BY <1>3, <2>1, <2>2, <3>1 DEF TurnPart, AskFits
    <3>4. ApprovalFits' BY <1>3, <2>1, <2>2, <3>1 DEF TurnPart, ApprovalFits, Live
    <3>5. QED BY <2>3, <2>4, <3>2, <3>3, <3>4 DEF TurnPart
  <2>6. ASSUME NEW e, Publishes("turn", e), \A a : ~Asks(a) PROVE TurnPart'
    <3>1. /\ events'["turn"] = Append(events["turn"], e) /\ Said("turn")' = Said("turn") \cup {e}
          /\ events["turn"] \in Seq([kind : EventKinds, job : Nat, approval : Nat])
      BY <2>6, Published, Workers DEF ThreadPart
    <3>2. /\ e \in [kind : EventKinds, job : Nat, approval : Nat] /\ e.job = job["turn"]
          /\ job'["turn"] = job["turn"] /\ issued' = issued
      BY <2>6 DEF Publishes, Continues
    <3>3. e.kind \in Terminal \/ ~Past(e.job) BY <2>6, TurnPublished DEF Apartly
    <3>4. DoneFits'
      <4> SUFFICES ASSUME phase = "DONE"
                   PROVE  Past(turn)' /\ \A d \in Said("turn") \cup {e} : d.job = turn => d.kind \in Terminal
        BY <2>1, <3>1 DEF DoneFits
      <4>1. Past(turn) /\ \A d \in Said("turn") : d.job = turn => d.kind \in Terminal
        BY <1>3 DEF TurnPart, DoneFits
      <4>2. Past(turn)' BY <2>1, <4>1, PastStays DEF ThreadPart
      <4>3. e.job = turn => e.kind \in Terminal BY <3>3, <4>1 DEF Past
      <4>4. QED BY <4>1, <4>2, <4>3
    <3>5. /\ AskLast(events["turn"], turn)
          /\ \A d \in Elements(events["turn"]) : ~Is(d, turn, "approval_required")
      BY <1>3, <2>6 DEF TurnPart, AskFits, Said
    <3>6. AskFits'
      <4>1. AskLast(events'["turn"], turn)
        <5> DEFINE T == [kind : EventKinds, job : Nat, approval : Nat]
        <5>1. events["turn"] \in Seq(T) /\ e \in T BY <3>1, <3>2
        <5> HIDE DEF T
        <5>2. AskLast(Append(events["turn"], e), turn) BY <3>5, <5>1, OrderAppend
        <5>3. QED BY <3>1, <5>2
      <4>2. Is(e, turn, "approval_required") => phase = "RUNNING" /\ Asks(e.approval)'
        <5> SUFFICES ASSUME Is(e, turn, "approval_required") PROVE phase = "RUNNING" /\ Asks(e.approval)'
          OBVIOUS
        <5>1. /\ pc["turn"] = "asked" /\ pc'["turn"] = "asking" /\ e.approval # 0
              /\ pending'["turn"] = e.approval /\ ~answered'["turn"] /\ job["turn"] = turn
          BY <2>6, <3>2 DEF Publishes, Is
        <5>2. e' = e => Asks(e.approval)' BY <2>1, <3>2, <5>1 DEF Asks
        <5>3. turn \notin resumes BY <5>1 DEF ThreadPart, ThreadsFit
        <5>4. phase \notin {"ERROR", "IDLE"} BY <1>3, <5>3 DEF TurnPart, PhaseFits
        <5>5. phase # "DONE" BY <1>3, <5>1 DEF TurnPart, DoneFits, Past
        <5>6. phase # "APPROVAL" BY <2>1, <2>6 DEF TurnPart, ApprovalFits
        <5>7. QED BY <1>3, <5>2, <5>4, <5>5, <5>6 DEF ViewTypeOK
      <4>3. QED BY <2>1, <3>1, <3>5, <4>1, <4>2 DEF AskFits, Said
    <3>7. ApprovalFits' BY <2>1, <2>6 DEF TurnPart, ApprovalFits
    <3>8. QED BY <2>3, <2>4, <3>4, <3>6, <3>7 DEF TurnPart
  <2>7. QED BY <2>2, <2>5, <2>6
<1>4. QED BY <1>1, <1>2, <1>3

\* A step of one thread leaves the approval of the other alone.
LEMMA ApprovalApart ==
  ASSUME WorkerInv, NEW w \in Worker, Thread(w), NEW v \in Worker \ {w}
  PROVE  pending'[v] = pending[v] /\ answered'[v] = answered[v]
<1>1. pending \in [Worker -> Nat] /\ answered \in [Worker -> BOOLEAN] BY DEF WorkerInv, TypeOK
<1>2. CASE Post(w) BY <1>1, <1>2 DEF Post
<1>3. CASE TakeAnswer(w) BY <1>1, <1>3 DEF TakeAnswer, ClearsApproval
<1>4. CASE StopAsking(w) BY <1>1, <1>4 DEF StopAsking, ClearsApproval
<1>5. CASE ~(Post(w) \/ TakeAnswer(w) \/ StopAsking(w))
  <2>1. UNCHANGED approvalVars
    BY <1>5 DEF Thread, Get, Take, Begin, SeesStop, Raise, Ask, Act, Reply, Finish, Report, Clear, Release,
                Close, Keeps
  <2>2. QED BY <2>1 DEF approvalVars
<1>6. QED BY <1>2, <1>3, <1>4, <1>5

LEMMA TurnThreadStep ==
  ASSUME ScreenInv, TurnThread
  PROVE  Screen'
<1> USE DEF ScreenInv, Screen
<1>1. WorkerInv BY DEF ThreadPart
<1>2. /\ Thread("turn") /\ UNCHANGED viewOnly
      /\ pc'["turn"] = "asked" => job["turn"] \notin resumes
  BY DEF TurnThread
<1>3. WorkerInv' BY <1>1, <1>2, ThreadKeeps, Workers
<1>4. Continues("turn") /\ (Hushes("turn") \/ \E e : Publishes("turn", e))
  BY <1>1, <1>2, ThreadSpeaks, Workers DEF ThreadPart, ThreadsFit
<1>5. Apartly
  <2>1. Apart("command") BY <1>1, <1>2, OthersApart, Workers
  <2>2. events'["command"] = events["command"] BY <1>1, <1>4, Published, Workers DEF Hushes
  <2>3. QED BY <1>2, <2>1, <2>2 DEF Apartly, viewOnly
<1>6. ThreadPart' BY <1>3, <1>4, <1>5, TurnThreadFits
<1>7. TurnPart' BY <1>3, <1>4, <1>5, TurnThreadKeeps
<1>8. UNCHANGED <<turn, command, startedIdle, phase, picker, quitting, raised, forgot>> BY <1>2 DEF viewOnly
<1>9. CommandFits' BY <1>5, <1>8, CommandStays DEF Apartly, Apart, Calm
<1>10. PhaseHasJob' /\ OnlyPickRaises' /\ ForgotFits'
  BY <1>8 DEF PhaseHasJob, OnlyPickRaises, ForgotFits, Busy
<1>11. QED BY <1>6, <1>7, <1>9, <1>10

LEMMA RestoredStep ==
  ASSUME ScreenInv, RestoredThread
  PROVE  Screen'
<1> USE DEF ScreenInv, Screen
<1> DEFINE e == Event("session_restored", job["turn"], 0)
<1>1. WorkerInv BY DEF ThreadPart
<1>2. /\ pc["turn"] = "work" /\ job["turn"] \in resumes
      /\ events' = [events EXCEPT !["turn"] = Append(@, e)]
      /\ UNCHANGED <<queueVars, threadVars, approvalVars>>
      /\ UNCHANGED <<turn, command, startedIdle, phase, shown, picker, resumes, quitting, raised, forgot>>
  BY DEF RestoredThread, Resume, Publish, turnView, commandView, idleKeys, ending, record
<1>3. UNCHANGED <<jobs, accepted, cancelled, stopping, issued, pc, job, result, pending, answered, answers, approvals>>
  BY <1>2 DEF queueVars, threadVars, approvalVars
<1>4. job["turn"] \in 1..issued["turn"] BY <1>2 DEF ThreadPart, ThreadsFit
<1>5. issued["turn"] \in Nat BY <1>1, Workers, WorkerTypes
<1>6. /\ e \in [kind : EventKinds, job : Nat, approval : Nat]
      /\ e.kind = "session_restored" /\ e.job = job["turn"]
  BY <1>4, <1>5 DEF Event, EventKinds
<1> HIDE DEF e
<1>7. WorkerInv'
  <2>1. events \in [Worker -> Seq([kind : EventKinds, job : Nat, approval : Nat])] BY <1>1 DEF WorkerInv, TypeOK
  <2>2. events' \in [Worker -> Events] BY <1>2, <1>6, <2>1, QueuesTyped, Workers, Zenon DEF Events
  <2>3. QED BY <1>1, <1>2, <1>3, <2>2, ReadKeeps
<1>8. Continues("turn") BY <1>2, <1>3 DEF Continues
<1>9. Publishes("turn", e)
  BY <1>2, <1>3, <1>4, <1>6 DEF Publishes, Terminal, Replied
<1>10. Apartly
  <2>1. Apart("command") BY <1>3 DEF Apart
  <2>2. events'["command"] = events["command"] BY <1>1, <1>9, Published, Workers
  <2>3. pc'["turn"] # "asked" BY <1>2, <1>3
  <2>4. QED BY <1>2, <2>1, <2>2, <2>3 DEF Apartly
<1>11. ThreadPart' BY <1>7, <1>8, <1>9, <1>10, TurnThreadFits
<1>12. TurnPart' BY <1>7, <1>8, <1>9, <1>10, TurnThreadKeeps
<1>13. CommandFits' BY <1>2, <1>10, CommandStays DEF Apartly, Apart, Calm
<1>14. PhaseHasJob' /\ OnlyPickRaises' /\ ForgotFits'
  BY <1>2 DEF PhaseHasJob, OnlyPickRaises, ForgotFits, Busy
<1>15. QED BY <1>11, <1>12, <1>13, <1>14

LEMMA CommandThreadStep ==
  ASSUME ScreenInv, CommandThread
  PROVE  Screen'
<1> USE DEF ScreenInv, Screen
<1>1. WorkerInv BY DEF ThreadPart
<1>2. /\ Thread("command") /\ pc'["command"] # "asked"
      /\ UNCHANGED <<turn, command, startedIdle, phase, shown, picker, resumes, quitting, raised, forgot>>
  BY DEF CommandThread, turnView, commandView, idleKeys, ending, record
<1>3. WorkerInv' BY <1>1, <1>2, ThreadKeeps, Workers
<1>4. /\ Continues("command")
      /\ Hushes("command") \/ \E e : Publishes("command", e) /\ e.kind # "session_restored"
  BY <1>1, <1>2, ThreadSpeaks, Workers DEF ThreadPart, ThreadsFit
<1>5. /\ Apart("turn") /\ pending'["turn"] = pending["turn"] /\ answered'["turn"] = answered["turn"]
      /\ events'["turn"] = events["turn"] /\ (Calm' <=> Calm)
  <2>1. Apart("turn") BY <1>1, <1>2, OthersApart, Workers
  <2>2. events'["turn"] = events["turn"] BY <1>1, <1>4, Published, Workers DEF Hushes
  <2>3. pending'["turn"] = pending["turn"] /\ answered'["turn"] = answered["turn"]
    BY <1>1, <1>2, ApprovalApart, Workers
  <2>4. QED BY <1>2, <2>1, <2>2, <2>3 DEF Calm
<1>6. EventsFit'
  <2>1. \A e : Fits(e) => Fits(e)' BY <1>2, <1>5 DEF Fits, Past, Apart
  <2>2. QED BY <1>5, <2>1 DEF ThreadPart, EventsFit, Said
<1>7. CommandEventsFit'
  <2>1. CASE Hushes("command")
    BY <2>1, <1>4 DEF ThreadPart, CommandEventsFit, Said, Hushes, Continues
  <2>2. ASSUME NEW e, Publishes("command", e), e.kind # "session_restored" PROVE CommandEventsFit'
    <3>1. Said("command")' = Said("command") \cup {e} BY <1>1, <2>2, Published, Workers
    <3>2. pc["command"] \in {"work", "asked", "acting"} => pc["command"] = "work"
      BY DEF ThreadPart, ThreadsFit
    <3>3. e.job \in 1..issued["command"] /\ issued' = issued BY <1>4, <2>2 DEF Publishes, Continues
    <3>4. e.kind \in {"result", "done"} \cup Terminal
      <4>1. e.kind \in EventKinds BY <2>2 DEF Publishes
      <4>2. e.kind # "approval_required" BY <2>2, <3>2 DEF Publishes
      <4>3. QED BY <2>2, <4>1, <4>2 DEF EventKinds, Terminal
    <3>5. QED BY <3>1, <3>3, <3>4 DEF ThreadPart, CommandEventsFit
  <2>3. QED BY <1>4, <2>1, <2>2
<1>8. ThreadsFit'
  <2>1. pc'["command"] \notin {"asked", "asking", "acting"}
    BY <1>2, <1>4 DEF ThreadPart, ThreadsFit, Continues
  <2>2. pc'["turn"] \in {"asked", "asking"} => job'["turn"] \notin resumes'
    BY <1>2, <1>5 DEF ThreadPart, ThreadsFit, Apart
  <2>3. UNCHANGED <<issued, stopping, turn, command, resumes>> BY <1>2, <1>4 DEF Continues
  <2>4. \A w \in Worker : pc'[w] = "refuse" => result'[w] # "completed"
    BY <1>4, <1>5, Workers DEF ThreadPart, ThreadsFit, Continues, Apart
  <2>5. QED BY <1>5, <2>1, <2>2, <2>3, <2>4 DEF ThreadPart, ThreadsFit
<1>9. ThreadPart' BY <1>3, <1>6, <1>7, <1>8 DEF ThreadPart
<1>10. TurnPart'
  <2>1. \A j : Past(j) => Past(j)' BY <1>5 DEF Past, Apart
  <2>2. QED BY <1>2, <1>5, <2>1, TurnStays DEF Apart
<1>11. CommandFits'
  <2>1. \A j : Replies("command", j) => Replies("command", j)' BY <1>1, <1>4, RepliesStay, Workers
  <2>2. QED BY <1>2, <1>5, <2>1 DEF CommandFits
<1>12. PhaseHasJob' /\ OnlyPickRaises' /\ ForgotFits'
  BY <1>2 DEF PhaseHasJob, OnlyPickRaises, ForgotFits, Busy
<1>13. QED BY <1>9, <1>10, <1>11, <1>12

------------------------------------------------------------------------------
(* What the interface reads                                                 *)

LEMMA EventRead ==
  ASSUME WorkerInv, NEW w \in Worker, Drained(w), NEW e, e = Head(events[w])
  PROVE  /\ Said(w) = Said(w)' \cup {e} /\ e \in [kind : EventKinds, job : Nat, approval : Nat]
         /\ DoneLast(events[w]) =>
              /\ DoneLast(events'[w])
              /\ e.kind = "done" => \A d \in Said(w)' : d.job = e.job => d.kind \in Terminal
         /\ \A j : AskLast(events[w], j) =>
              /\ AskLast(events'[w], j)
              /\ Is(e, j, "approval_required") => \A d \in Said(w)' : d.job # j
         /\ \A j : DoneFirst(events[w], j) =>
              /\ ~Is(e, j, "completed")
              /\ ~Is(e, j, "done") => DoneFirst(events'[w], j)
         /\ \A v \in Worker \ {w} : events'[v] = events[v]
<1> DEFINE T == [kind : EventKinds, job : Nat, approval : Nat]
<1>1. events \in [Worker -> Seq(T)] BY DEF WorkerInv, TypeOK
<1> HIDE DEF T
<1>2. /\ events[w] \in Seq(T) /\ events[w] # <<>> /\ events'[w] = Tail(events[w])
      /\ \A v \in Worker \ {w} : events'[v] = events[v]
  BY <1>1 DEF Drained
<1>3. Elements(events[w]) = Elements(Tail(events[w])) \cup {e} /\ e \in T BY <1>2, Shifted
<1>4. Said(w) = Said(w)' \cup {e} BY <1>2, <1>3 DEF Said
<1>5. DoneLast(events[w]) =>
        /\ DoneLast(events'[w])
        /\ e.kind = "done" => \A d \in Said(w)' : d.job = e.job => d.kind \in Terminal
  BY <1>2, OrderTail DEF Said
<1>6. \A j : AskLast(events[w], j) =>
        /\ AskLast(events'[w], j)
        /\ Is(e, j, "approval_required") => \A d \in Said(w)' : d.job # j
  BY <1>2, OrderTail DEF Said
<1>7. \A j : DoneFirst(events[w], j) =>
        /\ ~Is(e, j, "completed")
        /\ ~Is(e, j, "done") => DoneFirst(events'[w], j)
  BY <1>2, OrderTail DEF Said
<1>8. QED BY <1>2, <1>3, <1>4, <1>5, <1>6, <1>7 DEF T

\* One event less, and the threads stay where they are.
LEMMA ReadFits ==
  ASSUME ThreadPart, NEW w \in Worker, Drained(w), WorkerInv', Calm' => Calm,
         turn' \in {turn, 0}, command' \in {command, 0},
         UNCHANGED <<jobs, stopping, issued, pc, job, result, resumes>>
  PROVE  ThreadPart' /\ \A j : Past(j) => Past(j)'
<1>1. \A j : Past(j) => Past(j)' BY DEF Past
<1>2. \A e : Fits(e) => Fits(e)' BY <1>1 DEF Fits
<1>3. PICK e : e = Head(events[w]) OBVIOUS
<1>4. \A v \in Worker : Said(v)' \subseteq Said(v)
  BY <1>3, EventRead DEF ThreadPart, Said
<1>5. DoneLast(events'["turn"])
  BY <1>3, EventRead, Workers DEF ThreadPart, EventsFit
<1>6. EventsFit' BY <1>2, <1>4, <1>5, Workers DEF ThreadPart, EventsFit
<1>7. CommandEventsFit' BY <1>4, Workers DEF ThreadPart, CommandEventsFit
<1>8. ThreadsFit'
  <2>1. issued["turn"] \in Nat /\ issued["command"] \in Nat BY Workers, WorkerTypes DEF ThreadPart
  <2>2. turn' \in 0..issued["turn"] /\ command' \in 0..issued["command"]
    BY <2>1 DEF ThreadPart, ThreadsFit
  <2>3. QED BY <2>2 DEF ThreadPart, ThreadsFit
<1>9. QED BY <1>1, <1>6, <1>7, <1>8 DEF ThreadPart

LEMMA TurnEventStep ==
  ASSUME ScreenInv, TurnEvent
  PROVE  Screen'
<1> USE DEF ScreenInv, Screen
<1>1. WorkerInv BY DEF ThreadPart
<1>2. PICK e : e = Head(events["turn"]) OBVIOUS
<1>3. /\ raised = {} /\ Drained("turn")
      /\ UNCHANGED <<queueVars, threadVars, approvals, pending>>
      /\ UNCHANGED <<command, startedIdle, picker, quitting, forgot, resumes>>
      /\ UNCHANGED <<jobs, accepted, cancelled, stopping, controls, issued, processing, pc, job, result>>
  BY DEF TurnEvent, Up, queueVars, threadVars, commandView, idleKeys, ending, record
<1>4. /\ Said("turn") = Said("turn")' \cup {e} /\ Fits(e) /\ e.kind \in EventKinds
      /\ e.kind = "done" => \A d \in Said("turn")' : d.job = e.job => d.kind \in Terminal
      /\ \A j : AskLast(events["turn"], j) =>
           /\ AskLast(events'["turn"], j)
           /\ Is(e, j, "approval_required") => \A d \in Said("turn")' : d.job # j
      /\ \A j : DoneFirst(events["turn"], j) =>
           /\ ~Is(e, j, "completed")
           /\ ~Is(e, j, "done") => DoneFirst(events'["turn"], j)
      /\ events'["command"] = events["command"]
  BY <1>1, <1>2, <1>3, EventRead, Workers DEF ThreadPart, EventsFit
<1>5. e.job \in Nat \ {0} /\ e.job \in 1..issued["turn"]
  <2>1. issued["turn"] \in Nat BY <1>1, Workers, WorkerTypes
  <2>2. QED BY <1>4, <2>1 DEF Fits
<1> DEFINE Skips == ~Accepted(e) /\ UNCHANGED <<phase, turn, shown, raised, answered, answers>>
           Questions == Accepted(e) /\ e.kind = "approval_required" /\ AskApproval(e) /\ UNCHANGED turn
           Shows == /\ Accepted(e) /\ e.kind # "approval_required"
                    /\ phase' = PhaseAfter(e.kind)
                    /\ shown' = IF e.kind \in {"result", "done", "error", "cancelled"} THEN 0 ELSE shown
                    /\ turn' = IF e.kind \in Terminal THEN 0 ELSE turn
                    /\ UNCHANGED <<raised, answered, answers>>
<1>6. Skips \/ Questions \/ Shows BY <1>2 DEF TurnEvent, turnView
<1>7. /\ \/ UNCHANGED <<answered, answers>>
         \/ \E a \in Nat : Gives("turn", a, FALSE)
      /\ turn' \in {turn, 0} /\ (Calm' => Calm)
  <2>1. e.approval \in Nat BY <1>1, <1>2, <1>3, EventRead, Workers
  <2>2. QED BY <1>3, <1>6, <2>1 DEF AskApproval, Gives, Calm
<1>8. WorkerInv'
  <2>1. events' \in [Worker -> Events] BY <1>1, <1>3, DrainedTyped, Workers
  <2>2. QED BY <1>1, <1>3, <1>7, <2>1, ReadKeeps, Workers
<1>9. ThreadPart' /\ \A j : Past(j) => Past(j)'
  BY <1>3, <1>7, <1>8, ReadFits, Workers
<1>10. Calm => (phase = "APPROVAL" => turn # 0 /\ ~Accepted(e))
  BY <1>4 DEF TurnPart, ApprovalFits, Accepted, Current
<1>11. Calm /\ Accepted(e) /\ e.kind \notin Terminal =>
         Live /\ phase \in {"RUNNING", "IDLE"} /\ (e.kind = "approval_required" => phase = "RUNNING")
  <2> SUFFICES ASSUME Calm, Accepted(e), e.kind \notin Terminal
               PROVE  Live /\ phase \in {"RUNNING", "IDLE"} /\ (e.kind = "approval_required" => phase = "RUNNING")
    OBVIOUS
  <2>1. Live /\ phase # "STOPPING" /\ e.job = turn BY <1>5 DEF Live, Accepted, Current
  <2>2. phase \notin {"ERROR", "DONE", "APPROVAL"} BY <1>4, <1>10, <2>1 DEF TurnPart, PhaseFits, DoneFits
  <2>3. e.kind = "approval_required" => phase = "RUNNING" BY <1>4, <2>1 DEF TurnPart, AskFits, Is
  <2>4. QED BY <2>1, <2>2, <2>3 DEF ViewTypeOK
<1>12. Calm /\ Accepted(e) /\ e.kind = "completed" => phase \in {"DONE", "STOPPING"}
  BY <1>4, <1>5 DEF TurnPart, EndFits, Replies, Live, Accepted, Current, Is
<1>13. TurnPart'
  <2> SUFFICES ASSUME Calm', phase' # "STOPPING", turn' # 0 \/ phase' = "APPROVAL" PROVE TurnPart'
    BY TurnGone, TurnStopping
  <2>1. Calm /\ ~quitting BY <1>7 DEF Calm
  <2>2. Live /\ Live' /\ turn' = turn
    <3>1. CASE Skips BY <1>10, <2>1, <3>1 DEF Live
    <3>2. CASE Questions BY <1>5, <2>1, <3>2 DEF Accepted, Current, Live
    <3>3. CASE Shows
      <4>1. turn # 0 BY <1>5, <3>3 DEF Accepted, Current
      <4>2. phase' # "APPROVAL" BY <1>4, <1>10, <1>12, <2>1, <3>3 DEF PhaseAfter, EventKinds
      <4>3. QED BY <2>1, <3>3, <4>1, <4>2 DEF Live
    <3>4. QED BY <1>6, <3>1, <3>2, <3>3
  <2>3. phase # "STOPPING"
    <3>1. CASE Skips BY <3>1
    <3>2. CASE ~Skips BY <1>4, <1>6, <1>11, <2>1, <2>2, <3>2 DEF Live, Accepted, EventKinds, Terminal
    <3>3. QED BY <3>1, <3>2
  <2>4. /\ StopFits' BY <1>3, <2>2, <2>3 DEF TurnPart, StopFits
  <2>5. AskLast(events'["turn"], turn) BY <1>4, <2>2, <2>3 DEF TurnPart, AskFits
  <2>6. \A j : DoneFirst(events["turn"], j) /\ Replies("turn", j) /\ ~Is(e, j, "done") => Replies("turn", j)'
    BY <1>3, <1>4 DEF Replies, Replied, Is
  <2>7. CASE Skips
    <3>1. e.job # turn BY <2>3, <2>7 DEF Accepted, Current
    <3>2. UNCHANGED <<phase, turn, shown, answered, pending>> /\ \A a : Asks(a) => Asks(a)'
      BY <1>3, <2>7 DEF Asks
    <3>3. PhaseFits' BY <1>3, <2>2, <3>2 DEF TurnPart, PhaseFits
    <3>4. DoneFits' BY <1>4, <1>9, <2>2, <3>2 DEF TurnPart, DoneFits
    <3>5. AskFits' BY <1>4, <2>2, <2>3, <2>5, <3>2 DEF TurnPart, AskFits
    <3>6. ApprovalFits' BY <1>4, <2>1, <3>2 DEF TurnPart, ApprovalFits
    <3>7. EndFits' BY <2>2, <2>6, <3>1, <3>2 DEF TurnPart, EndFits, Is, Replies
    <3>8. QED BY <2>4, <3>3, <3>4, <3>5, <3>6, <3>7 DEF TurnPart
  <2>8. CASE Questions
    <3>1. /\ phase = "RUNNING" /\ phase' = "APPROVAL" /\ shown' = e.approval
          /\ UNCHANGED <<answered, turn, pending>>
      BY <1>3, <1>11, <2>1, <2>8 DEF AskApproval, Terminal
    <3>2. Is(e, turn, "approval_required") BY <2>8 DEF Accepted, Current, Is
    <3>3. Asks(e.approval) /\ \A d \in Said("turn")' : d.job # turn
      BY <1>4, <2>2, <2>3, <3>2 DEF TurnPart, AskFits
    <3>4. Asks(shown)' BY <1>3, <3>1, <3>3 DEF Asks
    <3>5. ApprovalFits' BY <2>2, <3>1, <3>3, <3>4 DEF ApprovalFits, Live
    <3>6. PhaseFits' /\ DoneFits' BY <3>1 DEF PhaseFits, DoneFits
    <3>7. AskFits' BY <2>5, <3>1, <3>3 DEF AskFits, Is
    <3>8. EndFits'
      <4>1. Replies("turn", turn) BY <2>2, <3>1 DEF TurnPart, EndFits
      <4>2. ~Is(e, turn, "done") BY <3>2 DEF Is
      <4>3. QED BY <2>6, <3>1, <4>1, <4>2 DEF EndFits, Replies
    <3>9. QED BY <2>4, <3>5, <3>6, <3>7, <3>8 DEF TurnPart
  <2>9. CASE Shows
    <3>1. /\ e.kind \in {"result", "done", "session_restored"} /\ e.job = turn
          /\ phase \in {"RUNNING", "IDLE"} /\ UNCHANGED <<turn, answered, pending>>
      BY <1>3, <1>4, <1>5, <1>11, <2>1, <2>2, <2>9 DEF Accepted, Current, Terminal, EventKinds, Live
    <3>2. /\ e.kind = "result" => phase' = "RUNNING"
          /\ e.kind = "done" => phase' = "DONE"
          /\ e.kind = "session_restored" => phase' = "IDLE"
      BY <2>9, <3>1 DEF PhaseAfter
    <3>3. \A a : Asks(a) => Asks(a)' BY <1>3, <3>1 DEF Asks
    <3>4. PhaseFits' BY <1>3, <1>4, <3>1, <3>2 DEF PhaseFits, Fits
    <3>5. DoneFits' BY <1>4, <1>9, <3>1, <3>2 DEF DoneFits, Fits
    <3>6. AskFits'
      <4>1. ASSUME NEW d \in Said("turn")', Is(d, turn, "approval_required")
            PROVE  phase' = "RUNNING" /\ Asks(d.approval)'
        <5>1. Asks(d.approval) BY <1>4, <2>2, <2>3, <4>1 DEF TurnPart, AskFits
        <5>2. e.kind # "done" BY <1>4, <3>1, <4>1 DEF Is, Terminal
        <5>3. e.kind # "session_restored" BY <1>4, <3>1, <5>1 DEF Fits, Asks, ThreadPart, ThreadsFit
        <5>4. QED BY <3>1, <3>2, <3>3, <5>1, <5>2, <5>3
      <4>2. QED BY <2>5, <3>1, <4>1 DEF AskFits
    <3>7. ApprovalFits' BY <3>1, <3>2 DEF ApprovalFits
    <3>8. EndFits'
      <4>1. Replies("turn", turn) BY <2>2, <3>1 DEF TurnPart, EndFits
      <4>2. e.kind # "done" => ~Is(e, turn, "done") BY DEF Is
      <4>3. QED BY <2>6, <3>1, <3>2, <4>1, <4>2 DEF EndFits, Replies
    <3>9. QED BY <2>4, <3>4, <3>5, <3>6, <3>7, <3>8 DEF TurnPart
  <2>10. QED BY <1>6, <2>7, <2>8, <2>9
<1>14. CommandFits'
  <2>1. command # 0 /\ startedIdle /\ Calm' => UNCHANGED <<turn, phase>>
    <3> SUFFICES ASSUME command # 0, startedIdle, Calm' PROVE UNCHANGED <<turn, phase>> OBVIOUS
    <3>1. turn = 0 BY <1>7 DEF CommandFits
    <3>2. QED BY <1>5, <1>6, <3>1 DEF Accepted, Current
  <2>2. QED BY <1>3, <1>4, <1>7, <2>1, CommandStays
<1>15. PhaseHasJob'
  <2> SUFFICES ASSUME Busy', ~quitting', ~forgot' PROVE turn' # 0 \/ (command' # 0 /\ startedIdle')
    BY DEF PhaseHasJob
  <2>1. Calm BY <1>3 DEF Calm
  <2>2. CASE Skips BY <1>3, <2>2 DEF PhaseHasJob, Busy
  <2>3. CASE Questions BY <1>5, <2>3 DEF Accepted, Current
  <2>4. CASE Shows
    <3>1. e.kind \notin Terminal
      BY <1>3, <1>12, <2>1, <2>4 DEF Busy, PhaseAfter, Terminal
    <3>2. QED BY <1>5, <2>4, <3>1 DEF Accepted, Current
  <2>5. QED BY <1>6, <2>2, <2>3, <2>4
<1>16. OnlyPickRaises'
  <2>1. raised' = raised
    <3>1. CASE Questions
      <4>1. turn # 0 BY <1>5, <3>1 DEF Accepted, Current
      <4>2. ~quitting => phase = "RUNNING" BY <1>3, <1>11, <3>1, <4>1 DEF Calm, Terminal, ForgotFits
      <4>3. QED BY <3>1, <4>2 DEF AskApproval
    <3>2. QED BY <1>6, <3>1
  <2>2. QED BY <1>3, <2>1 DEF OnlyPickRaises
<1>17. ForgotFits'
  <2> SUFFICES ASSUME forgot', ~quitting' PROVE turn' = 0 /\ command' = 0 /\ Busy' BY DEF ForgotFits
  <2>1. turn = 0 /\ command = 0 /\ Busy BY <1>3 DEF ForgotFits
  <2>2. Skips BY <1>5, <1>6, <2>1 DEF Accepted, Current
  <2>3. QED BY <1>3, <2>1, <2>2 DEF Busy
<1>18. QED BY <1>9, <1>13, <1>14, <1>15, <1>16, <1>17

LEMMA CommandEventStep ==
  ASSUME ScreenInv, CommandEvent
  PROVE  Screen'
<1> USE DEF ScreenInv, Screen
<1>1. WorkerInv BY DEF ThreadPart
<1>2. PICK e : e = Head(events["command"]) OBVIOUS
<1>3. /\ raised = {} /\ Drained("command")
      /\ UNCHANGED <<queueVars, threadVars, approvals, pending, answered, answers>>
      /\ UNCHANGED <<turn, shown, startedIdle, picker, quitting, forgot, resumes, raised>>
      /\ UNCHANGED <<jobs, accepted, cancelled, stopping, controls, issued, processing, pc, job, result>>
  BY DEF CommandEvent, Up, queueVars, threadVars, approvalVars, commandView, idleKeys, ending, record
<1>4. /\ Said("command") = Said("command")' \cup {e}
      /\ \A j : DoneFirst(events["command"], j) =>
           /\ ~Is(e, j, "completed")
           /\ ~Is(e, j, "done") => DoneFirst(events'["command"], j)
      /\ events'["turn"] = events["turn"]
  BY <1>1, <1>2, <1>3, EventRead, Workers
<1>5. /\ e.job \in 1..issued["command"] /\ e.kind \in {"result", "done", "completed", "error", "cancelled"}
      /\ e.job # 0
  <2>1. issued["command"] \in Nat BY <1>1, Workers, WorkerTypes
  <2>2. QED BY <1>4, <2>1 DEF ThreadPart, CommandEventsFit, Terminal
<1> DEFINE Skips == e.job # command /\ UNCHANGED <<phase, command>>
           Shows == /\ e.job = command
                    /\ phase' = IF startedIdle /\ turn = 0 /\ e.kind # "completed"
                                THEN PhaseAfter(e.kind) ELSE phase
                    /\ command' = IF e.kind \in Terminal THEN 0 ELSE command
<1>6. Skips \/ Shows BY <1>2 DEF CommandEvent, Current
<1>7. command' \in {command, 0} /\ (Calm' <=> Calm) BY <1>3, <1>6 DEF Calm
<1>8. WorkerInv'
  <2>1. events' \in [Worker -> Events] BY <1>1, <1>3, DrainedTyped, Workers
  <2>2. QED BY <1>1, <1>3, <2>1, ReadKeeps
<1>9. ThreadPart' /\ \A j : Past(j) => Past(j)'
  BY <1>3, <1>7, <1>8, ReadFits, Workers
<1>10. Shows /\ Calm /\ startedIdle => turn = 0 /\ phase \in {"RUNNING", "DONE"}
  BY <1>5 DEF CommandFits
<1>11. Shows /\ Calm /\ startedIdle /\ e.kind = "completed" => phase = "DONE"
  BY <1>4, <1>5, <1>10 DEF CommandFits, Replies, Is
<1>12. TurnPart'
  <2>1. phase' = phase \/ (turn = 0 /\ phase' # "APPROVAL") \/ ~Calm'
    BY <1>5, <1>6, <1>7, <1>10 DEF PhaseAfter
  <2>2. QED BY <1>3, <1>4, <1>7, <1>9, <2>1, TurnStays, TurnGone
<1>13. CommandFits'
  <2> SUFFICES ASSUME Calm', command' # 0 PROVE CommandFits' BY CommandGone
  <2>1. Calm /\ command # 0 /\ command' = command /\ (picker' => command' = 0)
    BY <1>3, <1>5, <1>6, <1>7 DEF CommandFits
  <2>2. \A j : Replies("command", j) /\ ~Is(e, j, "done") => Replies("command", j)'
    BY <1>3, <1>4 DEF Replies, Replied, Is
  <2>3. CASE ~startedIdle BY <1>3, <2>1, <2>3 DEF CommandFits
  <2>4. CASE startedIdle
    <3>1. turn = 0 /\ phase \in {"RUNNING", "DONE"} /\ (phase = "RUNNING" => Replies("command", command))
      BY <2>1, <2>4 DEF CommandFits
    <3>2. CASE Skips BY <1>3, <2>1, <2>2, <3>1, <3>2 DEF CommandFits, Is
    <3>3. CASE Shows
      <4>1. e.kind \in {"result", "done"} BY <1>5, <2>1, <3>3 DEF Terminal
      <4>2. CASE e.kind = "done"
        <5>1. phase' = "DONE" BY <2>4, <3>1, <3>3, <4>2 DEF PhaseAfter
        <5>2. QED BY <1>3, <2>1, <3>1, <5>1 DEF CommandFits
      <4>3. CASE e.kind = "result"
        <5>1. phase' = phase BY <2>4, <3>1, <3>3, <4>3 DEF PhaseAfter
        <5>2. \A j : ~Is(e, j, "done") BY <4>3 DEF Is
        <5>3. QED BY <1>3, <2>1, <2>2, <3>1, <5>1, <5>2 DEF CommandFits
      <4>4. QED BY <4>1, <4>2, <4>3
    <3>4. QED BY <1>6, <3>2, <3>3
  <2>5. QED BY <1>3, <2>3, <2>4
<1>14. PhaseHasJob'
  <2> SUFFICES ASSUME Busy', ~quitting', ~forgot' PROVE turn' # 0 \/ (command' # 0 /\ startedIdle')
    BY DEF PhaseHasJob
  <2>1. Calm BY <1>3 DEF Calm
  <2>2. CASE phase' = phase /\ command' = command BY <1>3, <2>2 DEF PhaseHasJob, Busy
  <2>3. CASE Shows /\ startedIdle
    <3>1. e.kind \notin Terminal
      BY <1>10, <1>11, <2>1, <2>3 DEF Busy, PhaseAfter, Terminal
    <3>2. QED BY <1>3, <1>5, <2>3, <3>1
  <2>4. CASE Shows /\ ~startedIdle
    <3>1. Busy BY <2>4 DEF Busy
    <3>2. QED BY <1>3, <2>4, <3>1 DEF PhaseHasJob
  <2>5. QED BY <1>6, <2>2, <2>3, <2>4
<1>15. OnlyPickRaises' BY <1>3 DEF OnlyPickRaises
<1>16. ForgotFits'
  <2> SUFFICES ASSUME forgot', ~quitting' PROVE turn' = 0 /\ command' = 0 /\ Busy' BY DEF ForgotFits
  <2>1. turn = 0 /\ command = 0 /\ Busy BY <1>3 DEF ForgotFits
  <2>2. Skips BY <1>5, <1>6, <2>1
  <2>3. QED BY <1>3, <2>1, <2>2 DEF Busy
<1>17. QED BY <1>9, <1>12, <1>13, <1>14, <1>15, <1>16

------------------------------------------------------------------------------
(* What the interface does                                                  *)

\* The jobs and the phase are left alone.
LEMMA IdleStep ==
  ASSUME ScreenInv, UNCHANGED workerVars,
         UNCHANGED <<turn, command, startedIdle, phase, shown, resumes, quitting, raised, forgot>>,
         picker' => picker \/ command = 0
  PROVE  Screen'
<1> USE DEF ScreenInv, Screen
<1>1. UNCHANGED <<jobs, accepted, cancelled, stopping, controls, issued, processing, pc, job, result,
                  approvals, pending, answered, answers, events>>
  BY DEF workerVars, queueVars, threadVars, approvalVars
<1>2. WorkerInv BY DEF ThreadPart
<1>3. WorkerInv'
  <2>1. events' \in [Worker -> Events] BY <1>1, <1>2 DEF WorkerInv, TypeOK, Events
  <2>2. UNCHANGED <<queueVars, threadVars>> BY DEF workerVars
  <2>3. QED BY <1>1, <1>2, <2>1, <2>2, ReadKeeps
<1>4. ThreadPart'
  <2>1. \A e : Fits(e) => Fits(e)' BY <1>1 DEF Fits, Past
  <2>2. EventsFit' /\ CommandEventsFit' BY <1>1, <2>1 DEF ThreadPart, EventsFit, CommandEventsFit, Said
  <2>3. ThreadsFit' BY <1>1 DEF ThreadPart, ThreadsFit, Calm
  <2>4. QED BY <1>3, <2>2, <2>3 DEF ThreadPart
<1>5. TurnPart'
  <2>1. \A j : Past(j) => Past(j)' BY <1>1 DEF Past
  <2>2. QED BY <1>1, <2>1, TurnStays DEF Calm
<1>6. CommandFits' BY <1>1, CommandStays DEF Calm
<1>7. PhaseHasJob' /\ OnlyPickRaises' /\ ForgotFits' BY DEF PhaseHasJob, OnlyPickRaises, ForgotFits, Busy
<1>8. QED BY <1>4, <1>5, <1>6, <1>7

\* An error is raised, or the user leaves: the workers are stopped.
LEMMA LeaveStep ==
  ASSUME ScreenInv, StopAll, UNCHANGED <<approvals, pending>>,
         \/ UNCHANGED <<answered, answers>>
         \/ \E a \in Nat : Gives("turn", a, FALSE),
         ~Calm', UNCHANGED <<turn, command, resumes>>,
         PhaseHasJob', OnlyPickRaises', ForgotFits'
  PROVE  Screen'
<1> USE DEF ScreenInv, Screen
<1>1. WorkerInv BY DEF ThreadPart
<1>2. /\ WorkerInv' /\ JobsIn(jobs'["turn"]) = JobsIn(jobs["turn"])
      /\ UNCHANGED <<accepted, cancelled, issued, pc, job, result, events>>
  BY <1>1, StopAllKeeps
<1>3. Call BY <1>1, <1>2, WorkerTypes DEF Call
<1>4. ThreadPart'
  <2>1. turn' \in 0..issued'["turn"] /\ command' \in 0..issued'["command"] BY <1>2 DEF ThreadPart, ThreadsFit
  <2>2. QED BY <1>2, <1>3, <2>1, CallFits
<1>5. QED BY <1>4, TurnGone, CommandGone

\* What a submission changes.
LEMMA Submitted ==
  ASSUME ThreadPart, NEW w \in Worker, Submit(w)
  PROVE  /\ WorkerInv' /\ Call
         /\ issued'[w] = issued[w] + 1 /\ issued[w] \in Nat /\ ~stopping[w]
         /\ UNCHANGED <<cancelled, stopping, approvalVars>>
         /\ \A v \in Worker \ {w} : jobs'[v] = jobs[v] /\ issued'[v] = issued[v] /\ pc'[v] = pc[v]
<1>1. WorkerInv BY DEF ThreadPart
<1>2. WorkerInv' /\ issued'[w] = issued[w] + 1 BY <1>1, SubmitKeeps
<1>3. /\ issued \in [Worker -> Nat] /\ jobs \in [Worker -> Seq(Item)] /\ pc \in [Worker -> Places]
  BY <1>1 DEF WorkerInv, TypeOK, Item
<1>4. /\ UNCHANGED <<cancelled, stopping, job, result, approvalVars, events>> /\ ~stopping[w]
      /\ jobs'[w] = Append(jobs[w], JobItem(issued[w] + 1))
      /\ \A v \in Worker \ {w} : jobs'[v] = jobs[v] /\ issued'[v] = issued[v] /\ pc'[v] = pc[v]
      /\ \A v \in Worker : pc'[v] = pc[v] \/ (pc[v] = "unborn" /\ pc'[v] = "get")
  BY <1>2, <1>3 DEF Submit
<1>5. JobsIn(jobs'["turn"]) \subseteq JobsIn(jobs["turn"]) \cup (issued["turn"] + 1..issued'["turn"])
  <2>1. CASE w = "turn"
    <3>1. JobItem(issued[w] + 1) \in Item /\ JobItem(issued[w] + 1).kind = "job"
          /\ JobItem(issued[w] + 1).id = issued[w] + 1
      BY <1>3 DEF JobItem, Item
    <3>2. JobsIn(jobs'[w]) = JobsIn(jobs[w]) \cup {issued[w] + 1} BY <1>3, <1>4, <3>1, JobsAppend
    <3>3. issued[w] \in Nat /\ issued[w] + 1 \in issued[w] + 1..issued'[w] BY <1>2, <1>3
    <3>4. QED BY <2>1, <3>2, <3>3
  <2>2. CASE w # "turn" BY <1>4, <2>2, Workers
  <2>3. QED BY <2>1, <2>2
<1>6. Call
  <2>1. ASSUME NEW v \in Worker PROVE issued[v] <= issued'[v]
    <3>1. issued[v] \in Nat BY <1>3
    <3>2. issued'[v] = issued[v] \/ issued'[v] = issued[v] + 1 BY <1>2, <1>4
    <3>3. QED BY <3>1, <3>2
  <2>2. QED BY <1>4, <1>5, <2>1 DEF Call
<1>7. QED BY <1>2, <1>3, <1>4, <1>6

\* A turn that was running is forgotten: only its thread knows of it.
LEMMA ForgetStep ==
  ASSUME ScreenInv, UNCHANGED workerVars, raised = {},
         UNCHANGED <<command, startedIdle, phase, shown, resumes, quitting, raised>>,
         turn' = 0, picker, forgot' <=> forgot \/ Busy
  PROVE  Screen'
<1> USE DEF ScreenInv, Screen
<1>1. UNCHANGED <<jobs, accepted, cancelled, stopping, controls, issued, processing, pc, job, result,
                  approvals, pending, answered, answers, events>>
  BY DEF workerVars, queueVars, threadVars, approvalVars
<1>2. WorkerInv BY DEF ThreadPart
<1>3. WorkerInv'
  <2>1. events' \in [Worker -> Events] BY <1>1, <1>2 DEF WorkerInv, TypeOK, Events
  <2>2. UNCHANGED <<queueVars, threadVars>> BY DEF workerVars
  <2>3. QED BY <1>1, <1>2, <2>1, <2>2, ReadKeeps
<1>4. Calm' => Calm /\ ~Busy BY DEF Calm
<1>5. ThreadPart'
  <2>1. \A e : Fits(e) => Fits(e)' BY <1>1 DEF Fits, Past
  <2>2. EventsFit' /\ CommandEventsFit' BY <1>1, <2>1 DEF ThreadPart, EventsFit, CommandEventsFit, Said
  <2>3. issued["turn"] \in Nat BY <1>2, Workers, WorkerTypes
  <2>4. ThreadsFit' BY <1>1, <1>4, <2>3 DEF ThreadPart, ThreadsFit
  <2>5. QED BY <1>3, <2>2, <2>4 DEF ThreadPart
<1>6. TurnPart'
  <2>1. ~Calm' \/ (turn' = 0 /\ phase' # "APPROVAL") BY <1>4 DEF Busy
  <2>2. QED BY <2>1, TurnGone
<1>7. CommandFits'
  <2>1. ~Calm' \/ command' = 0 BY <1>4 DEF CommandFits
  <2>2. QED BY <2>1, CommandGone
<1>8. PhaseHasJob' /\ OnlyPickRaises' BY DEF PhaseHasJob, OnlyPickRaises, Busy
<1>9. ForgotFits'
  <2>1. ~quitting /\ ~forgot => command = 0 BY DEF CommandFits, Calm
  <2>2. QED BY <2>1 DEF ForgotFits, Busy
<1>10. QED BY <1>5, <1>6, <1>7, <1>8, <1>9

LEMMA StartTurnStep ==
  ASSUME ScreenInv, NEW place \in {"key", "drain", "update", "picker"}, NEW messages,
         StartTurn(place, messages), Up,
         place # "picker" => turn = 0 /\ command = 0 /\ ~quitting, place = "key" => ~Busy,
         Calm => command = 0, UNCHANGED <<quitting, forgot>>, picker' => picker
  PROVE  Screen'
<1> USE DEF ScreenInv, Screen
<1>1. CASE Busy
  <2>1. place = "picker" \/ (forgot /\ place \in {"drain", "update"}) BY <1>1 DEF PhaseHasJob
  <2>2. Fails(place) BY <1>1 DEF StartTurn
  <2>3. /\ raised' = {place} /\ StopAll /\ UNCHANGED <<approvals, pending, answered, answers>>
        /\ UNCHANGED <<turn, command, startedIdle, phase, resumes>>
    BY <2>2 DEF Fails, approvalVars, turnView, commandView, record
  <2>4. ~Calm' BY <2>3 DEF Calm
  <2>5. PhaseHasJob' /\ OnlyPickRaises' /\ ForgotFits'
    BY <2>1, <2>3 DEF PhaseHasJob, OnlyPickRaises, ForgotFits, Busy
  <2>6. QED BY <2>3, <2>4, <2>5, LeaveStep
<1>2. CASE ~Busy
  <2>1. /\ phase' = "RUNNING" /\ Submit("turn") /\ turn' = issued'["turn"]
        /\ resumes' \in {resumes, resumes \cup {turn'}}
        /\ UNCHANGED <<command, startedIdle, shown, raised>>
    BY <1>2 DEF StartTurn, commandView
  <2>2. /\ WorkerInv' /\ Call /\ issued'["turn"] = issued["turn"] + 1 /\ issued["turn"] \in Nat
        /\ UNCHANGED <<cancelled, stopping, approvalVars>>
        /\ issued'["command"] = issued["command"]
    BY <2>1, Submitted, Workers
  <2>3. Calm' <=> Calm BY <2>1 DEF Calm
  <2>4. ThreadPart'
    <3>1. turn' \in issued["turn"] + 1..issued'["turn"] /\ turn' \in 0..issued'["turn"] BY <2>1, <2>2
    <3>2. resumes \subseteq resumes' /\ resumes' \subseteq resumes \cup (issued["turn"] + 1..issued'["turn"])
      BY <2>1, <3>1
    <3>3. command' \in 0..issued'["command"] BY <2>1, <2>2 DEF ThreadPart, ThreadsFit
    <3>4. \A w \in Worker : stopping'[w] => ~Calm' BY <2>2, <2>3 DEF ThreadPart, ThreadsFit
    <3>5. QED BY <2>2, <3>1, <3>2, <3>3, <3>4, CallFits
  <2>5. TurnPart'
    <3>1. Said("turn")' = Said("turn") /\ UNCHANGED <<events, job>> BY <2>2 DEF Said, Call
    <3>2. \A e \in Said("turn") : e.job # turn' BY <2>1, <2>2 DEF ThreadPart, EventsFit, Fits
    <3>3. job["turn"] # turn' BY <2>1, <2>2, WorkerTypes, Workers DEF ThreadPart
    <3>4. PhaseFits' /\ DoneFits' /\ ApprovalFits' BY <2>1 DEF PhaseFits, DoneFits, ApprovalFits
    <3>5. StopFits'
      <4>1. turn' \notin cancelled["turn"] BY <2>1, <2>2, WorkerTypes, Workers DEF ThreadPart
      <4>2. QED BY <2>2, <4>1 DEF StopFits
    <3>6. \A i \in 1..Len(events["turn"]) : events["turn"][i].job # turn' BY <3>2 DEF Said, Elements
    <3>7. AskFits' BY <3>1, <3>2, <3>6 DEF AskFits, AskLast, Is
    <3>8. EndFits' BY <3>1, <3>3, <3>6 DEF EndFits, Replies, DoneFirst, Is
    <3>9. QED BY <3>4, <3>5, <3>7, <3>8 DEF TurnPart
  <2>6. CommandFits' BY <2>1, <2>3, CommandGone
  <2>7. PhaseHasJob' BY <2>1, <2>2 DEF PhaseHasJob
  <2>8. OnlyPickRaises' BY <2>1 DEF OnlyPickRaises
  <2>9. ForgotFits' BY <1>2 DEF ForgotFits
  <2>10. QED BY <2>4, <2>5, <2>6, <2>7, <2>8, <2>9
<1>3. QED BY <1>1, <1>2

LEMMA StartCommandStep ==
  ASSUME ScreenInv, StartCommand
  PROVE  Screen'
<1> USE DEF ScreenInv, Screen
<1>1. /\ CanType /\ command = 0 /\ UNCHANGED <<picker, quitting, forgot>>
      /\ raised = {} /\ ~quitting /\ ~picker
  BY DEF StartCommand, CanType, Up, ending
<1>2. turn = 0 /\ Busy => forgot BY <1>1 DEF PhaseHasJob
<1>3. CASE Refused
  <2>1. /\ UNCHANGED workerVars /\ UNCHANGED <<turn, command, startedIdle, phase, shown, resumes, raised>>
    BY <1>3 DEF Refused, turnView, commandView, record
  <2>2. QED BY <1>1, <2>1, IdleStep
<1>4. CASE ~Refused /\ turn = 0 /\ Busy
  <2>1. /\ raised' = {"command"} /\ StopAll /\ UNCHANGED <<approvals, pending, answered, answers>>
        /\ UNCHANGED <<turn, command, phase, resumes>>
    BY <1>4 DEF StartCommand, approvalVars, record
  <2>2. ~Calm' BY <2>1 DEF Calm
  <2>3. PhaseHasJob' /\ OnlyPickRaises' /\ ForgotFits'
    BY <1>1, <1>2, <1>4, <2>1 DEF PhaseHasJob, OnlyPickRaises, ForgotFits, Busy
  <2>4. QED BY <2>1, <2>2, <2>3, LeaveStep
<1>5. CASE ~Refused /\ ~(turn = 0 /\ Busy)
  <2>1. /\ startedIdle' = (turn = 0) /\ phase' = (IF turn = 0 THEN "RUNNING" ELSE phase)
        /\ Submit("command") /\ command' = issued'["command"]
        /\ UNCHANGED <<turn, shown, raised, resumes>>
    BY <1>5 DEF StartCommand, record
  <2>2. /\ WorkerInv' /\ Call /\ issued'["command"] = issued["command"] + 1 /\ issued["command"] \in Nat
        /\ UNCHANGED <<cancelled, stopping, approvalVars>>
        /\ issued'["turn"] = issued["turn"] /\ pc'["turn"] = pc["turn"]
    BY <2>1, Submitted, Workers
  <2>3. Calm' <=> Calm BY <1>1, <2>1 DEF Calm
  <2>4. ThreadPart' /\ \A j \in 1..issued["turn"] : Past(j) => Past(j)'
    <3>1. turn' \in 0..issued'["turn"] /\ command' \in 0..issued'["command"]
      BY <2>1, <2>2 DEF ThreadPart, ThreadsFit
    <3>2. \A w \in Worker : stopping'[w] => ~Calm' BY <2>2, <2>3 DEF ThreadPart, ThreadsFit
    <3>3. QED BY <2>1, <2>2, <3>1, <3>2, CallFits
  <2>5. TurnPart'
    <3>1. UNCHANGED <<events, job, result, pending, answered, cancelled>> BY <2>2 DEF Call, approvalVars
    <3>2. QED BY <2>1, <2>2, <2>3, <2>4, <3>1, TurnStays
  <2>6. CommandFits'
    <3>1. Said("command")' = Said("command") /\ UNCHANGED <<events, job>> BY <2>2 DEF Said, Call
    <3>2. \A e \in Said("command") : e.job # command' BY <2>1, <2>2 DEF ThreadPart, CommandEventsFit
    <3>3. job["command"] # command' BY <2>1, <2>2, WorkerTypes, Workers DEF ThreadPart
    <3>4. \A i \in 1..Len(events["command"]) : events["command"][i].job # command'
      BY <3>2 DEF Said, Elements
    <3>5. Replies("command", command)' BY <3>1, <3>3, <3>4 DEF Replies, DoneFirst, Is
    <3>6. QED BY <1>1, <2>1, <3>5 DEF CommandFits
  <2>7. PhaseHasJob'
    <3>1. command' # 0 BY <2>1, <2>2
    <3>2. CASE turn = 0
      <4>1. startedIdle' BY <2>1, <3>2
      <4>2. QED BY <3>1, <4>1 DEF PhaseHasJob
    <3>3. CASE turn # 0 BY <2>1, <3>3 DEF PhaseHasJob
    <3>4. QED BY <3>2, <3>3
  <2>8. OnlyPickRaises' BY <1>1, <2>1 DEF OnlyPickRaises
  <2>9. ForgotFits' BY <1>1, <1>5 DEF ForgotFits
  <2>10. QED BY <2>4, <2>5, <2>6, <2>7, <2>8, <2>9
<1>6. QED BY <1>3, <1>4, <1>5

\* What a cancellation changes.
LEMMA CancelFits ==
  ASSUME ThreadPart, NEW w \in Worker, NEW j, Cancel(w, j) \/ UNCHANGED workerVars,
         Calm' <=> Calm, turn' \in {turn, 0}, command' \in {command, 0}, resumes' = resumes
  PROVE  /\ ThreadPart' /\ \A n : Past(n) => Past(n)'
         /\ UNCHANGED <<events, pc, job, result>>
         /\ \A v \in Worker \ {w} : /\ cancelled'[v] = cancelled[v] /\ pending'[v] = pending[v]
                                    /\ answered'[v] = answered[v]
         /\ cancelled'[w] \subseteq cancelled[w] \cup {j}
<1>1. WorkerInv BY DEF ThreadPart
<1>2. /\ UNCHANGED <<jobs, accepted, stopping, issued, pc, job, result, events>>
      /\ \A v \in Worker \ {w} : /\ cancelled'[v] = cancelled[v] /\ pending'[v] = pending[v]
                                 /\ answered'[v] = answered[v]
      /\ cancelled'[w] \subseteq cancelled[w] \cup {j}
  <2>1. CASE UNCHANGED workerVars BY <2>1 DEF workerVars, queueVars, threadVars, approvalVars
  <2>2. CASE Cancel(w, j)
    <3>1. /\ UNCHANGED <<jobs, accepted, stopping, issued, pc, job, result, events>>
          /\ cancelled' = [cancelled EXCEPT ![w] = @ \cup {j}]
      BY <2>2 DEF Cancel, threadVars
    <3>2. cancelled \in [Worker -> SUBSET Nat] /\ pending \in [Worker -> Nat] /\ answered \in [Worker -> BOOLEAN]
      BY <1>1 DEF WorkerInv, TypeOK
    <3>3. \A v \in Worker \ {w} : pending'[v] = pending[v] /\ answered'[v] = answered[v]
      <4>1. CASE Active(w) /\ j = job[w] BY <2>2, <3>2, <4>1 DEF Cancel
      <4>2. CASE ~(Active(w) /\ j = job[w]) BY <2>2, <4>2 DEF Cancel
      <4>3. QED BY <4>1, <4>2
    <3>4. QED BY <3>1, <3>2, <3>3
  <2>3. QED BY <2>1, <2>2
<1>3. WorkerInv'
  <2>1. CASE UNCHANGED workerVars
    <3>1. UNCHANGED <<queueVars, threadVars, approvals, pending, answered, answers, events>>
      BY <2>1 DEF workerVars, approvalVars
    <3>2. events' \in [Worker -> Events] BY <1>1, <3>1 DEF WorkerInv, TypeOK, Events
    <3>3. QED BY <1>1, <3>1, <3>2, ReadKeeps
  <2>2. QED BY <1>1, <2>1, CancelKeeps
<1>4. \A n : Past(n) => Past(n)' BY <1>2 DEF Past
<1>5. EventsFit' /\ CommandEventsFit'
  <2>1. \A e : Fits(e) => Fits(e)' BY <1>2, <1>4 DEF Fits
  <2>2. QED BY <1>2, <2>1 DEF ThreadPart, EventsFit, CommandEventsFit, Said
<1>6. ThreadsFit'
  <2>1. issued["turn"] \in Nat /\ issued["command"] \in Nat BY <1>1, Workers, WorkerTypes
  <2>2. turn' \in 0..issued["turn"] /\ command' \in 0..issued["command"]
    BY <2>1 DEF ThreadPart, ThreadsFit
  <2>3. QED BY <1>2, <2>2 DEF ThreadPart, ThreadsFit
<1>7. QED BY <1>2, <1>3, <1>4, <1>5, <1>6 DEF ThreadPart

LEMMA EscapeStep ==
  ASSUME ScreenInv, EscapeTwice
  PROVE  Screen'
<1> USE DEF ScreenInv, Screen
<1>1. /\ raised = {} /\ ~quitting /\ Calm /\ Calm' /\ ~forgot'
      /\ UNCHANGED <<picker, quitting, raised, resumes>>
  <2>1. ~quitting /\ (turn # 0 \/ command # 0) BY DEF EscapeTwice, StopCommand, StopTurn
  <2>2. ~forgot BY <2>1 DEF ForgotFits
  <2>3. QED BY <2>1, <2>2 DEF EscapeTwice, Up, idleKeys, ending, record, Calm
<1>2. CASE StopCommand
  <2>1. /\ Cancel("command", command) \/ UNCHANGED workerVars
        /\ command # 0 /\ command' = 0 /\ startedIdle' = FALSE
        /\ phase' = (IF startedIdle /\ turn = 0 THEN "IDLE" ELSE phase)
        /\ UNCHANGED <<turn, shown>>
    BY <1>2 DEF StopCommand
  <2>2. /\ ThreadPart' /\ \A n : Past(n) => Past(n)'
        /\ UNCHANGED <<events, pc, job, result>>
        /\ cancelled'["turn"] = cancelled["turn"] /\ pending'["turn"] = pending["turn"]
        /\ answered'["turn"] = answered["turn"]
    <3>1. Calm' <=> Calm BY <1>1
    <3>2. QED BY <1>1, <2>1, <3>1, CancelFits, Workers
  <2>3. TurnPart' BY <1>1, <2>1, <2>2, TurnStays
  <2>4. CommandFits' BY <2>1, CommandGone
  <2>5. PhaseHasJob'
    <3>1. ~(startedIdle /\ turn = 0) /\ Busy => turn # 0 BY <1>1, <2>1 DEF PhaseHasJob, Calm
    <3>2. phase' = "IDLE" \/ (phase' = phase /\ ~(startedIdle /\ turn = 0)) BY <2>1
    <3>3. QED BY <2>1, <3>1, <3>2 DEF PhaseHasJob, Busy
  <2>6. OnlyPickRaises' /\ ForgotFits' BY <1>1 DEF OnlyPickRaises, ForgotFits
  <2>7. QED BY <2>2, <2>3, <2>4, <2>5, <2>6
<1>3. CASE StopTurn
  <2>1. /\ Cancel("turn", turn) /\ command = 0 /\ turn # 0 /\ phase # "STOPPING"
        /\ phase' = (IF phase \in Stoppable THEN "STOPPING" ELSE phase) /\ shown' = 0
        /\ UNCHANGED <<turn, command, startedIdle>>
    BY <1>3 DEF StopTurn, commandView
  <2>2. /\ ThreadPart' /\ UNCHANGED <<events, pc, job, result>>
        /\ cancelled'["turn"] \subseteq cancelled["turn"] \cup {turn}
    <3>1. Calm' <=> Calm BY <1>1
    <3>2. QED BY <1>1, <2>1, <3>1, CancelFits, Workers
  <2>3. TurnPart'
    <3>1. CASE phase' = "STOPPING" BY <3>1, TurnStopping
    <3>2. CASE phase' # "STOPPING"
      <4>1. Live /\ Live' BY <1>1, <2>1 DEF Live
      <4>2. phase = "IDLE" /\ phase' = "IDLE" /\ turn \in resumes
        BY <2>1, <3>2, <4>1 DEF TurnPart, PhaseFits, Stoppable, ViewTypeOK
      <4>3. Said("turn")' = Said("turn") BY <2>2 DEF Said
      <4>4. PhaseFits' /\ DoneFits' /\ ApprovalFits' BY <1>1, <2>1, <4>2 DEF PhaseFits, DoneFits, ApprovalFits
      <4>5. StopFits' BY <1>1, <2>1, <4>2 DEF StopFits
      <4>6. AskFits' BY <2>1, <2>2, <4>1, <4>2, <4>3 DEF TurnPart, AskFits
      <4>7. EndFits' BY <2>1, <2>2, <4>1, <4>2, <4>3 DEF TurnPart, EndFits, Replies, Replied
      <4>8. QED BY <4>4, <4>5, <4>6, <4>7 DEF TurnPart
    <3>3. QED BY <3>1, <3>2
  <2>4. CommandFits' BY <2>1, CommandGone
  <2>5. PhaseHasJob' BY <2>1 DEF PhaseHasJob
  <2>6. OnlyPickRaises' /\ ForgotFits' BY <1>1 DEF OnlyPickRaises, ForgotFits
  <2>7. QED BY <2>2, <2>3, <2>4, <2>5, <2>6
<1>4. QED BY <1>2, <1>3 DEF EscapeTwice

LEMMA ResolveStep ==
  ASSUME ScreenInv, Resolve
  PROVE  Screen'
<1> USE DEF ScreenInv, Screen
<1>1. /\ raised = {} /\ phase = "APPROVAL" /\ shown # 0 /\ shown \in Nat
      /\ Respond("turn", shown, TRUE) /\ phase' = "RUNNING"
      /\ UNCHANGED <<turn, command, startedIdle, picker, quitting, forgot, raised, resumes>>
      /\ (Calm' <=> Calm)
  BY DEF Resolve, Up, commandView, idleKeys, ending, record, Calm, ViewTypeOK
<1>2. WorkerInv BY DEF ThreadPart
<1>3. /\ UNCHANGED <<jobs, accepted, cancelled, stopping, controls, issued, pc, job, result, events>>
      /\ UNCHANGED <<queueVars, threadVars, approvals, pending>>
      /\ Gives("turn", shown, TRUE)
  BY <1>1 DEF Respond, Gives, queueVars, threadVars
<1>4. WorkerInv'
  <2>1. events' \in [Worker -> Events] BY <1>2, <1>3 DEF WorkerInv, TypeOK, Events
  <2>2. \E w \in Worker, a \in Nat, d \in BOOLEAN : Gives(w, a, d) BY <1>1, <1>3, Workers
  <2>3. QED BY <1>2, <1>3, <2>1, <2>2, ReadKeeps
<1>5. ThreadPart'
  <2>1. \A e : Fits(e) => Fits(e)' BY <1>1, <1>3 DEF Fits, Past
  <2>2. EventsFit' /\ CommandEventsFit' BY <1>3, <2>1 DEF ThreadPart, EventsFit, CommandEventsFit, Said
  <2>3. ThreadsFit' BY <1>1, <1>3 DEF ThreadPart, ThreadsFit
  <2>4. QED BY <1>4, <2>2, <2>3 DEF ThreadPart
<1>6. Calm => turn # 0 /\ Asks(shown) /\ \A e \in Said("turn") : e.job # turn
  BY <1>1 DEF TurnPart, ApprovalFits
<1>7. TurnPart'
  <2> SUFFICES ASSUME Calm PROVE TurnPart' BY <1>1, TurnGone
  <2>1. Live /\ Live' BY <1>1, <1>6 DEF Live
  <2>2. Said("turn")' = Said("turn") /\ \A i \in 1..Len(events["turn"]) : events["turn"][i].job # turn
    BY <1>3, <1>6 DEF Said, Elements
  <2>3. PhaseFits' /\ DoneFits' /\ ApprovalFits' BY <1>1 DEF PhaseFits, DoneFits, ApprovalFits
  <2>4. StopFits' BY <1>1, <1>3, <2>1 DEF TurnPart, StopFits
  <2>5. AskFits' BY <1>1, <1>3, <1>6, <2>2 DEF AskFits, AskLast, Is
  <2>6. EndFits'
    <3>1. ~Replied("turn")' BY <1>3, <1>6 DEF Asks, Replied
    <3>2. QED BY <1>1, <1>3, <2>2, <3>1 DEF EndFits, Replies, DoneFirst, Is
  <2>7. QED BY <2>3, <2>4, <2>5, <2>6 DEF TurnPart
<1>8. CommandFits'
  <2>1. command # 0 /\ startedIdle /\ Calm' => UNCHANGED <<turn, phase>> BY <1>1, <1>6 DEF CommandFits
  <2>2. QED BY <1>1, <1>3, <2>1, CommandStays
<1>9. PhaseHasJob' /\ ForgotFits' BY <1>1 DEF PhaseHasJob, ForgotFits, Busy
<1>10. OnlyPickRaises' BY <1>1 DEF OnlyPickRaises
<1>11. QED BY <1>5, <1>7, <1>8, <1>9, <1>10

LEMMA ClearChatStep ==
  ASSUME ScreenInv, ClearChat
  PROVE  Screen'
<1> USE DEF ScreenInv, Screen
<1>1. /\ raised = {} /\ ~quitting /\ turn = 0 /\ command = 0 /\ AddControl("turn") /\ phase' = "IDLE"
      /\ UNCHANGED <<turn, command, picker, quitting, raised, resumes>>
      /\ Calm /\ Calm' /\ ~forgot'
  <2>1. ~quitting /\ ~Busy BY DEF ClearChat, CanType, Waits, Occupied, Busy
  <2>2. ~forgot BY <2>1 DEF ForgotFits
  <2>3. QED BY <2>1, <2>2 DEF ClearChat, CanType, Up, Waits, Occupied, commandView, idleKeys, ending, record, Calm
<1>2. WorkerInv BY DEF ThreadPart
<1>3. WorkerInv' BY <1>1, <1>2, ControlKeeps, Workers
<1>4. /\ UNCHANGED <<issued, stopping, job, result, events>>
      /\ jobs' = [jobs EXCEPT !["turn"] = Append(@, Control)]
      /\ pc' = [pc EXCEPT !["turn"] = IF @ = "unborn" THEN "get" ELSE @]
  BY <1>1 DEF AddControl
<1>5. Call
  <2>1. jobs \in [Worker -> Seq(Item)] /\ pc \in [Worker -> Places] /\ issued \in [Worker -> Nat]
    BY <1>2 DEF WorkerInv, TypeOK, Item
  <2>2. Control \in Item /\ Control.kind # "job" BY DEF Control, Item
  <2>3. jobs'["turn"] = Append(jobs["turn"], Control) BY <1>4, <2>1, Workers
  <2>4. JobsIn(jobs'["turn"]) = JobsIn(jobs["turn"]) BY <2>1, <2>2, <2>3, JobsAppend, Workers
  <2>5. \A w \in Worker : pc'[w] = pc[w] \/ (pc[w] = "unborn" /\ pc'[w] = "get") BY <1>4, <2>1
  <2>6. \A w \in Worker : issued[w] <= issued'[w] BY <1>4, <2>1
  <2>7. QED BY <1>4, <2>4, <2>5, <2>6 DEF Call
<1>6. ThreadPart'
  <2>1. turn' \in 0..issued'["turn"] /\ command' \in 0..issued'["command"]
    BY <1>1, <1>4 DEF ThreadPart, ThreadsFit
  <2>2. \A w \in Worker : stopping'[w] => ~Calm' BY <1>1, <1>4 DEF ThreadPart, ThreadsFit
  <2>3. QED BY <1>1, <1>3, <1>5, <2>1, <2>2, CallFits
<1>7. TurnPart' BY <1>1, TurnGone
<1>8. CommandFits' BY <1>1, CommandGone
<1>9. PhaseHasJob' /\ OnlyPickRaises' /\ ForgotFits' BY <1>1 DEF PhaseHasJob, Busy, OnlyPickRaises, ForgotFits
<1>10. QED BY <1>6, <1>7, <1>8, <1>9

LEMMA QuitStep ==
  ASSUME ScreenInv, NEW here \in BOOLEAN, Quit(here)
  PROVE  Screen'
<1>1. /\ StopAll /\ quitting' /\ UNCHANGED <<approvals, pending, turn, command, resumes, raised, forgot>>
      /\ shown \in Nat
  BY DEF Quit, commandView, record, ScreenInv, ViewTypeOK
<1>2. \/ UNCHANGED <<answered, answers>>
      \/ \E a \in Nat : Gives("turn", a, FALSE)
  BY <1>1 DEF Quit, Gives
<1>3. ~Calm' BY <1>1 DEF Calm
<1>4. PhaseHasJob' /\ OnlyPickRaises' /\ ForgotFits'
  BY <1>1 DEF ScreenInv, Screen, PhaseHasJob, OnlyPickRaises, ForgotFits
<1>5. QED BY <1>1, <1>2, <1>3, <1>4, LeaveStep

LEMMA ScreenNext ==
  ASSUME ScreenInv, [Next]_vars
  PROVE  Screen'
<1> DEFINE Stays == /\ UNCHANGED workerVars
                    /\ UNCHANGED <<turn, command, startedIdle, phase, shown, resumes, quitting, raised, forgot>>
                    /\ (picker' => picker \/ command = 0)
<1>1. Stays => Screen' BY IdleStep
<1>2. CASE UNCHANGED vars
  <2>1. Stays BY <1>2 DEF vars, viewOnly
  <2>2. QED BY <1>1, <2>1
<1>3. CASE TypeMessage
  <2>1. CanType /\ UNCHANGED <<picker, quitting, forgot>> /\ Up /\ ~quitting BY <1>3 DEF TypeMessage, CanType, ending
  <2>2. CASE StartTurn("key", <<typed'>>) /\ ~Waits
    <3>1. turn = 0 /\ command = 0 /\ ~Busy BY <1>3, <2>2 DEF TypeMessage, Waits, Occupied, Busy
    <3>2. QED BY <2>1, <2>2, <3>1, StartTurnStep
  <2>3. CASE ~(StartTurn("key", <<typed'>>) /\ ~Waits)
    <3>1. Stays BY <1>3, <2>1, <2>3 DEF TypeMessage, Refused, turnView, commandView, record
    <3>2. QED BY <1>1, <3>1
  <2>4. QED BY <2>2, <2>3
<1>4. CASE Pick
  <2>1. Up /\ picker /\ picker' = FALSE /\ UNCHANGED quitting BY <1>4 DEF Pick
  <2>2. Calm => command = 0 BY <2>1 DEF ScreenInv, Screen, CommandFits
  <2>3. CASE StartTurn("picker", <<>>) /\ UNCHANGED forgot BY <2>1, <2>2, <2>3, StartTurnStep
  <2>4. CASE ~(StartTurn("picker", <<>>) /\ UNCHANGED forgot)
    <3>1. /\ UNCHANGED workerVars /\ UNCHANGED <<command, startedIdle, phase, shown, resumes, quitting, raised>>
          /\ turn' = 0 /\ forgot' = (forgot \/ (turn # 0 /\ Busy))
      BY <1>4, <2>1, <2>4 DEF Pick, commandView, record
    <3>2. CASE turn = 0
      <4>1. forgot \in BOOLEAN BY DEF ScreenInv, ViewTypeOK
      <4>2. forgot' = forgot BY <3>1, <3>2, <4>1, Zenon
      <4>3. QED BY <1>1, <2>1, <3>1, <3>2, <4>2
    <3>3. CASE turn # 0
      <4>1. forgot' <=> forgot \/ Busy BY <3>1, <3>3, Zenon
      <4>2. QED BY <2>1, <3>1, <4>1, ForgetStep DEF Up
    <3>4. QED BY <3>2, <3>3
  <2>5. QED BY <2>3, <2>4
<1>5. CASE UpdateTurn
  <2>1. /\ Up /\ ~quitting /\ turn = 0 /\ command = 0 /\ UNCHANGED <<picker, quitting, forgot>>
        /\ StartTurn("update", <<>>)
    BY <1>5 DEF UpdateTurn, ending
  <2>2. QED BY <2>1, StartTurnStep
<1>6. CASE DrainQueue
  <2>1. Up /\ ~quitting /\ turn = 0 /\ command = 0 /\ UNCHANGED <<picker, quitting, forgot>>
    BY <1>6 DEF DrainQueue, ending
  <2>2. CASE StartTurn("drain", <<Head(line)>>) BY <2>1, <2>2, StartTurnStep
  <2>3. CASE ~StartTurn("drain", <<Head(line)>>)
    <3>1. Stays BY <1>6, <2>1, <2>3 DEF DrainQueue, Refused, turnView, commandView, record
    <3>2. QED BY <1>1, <3>1
  <2>4. QED BY <2>2, <2>3
<1>7. CASE OpenEdit \/ FinishEdit \/ ClosePicker
  <2>1. UNCHANGED picker \/ picker' = FALSE BY <1>7 DEF OpenEdit, FinishEdit, ClosePicker, idleKeys
  <2>2. Stays
    BY <1>7, <2>1 DEF OpenEdit, FinishEdit, ClosePicker, idleKeys, turnView, commandView, record, ending
  <2>3. QED BY <1>1, <2>2
<1>8. CASE OpenPicker
  <2>1. command = 0 BY <1>8 DEF OpenPicker, Waits, Occupied
  <2>2. Stays BY <1>8, <2>1 DEF OpenPicker, turnView, commandView, record, ending
  <2>3. QED BY <1>1, <2>2
<1>9. CASE Pause \/ Continue \/ Exit
  <2>1. Stays BY <1>9 DEF Pause, Continue, Exit, idleKeys, turnView, commandView, record, ending
  <2>2. QED BY <1>1, <2>1
<1>10. CASE Quit(TRUE) \/ Quit(FALSE) BY <1>10, QuitStep
<1>11. QED
  BY <1>2, <1>3, <1>4, <1>5, <1>6, <1>7, <1>8, <1>9, <1>10, EscapeStep, ClearChatStep, StartCommandStep,
     ResolveStep, TurnEventStep, CommandEventStep, TurnThreadStep, CommandThreadStep, RestoredStep
  DEF Next, Key

------------------------------------------------------------------------------
(* The messages                                                             *)

Rises(q) == \A i, k \in 1..Len(q) : i < k => q[i] < q[k]
Below(q, s) == \A a \in Elements(q), b \in Elements(s) : a < b

MessageInv ==
  /\ typed \in Nat /\ line \in Seq(1..typed) /\ sent \in Seq(1..typed) /\ dropped \subseteq 1..typed
  /\ Rises(sent) /\ Rises(line) /\ Below(sent, line)
  /\ raised = {} => 1..typed = Elements(line) \cup Elements(sent) \cup dropped

LEMMA Widened ==
  ASSUME NEW n \in Nat, NEW q \in Seq(1..n)
  PROVE  /\ q \in Seq(1..n + 1) /\ q \in Seq(Nat) /\ Elements(q) \subseteq 1..n
         /\ \A i \in 1..Len(q) : q[i] \in Elements(q)
<1>1. 1..n \subseteq 1..n + 1 /\ 1..n \subseteq Nat OBVIOUS
<1>2. Len(q) \in Nat /\ q \in [1..Len(q) -> 1..n] OBVIOUS
<1>3. q \in [1..Len(q) -> 1..n + 1] /\ q \in [1..Len(q) -> Nat] BY <1>1, <1>2
<1>4. q \in Seq(1..n + 1) /\ q \in Seq(Nat) BY <1>2, <1>3
<1>5. QED BY <1>2, <1>4 DEF Elements

LEMMA JoinedIsAppended ==
  ASSUME NEW n \in Nat, NEW q \in Seq(1..n), NEW x \in 1..n
  PROVE  q \o <<x>> = Append(q, x)
  OBVIOUS

\* A message that is above all others comes last.
LEMMA RisesAppend ==
  ASSUME NEW n \in Nat, NEW q \in Seq(1..n), NEW x \in 1..n, Rises(q), \A a \in Elements(q) : a < x
  PROVE  /\ Append(q, x) \in Seq(1..n) /\ Rises(Append(q, x))
         /\ Elements(Append(q, x)) = Elements(q) \cup {x}
<1>1. /\ Len(q) \in Nat /\ Len(Append(q, x)) = Len(q) + 1 /\ Append(q, x)[Len(q) + 1] = x
      /\ \A i \in 1..Len(q) : Append(q, x)[i] = q[i]
      /\ Elements(Append(q, x)) = Elements(q) \cup {x}
  BY Appended
<1>2. \A i \in 1..Len(q) : q[i] < x BY DEF Elements
<1>3. \A i, k \in 1..Len(q) + 1 : i < k => /\ i \in 1..Len(q) /\ (k \in 1..Len(q) \/ k = Len(q) + 1)
  BY <1>1
<1>4. Rises(Append(q, x)) BY <1>1, <1>2, <1>3 DEF Rises
<1>5. QED BY <1>1, <1>4

LEMMA RisesTail ==
  ASSUME NEW n \in Nat, NEW q \in Seq(1..n), q # <<>>, Rises(q)
  PROVE  /\ Tail(q) \in Seq(1..n) /\ Rises(Tail(q)) /\ Head(q) \in 1..n
         /\ Elements(q) = Elements(Tail(q)) \cup {Head(q)}
         /\ \A a \in Elements(Tail(q)) : Head(q) < a
<1>1. /\ Len(q) \in Nat \ {0} /\ Len(Tail(q)) = Len(q) - 1 /\ Head(q) = q[1] /\ Head(q) \in 1..n
      /\ \A i \in 1..Len(q) - 1 : Tail(q)[i] = q[i + 1]
      /\ Elements(q) = Elements(Tail(q)) \cup {Head(q)}
  BY Shifted
<1>2. \A i \in 1..Len(Tail(q)) : i + 1 \in 1..Len(q) /\ Tail(q)[i] = q[i + 1] /\ 1 < i + 1 BY <1>1
<1>3. \A i, k \in 1..Len(Tail(q)) : i < k => i + 1 < k + 1 OBVIOUS
<1>4. Rises(Tail(q)) BY <1>2, <1>3 DEF Rises
<1>5. 1 \in 1..Len(q) BY <1>1
<1>6. \A i \in 1..Len(Tail(q)) : Head(q) < Tail(q)[i] BY <1>1, <1>2, <1>5 DEF Rises
<1>7. \A a \in Elements(Tail(q)) : Head(q) < a BY <1>6 DEF Elements
<1>8. QED BY <1>1, <1>4, <1>7

\* What a step does to the messages.
Joins == typed' = typed + 1 /\ line' = Append(line, typed') /\ UNCHANGED <<sent, dropped>>

Starts == /\ typed' = typed + 1 /\ line = <<>> /\ line' = <<>> /\ dropped' = dropped
          /\ sent' = sent \o <<typed'>> \/ (sent' = sent /\ raised' # {})

Proceeds == /\ line # <<>> /\ line' = Tail(line) /\ UNCHANGED <<typed, dropped>>
            /\ sent' = sent \o <<Head(line)>> \/ (sent' = sent /\ raised' # {})

Removes == /\ Elements(line') \subseteq Elements(line) /\ line' \in Seq(1..typed) /\ Rises(line')
           /\ dropped' = dropped \cup (Elements(line) \ Elements(line'))
           /\ UNCHANGED <<sent, typed>>

LEMMA MessagesStep ==
  ASSUME MessageInv, raised' = {} => raised = {},
         UNCHANGED <<line, sent, dropped, typed>> \/ Joins \/ Starts \/ Proceeds \/ Removes
  PROVE  MessageInv'
<1> USE DEF MessageInv
<1>1. /\ Elements(sent) \subseteq 1..typed /\ Elements(line) \subseteq 1..typed
      /\ line \in Seq(1..typed + 1) /\ sent \in Seq(1..typed + 1)
  BY Widened
<1>2. CASE UNCHANGED <<line, sent, dropped, typed>> BY <1>2
<1>3. /\ typed + 1 \in Nat /\ 1..typed + 1 = 1..typed \cup {typed + 1}
      /\ \A a \in 1..typed : a < typed + 1
  OBVIOUS
<1>4. CASE Joins
  <2>1. /\ Append(line, typed + 1) \in Seq(1..typed + 1) /\ Rises(Append(line, typed + 1))
        /\ Elements(Append(line, typed + 1)) = Elements(line) \cup {typed + 1}
    <3>1. \A a \in Elements(line) : a < typed + 1 BY <1>1, <1>3
    <3>2. QED BY <1>1, <1>3, <3>1, RisesAppend
  <2>2. Below(sent, line)' BY <1>1, <1>3, <1>4, <2>1 DEF Joins, Below
  <2>3. QED BY <1>1, <1>3, <1>4, <2>1, <2>2 DEF Joins
<1>5. CASE Starts
  <2>1. Elements(line) = {} /\ Elements(line') = {} /\ line' \in Seq(1..typed') /\ Rises(line')
    BY <1>5 DEF Starts, Elements, Rises
  <2>2. Below(sent, line)' BY <2>1 DEF Below
  <2>3. CASE sent' = sent /\ raised' # {} BY <1>1, <1>3, <1>5, <2>1, <2>2, <2>3 DEF Starts
  <2>4. CASE sent' = sent \o <<typed'>>
    <3>1. sent \o <<typed + 1>> = Append(sent, typed + 1) BY <1>1, <1>3, JoinedIsAppended
    <3>2. /\ Append(sent, typed + 1) \in Seq(1..typed + 1) /\ Rises(Append(sent, typed + 1))
          /\ Elements(Append(sent, typed + 1)) = Elements(sent) \cup {typed + 1}
      <4>1. \A a \in Elements(sent) : a < typed + 1 BY <1>1, <1>3
      <4>2. QED BY <1>1, <1>3, <4>1, RisesAppend
    <3>3. QED BY <1>1, <1>3, <1>5, <2>1, <2>2, <2>4, <3>1, <3>2 DEF Starts
  <2>5. QED BY <1>5, <2>3, <2>4 DEF Starts
<1>6. CASE Proceeds
  <2>1. /\ Tail(line) \in Seq(1..typed) /\ Rises(Tail(line)) /\ Head(line) \in 1..typed
        /\ Elements(line) = Elements(Tail(line)) \cup {Head(line)}
        /\ \A a \in Elements(Tail(line)) : Head(line) < a
    BY <1>6, RisesTail DEF Proceeds
  <2>2. CASE sent' = sent /\ raised' # {} BY <1>6, <2>1, <2>2 DEF Proceeds, Below
  <2>3. CASE sent' = sent \o <<Head(line)>>
    <3>1. sent \o <<Head(line)>> = Append(sent, Head(line)) BY <2>1, JoinedIsAppended
    <3>2. /\ Append(sent, Head(line)) \in Seq(1..typed) /\ Rises(Append(sent, Head(line)))
          /\ Elements(Append(sent, Head(line))) = Elements(sent) \cup {Head(line)}
      <4>1. \A a \in Elements(sent) : a < Head(line) BY <2>1 DEF Below
      <4>2. QED BY <2>1, <4>1, RisesAppend
    <3>3. Below(sent, line)' BY <1>6, <2>1, <2>3, <3>1, <3>2 DEF Proceeds, Below
    <3>4. QED BY <1>6, <2>1, <2>3, <3>1, <3>2, <3>3 DEF Proceeds
  <2>4. QED BY <1>6, <2>2, <2>3 DEF Proceeds
<1>7. CASE Removes BY <1>1, <1>7 DEF Removes, Below
<1>8. QED BY <1>2, <1>4, <1>5, <1>6, <1>7

\* An edit keeps the order of what it keeps.
LEMMA Edited ==
  ASSUME MessageInv, FinishEdit
  PROVE  Removes
<1>1. PICK n \in 0..Len(line) : \E at \in [1..n -> 1..Len(line)] :
        /\ \A i, k \in 1..n : i < k => at[i] < at[k]
        /\ line' = [i \in 1..n |-> line[at[i]]]
        /\ dropped' = dropped \cup (Elements(line) \ Elements(line'))
  BY DEF FinishEdit
<1>2. PICK at \in [1..n -> 1..Len(line)] :
        /\ \A i, k \in 1..n : i < k => at[i] < at[k]
        /\ line' = [i \in 1..n |-> line[at[i]]]
        /\ dropped' = dropped \cup (Elements(line) \ Elements(line'))
  BY <1>1
<1>3. UNCHANGED <<sent, typed>> BY DEF FinishEdit, record, counters
<1>4. n \in Nat /\ Len(line) \in Nat /\ \A i \in 1..n : at[i] \in 1..Len(line) BY <1>1, <1>2 DEF MessageInv
<1>5. \A i \in 1..n : line[at[i]] \in 1..typed BY <1>4 DEF MessageInv
<1>6. line' \in Seq(1..typed) /\ Len(line') = n /\ \A i \in 1..n : line'[i] = line[at[i]]
  BY <1>2, <1>4, <1>5
<1>7. Rises(line') BY <1>2, <1>4, <1>6 DEF MessageInv, Rises
<1>8. Elements(line') \subseteq Elements(line) BY <1>4, <1>6 DEF Elements
<1>9. QED BY <1>2, <1>3, <1>6, <1>7, <1>8 DEF Removes

\* What starting a turn does to the messages that were sent.
LEMMA SentByStart ==
  ASSUME NEW place, NEW messages, StartTurn(place, messages)
  PROVE  sent' = sent \o messages \/ (sent' = sent /\ raised' # {})
  BY DEF StartTurn, Fails, record

LEMMA MessagesNext ==
  ASSUME MessageInv, [Next]_vars
  PROVE  MessageInv'
<1> DEFINE Same == UNCHANGED <<line, sent, dropped, typed>>
           Cause == raised' = {} => raised = {}
<1>1. Cause /\ (Same \/ Joins \/ Starts \/ Proceeds \/ Removes) => MessageInv' BY MessagesStep
<1>2. sent \o <<>> = sent BY DEF MessageInv
<1>3. CASE UNCHANGED vars BY <1>1, <1>3 DEF vars, viewOnly
<1>4. CASE TypeMessage
  <2>1. Cause /\ typed' = typed + 1 /\ dropped' = dropped BY <1>4 DEF TypeMessage, CanType, Up
  <2>2. CASE ~Waits /\ StartTurn("key", <<typed'>>) /\ line' = line
    <3>1. line = <<>> BY <2>2 DEF Waits, Occupied
    <3>2. Starts BY <2>1, <2>2, <3>1, SentByStart DEF Starts
    <3>3. QED BY <1>1, <2>1, <3>2
  <2>3. CASE ~(~Waits /\ StartTurn("key", <<typed'>>) /\ line' = line)
    <3>1. Queues(typed') /\ UNCHANGED record BY <1>4, <2>3 DEF TypeMessage, Refused
    <3>2. Joins BY <2>1, <3>1 DEF Joins, Queues, record
    <3>3. QED BY <1>1, <2>1, <3>2
  <2>4. QED BY <2>2, <2>3
<1>5. CASE StartCommand
  <2>1. Cause /\ dropped' = dropped /\ sent' = sent
    BY <1>5 DEF StartCommand, CanType, Up, Refused, record
  <2>2. CASE Refused /\ typed' = typed + 1 /\ Queues(typed') BY <1>1, <2>1, <2>2 DEF Joins, Queues
  <2>3. CASE ~(Refused /\ typed' = typed + 1 /\ Queues(typed'))
    <3>1. UNCHANGED <<line, counters>> BY <1>5, <2>3 DEF StartCommand
    <3>2. Same BY <2>1, <3>1 DEF counters
    <3>3. QED BY <1>1, <2>1, <3>2
  <2>4. QED BY <2>2, <2>3
<1>6. CASE EscapeTwice
  <2>1. /\ Cause /\ line' = <<>> /\ dropped' = dropped \cup Elements(line) /\ UNCHANGED <<sent, typed>>
    BY <1>6 DEF EscapeTwice, Up, ClearLine, record, counters
  <2>2. Elements(line') = {} /\ line' \in Seq(1..typed) /\ Rises(line') BY <2>1 DEF Elements, Rises
  <2>3. Removes BY <2>1, <2>2 DEF Removes
  <2>4. QED BY <1>1, <2>1, <2>3
<1>7. CASE FinishEdit
  <2>1. Cause BY <1>7 DEF FinishEdit, Up
  <2>2. QED BY <1>1, <1>7, <2>1, Edited
<1>8. CASE Pick
  <2>1. Cause /\ dropped' = dropped BY <1>8 DEF Pick, Up
  <2>2. CASE StartTurn("picker", <<>>) /\ UNCHANGED <<line, counters>>
    <3>1. sent' = sent BY <1>2, <2>2, SentByStart
    <3>2. QED BY <1>1, <2>1, <2>2, <3>1 DEF counters
  <2>3. CASE ~(StartTurn("picker", <<>>) /\ UNCHANGED <<line, counters>>)
    <3>1. typed' = typed + 1 /\ Queues(typed') /\ UNCHANGED record BY <1>8, <2>3 DEF Pick, Refused
    <3>2. Joins BY <2>1, <3>1 DEF Joins, Queues, record
    <3>3. QED BY <1>1, <2>1, <3>2
  <2>4. QED BY <2>2, <2>3
<1>9. CASE UpdateTurn
  <2>1. Cause /\ StartTurn("update", <<>>) /\ UNCHANGED <<line, dropped, typed>>
    BY <1>9 DEF UpdateTurn, Up, keyboard
  <2>2. sent' = sent BY <1>2, <2>1, SentByStart
  <2>3. QED BY <1>1, <2>1, <2>2
<1>10. CASE DrainQueue
  <2>1. Cause /\ line # <<>> /\ UNCHANGED <<dropped, typed>> BY <1>10 DEF DrainQueue, Up
  <2>2. CASE StartTurn("drain", <<Head(line)>>) /\ line' = Tail(line)
    <3>1. Proceeds BY <2>1, <2>2, SentByStart DEF Proceeds
    <3>2. QED BY <1>1, <2>1, <3>1
  <2>3. CASE ~(StartTurn("drain", <<Head(line)>>) /\ line' = Tail(line))
    <3>1. UNCHANGED <<line, record>> BY <1>10, <2>3 DEF DrainQueue, Refused
    <3>2. QED BY <1>1, <2>1, <3>1 DEF record
  <2>4. QED BY <2>2, <2>3
<1>11. CASE OpenEdit \/ ClearChat \/ OpenPicker \/ ClosePicker \/ Resolve \/ Quit(TRUE) \/ Quit(FALSE)
  <2>1. Cause /\ Same
    BY <1>11 DEF OpenEdit, ClearChat, OpenPicker, ClosePicker, Resolve, Quit, CanType, Up, keyboard, record,
                 counters
  <2>2. QED BY <1>1, <2>1
<1>12. CASE TurnEvent \/ CommandEvent
  <2>1. Cause /\ Same BY <1>12 DEF TurnEvent, CommandEvent, Up, keyboard, record, counters
  <2>2. QED BY <1>1, <2>1
<1>13. CASE Pause \/ Continue \/ Exit \/ TurnThread \/ CommandThread \/ RestoredThread
  <2>1. Cause /\ Same
    BY <1>13 DEF Pause, Continue, Exit, TurnThread, CommandThread, RestoredThread, viewOnly, keyboard, record,
                 counters
  <2>2. QED BY <1>1, <2>1
<1>14. QED
  BY <1>3, <1>4, <1>5, <1>6, <1>7, <1>8, <1>9, <1>10, <1>11, <1>12, <1>13 DEF Next, Key

\* The order of what was sent and of what waits, read as one sequence.
LEMMA MessagesInOrder == MessageInv => MessagesKept
<1> SUFFICES ASSUME MessageInv PROVE MessagesKept OBVIOUS
<1> USE DEF MessageInv
<1>1. /\ sent \in Seq(Nat) /\ line \in Seq(Nat)
      /\ \A i \in 1..Len(sent) : sent[i] \in Elements(sent)
      /\ \A i \in 1..Len(line) : line[i] \in Elements(line)
  BY Widened
<1>2. /\ Len(sent) \in Nat /\ Len(line) \in Nat /\ Len(sent \o line) = Len(sent) + Len(line)
      /\ \A i \in 1..Len(sent) + Len(line) :
           (sent \o line)[i] = IF i <= Len(sent) THEN sent[i] ELSE line[i - Len(sent)]
  BY <1>1, ConcatProperties
<1>3. ASSUME NEW i \in 1..Len(sent \o line), NEW k \in 1..Len(sent \o line), i < k
      PROVE  (sent \o line)[i] < (sent \o line)[k]
  <2>1. CASE k <= Len(sent)
    <3>1. i \in 1..Len(sent) /\ k \in 1..Len(sent) BY <1>2, <1>3, <2>1
    <3>2. QED BY <1>2, <1>3, <2>1, <3>1 DEF Rises
  <2>2. CASE i <= Len(sent) /\ ~(k <= Len(sent))
    <3>1. i \in 1..Len(sent) /\ k - Len(sent) \in 1..Len(line) BY <1>2, <2>2
    <3>2. sent[i] < line[k - Len(sent)] BY <1>1, <3>1 DEF Below
    <3>3. QED BY <1>2, <2>2, <3>2
  <2>3. CASE ~(i <= Len(sent))
    <3>1. /\ i - Len(sent) \in 1..Len(line) /\ k - Len(sent) \in 1..Len(line)
          /\ i - Len(sent) < k - Len(sent) /\ ~(k <= Len(sent))
      BY <1>2, <1>3, <2>3
    <3>2. line[i - Len(sent)] < line[k - Len(sent)] BY <3>1 DEF Rises
    <3>3. QED BY <1>2, <2>3, <3>1, <3>2
  <2>4. QED BY <2>1, <2>2, <2>3
<1>4. QED BY <1>3 DEF MessagesKept

------------------------------------------------------------------------------
(* The types                                                                *)

Phases == {"IDLE", "RUNNING", "APPROVAL", "STOPPING", "DONE", "ERROR"}
PhaseTyped == phase \in Phases /\ shown \in Nat /\ (shown # 0 /\ ~quitting => phase = "APPROVAL")
FlagsTyped == {startedIdle, alone, editing, picker, paused, quitting, exited, forgot} \subseteq BOOLEAN

\* An approval that is up belongs to a turn, none of whose events is unread.
LEMMA ApprovalUp ==
  ASSUME ScreenInv, Up, ~quitting, ~forgot, shown # 0
  PROVE  phase = "APPROVAL" /\ turn # 0 /\ \A e \in Said("turn") : e.job # turn
  BY DEF ScreenInv, Screen, TurnPart, ApprovalFits, ViewTypeOK, Up, Calm

LEMMA StartTyped ==
  ASSUME PhaseTyped, NEW place, NEW messages, StartTurn(place, messages), quitting' = quitting
  PROVE  PhaseTyped'
<1>1. CASE Busy BY <1>1 DEF StartTurn, Fails, turnView, PhaseTyped
<1>2. CASE ~Busy BY <1>2 DEF StartTurn, PhaseTyped, Busy, Phases
<1>3. QED BY <1>1, <1>2

LEMMA PhaseNext ==
  ASSUME ScreenInv, [Next]_vars
  PROVE  PhaseTyped'
<1>1. PhaseTyped BY DEF ScreenInv, ViewTypeOK, PhaseTyped, Phases
<1> DEFINE Same == UNCHANGED <<phase, shown, quitting>>
<1>2. Same => PhaseTyped' BY <1>1 DEF PhaseTyped
<1>3. CASE UNCHANGED vars BY <1>2, <1>3 DEF vars, viewOnly
<1>4. CASE TypeMessage \/ Pick \/ UpdateTurn \/ DrainQueue
  <2>1. quitting' = quitting BY <1>4 DEF TypeMessage, Pick, UpdateTurn, DrainQueue, ending
  <2>2. \/ \E place \in {"key", "picker", "update", "drain"}, m \in {<<>>, <<typed'>>, <<Head(line)>>} :
             StartTurn(place, m)
        \/ UNCHANGED <<phase, shown>>
    BY <1>4 DEF TypeMessage, Pick, UpdateTurn, DrainQueue, Refused, turnView
  <2>3. CASE UNCHANGED <<phase, shown>> BY <1>2, <2>1, <2>3
  <2>4. QED BY <1>1, <2>1, <2>2, <2>3, StartTyped
<1>5. CASE StartCommand
  <2>1. quitting' = quitting /\ ~quitting BY <1>5 DEF StartCommand, CanType, ending
  <2>2. CASE turn # 0 \/ Busy \/ Refused
    <3>1. UNCHANGED <<phase, shown>> BY <1>5, <2>2 DEF StartCommand, Refused, turnView
    <3>2. QED BY <1>2, <2>1, <3>1
  <2>3. CASE turn = 0 /\ ~Busy /\ ~Refused
    <3>1. phase' = "RUNNING" /\ shown' = shown BY <1>5, <2>3 DEF StartCommand
    <3>2. shown = 0 BY <1>1, <2>1, <2>3 DEF PhaseTyped, Busy
    <3>3. QED BY <1>1, <3>1, <3>2 DEF PhaseTyped, Phases
  <2>4. QED BY <2>2, <2>3
<1>6. CASE EscapeTwice
  <2>1. quitting' = quitting /\ Up /\ ~quitting BY <1>6 DEF EscapeTwice, ending
  <2>2. turn = 0 => shown = 0
    <3>1. turn # 0 \/ command # 0 BY <1>6 DEF EscapeTwice, StopCommand, StopTurn
    <3>2. ~forgot BY <2>1, <3>1 DEF ScreenInv, Screen, ForgotFits
    <3>3. QED BY <2>1, <3>2, ApprovalUp
  <2>3. CASE StopCommand BY <1>1, <2>1, <2>2, <2>3 DEF StopCommand, PhaseTyped, Phases
  <2>4. CASE StopTurn BY <1>1, <2>1, <2>4 DEF StopTurn, PhaseTyped, Phases
  <2>5. QED BY <1>6, <2>3, <2>4 DEF EscapeTwice
<1>7. CASE Resolve \/ ClearChat
  <2>1. CASE Resolve
    <3>1. phase' = "RUNNING" /\ shown' = 0 BY <2>1 DEF Resolve
    <3>2. QED BY <3>1 DEF PhaseTyped, Phases
  <2>2. CASE ClearChat
    <3>1. ~quitting /\ phase # "APPROVAL" BY <2>2 DEF ClearChat, CanType
    <3>2. phase' = "IDLE" /\ shown' = shown BY <2>2 DEF ClearChat
    <3>3. QED BY <1>1, <3>1, <3>2 DEF PhaseTyped, Phases
  <2>3. QED BY <1>7, <2>1, <2>2
<1>8. CASE Quit(TRUE) \/ Quit(FALSE) BY <1>1, <1>8 DEF Quit, PhaseTyped, Phases
<1>9. CASE TurnEvent
  <2>1. Up /\ quitting' = quitting /\ Drained("turn") BY <1>9 DEF TurnEvent, ending
  <2>2. PICK e : e = Head(events["turn"]) OBVIOUS
  <2>3. e \in Said("turn") /\ e.kind \in EventKinds /\ e.approval \in Nat
    BY <2>1, <2>2, EventRead, Workers DEF ScreenInv, Screen, ThreadPart
  <2>4. CASE ~Accepted(e) BY <1>2, <1>9, <2>1, <2>2, <2>4 DEF TurnEvent, turnView
  <2>5. CASE Accepted(e)
    <3>1. shown # 0 => quitting
      <4>1. e.job \in 1..issued["turn"] BY <2>3 DEF ScreenInv, Screen, ThreadPart, EventsFit, Fits
      <4>2. e.job # 0 BY <4>1, Workers, WorkerTypes DEF ScreenInv, Screen, ThreadPart
      <4>3. quitting \/ ~forgot BY <2>5, <4>2 DEF Accepted, Current, ScreenInv, Screen, ForgotFits
      <4>4. QED BY <2>1, <2>3, <2>5, <4>3, ApprovalUp DEF Accepted, Current
    <3>2. CASE e.kind = "approval_required"
      <4>1. AskApproval(e) BY <1>9, <2>2, <2>5, <3>2 DEF TurnEvent
      <4>2. QED BY <1>1, <2>1, <2>3, <4>1 DEF AskApproval, PhaseTyped, Phases
    <3>3. CASE e.kind # "approval_required"
      <4>1. phase' = PhaseAfter(e.kind) /\ shown' \in {0, shown} BY <1>9, <2>2, <2>5, <3>3 DEF TurnEvent
      <4>2. phase' \in Phases BY <1>1, <2>3, <3>3, <4>1 DEF PhaseAfter, EventKinds, PhaseTyped, Phases
      <4>3. QED BY <1>1, <2>1, <3>1, <4>1, <4>2 DEF PhaseTyped
    <3>4. QED BY <3>2, <3>3
  <2>6. QED BY <2>4, <2>5
<1>10. CASE CommandEvent
  <2>1. Up /\ UNCHANGED <<quitting, shown>> /\ Drained("command") BY <1>10 DEF CommandEvent, ending
  <2>2. PICK e : e = Head(events["command"]) OBVIOUS
  <2>3. e.kind \in {"result", "done", "completed", "error", "cancelled"} /\ e.job # 0
    <3>1. e \in Said("command") BY <2>1, <2>2, EventRead, Workers DEF ScreenInv, Screen, ThreadPart
    <3>2. issued["command"] \in Nat BY Workers, WorkerTypes DEF ScreenInv, Screen, ThreadPart
    <3>3. QED BY <3>1, <3>2 DEF ScreenInv, Screen, ThreadPart, CommandEventsFit, Terminal
  <2>4. phase' = phase \/ (turn = 0 /\ command # 0 /\ phase' = PhaseAfter(e.kind))
    BY <1>10, <2>2, <2>3 DEF CommandEvent, Current
  <2>5. turn = 0 /\ command # 0 /\ shown # 0 => quitting
    BY <2>1, ApprovalUp DEF ScreenInv, Screen, ForgotFits
  <2>6. phase' \in Phases BY <1>1, <2>3, <2>4 DEF PhaseAfter, PhaseTyped, Phases
  <2>7. QED BY <1>1, <2>1, <2>4, <2>5, <2>6 DEF PhaseTyped
<1>11. CASE \/ OpenEdit \/ FinishEdit \/ OpenPicker \/ ClosePicker \/ Pause \/ Continue \/ Exit
            \/ TurnThread \/ CommandThread \/ RestoredThread
  <2>1. Same
    BY <1>11 DEF OpenEdit, FinishEdit, OpenPicker, ClosePicker, Pause, Continue, Exit, TurnThread, CommandThread,
                 RestoredThread, turnView, ending, viewOnly
  <2>2. QED BY <1>2, <2>1
<1>12. QED BY <1>3, <1>4, <1>5, <1>6, <1>7, <1>8, <1>9, <1>10, <1>11 DEF Next, Key

LEMMA FlagsFollow ==
  ASSUME FlagsTyped,
         startedIdle' \in {startedIdle, TRUE, FALSE}, alone' \in {alone, TRUE, FALSE},
         editing' \in {editing, TRUE, FALSE}, picker' \in {picker, TRUE, FALSE},
         paused' \in {paused, TRUE, FALSE}, quitting' \in {quitting, TRUE}, exited' \in {exited, TRUE},
         forgot' \in {forgot, TRUE, FALSE}
  PROVE  FlagsTyped'
<1>1. /\ startedIdle \in BOOLEAN /\ alone \in BOOLEAN /\ editing \in BOOLEAN /\ picker \in BOOLEAN
      /\ paused \in BOOLEAN /\ quitting \in BOOLEAN /\ exited \in BOOLEAN /\ forgot \in BOOLEAN
  BY DEF FlagsTyped
<1>2. startedIdle' \in BOOLEAN BY <1>1, Zenon
<1>3. alone' \in BOOLEAN BY <1>1, Zenon
<1>4. editing' \in BOOLEAN BY <1>1, Zenon
<1>5. picker' \in BOOLEAN BY <1>1, Zenon
<1>6. paused' \in BOOLEAN BY <1>1, Zenon
<1>7. quitting' \in BOOLEAN BY <1>1, Zenon
<1>8. exited' \in BOOLEAN BY <1>1, Zenon
<1>9. forgot' \in BOOLEAN BY <1>1, Zenon
<1>10. QED BY <1>2, <1>3, <1>4, <1>5, <1>6, <1>7, <1>8, <1>9, Zenon DEF FlagsTyped

LEMMA FlagsNext ==
  ASSUME FlagsTyped, [Next]_vars
  PROVE  FlagsTyped'
<1>1. CASE UNCHANGED vars BY <1>1, FlagsFollow DEF vars, viewOnly
<1>2. CASE TypeMessage \/ Pick \/ UpdateTurn \/ DrainQueue
  <2>1. UNCHANGED <<startedIdle, alone>> /\ paused' \in {paused, TRUE}
    BY <1>2 DEF TypeMessage, Pick, UpdateTurn, DrainQueue, StartTurn, Fails, Refused, commandView, threadView
  <2>2. UNCHANGED <<editing, quitting, exited>> /\ picker' \in {picker, FALSE}
    BY <1>2 DEF TypeMessage, Pick, UpdateTurn, DrainQueue, keyboard, ending
  <2>3. forgot' = forgot \/ forgot' = (forgot \/ (turn # 0 /\ Busy))
    BY <1>2 DEF TypeMessage, Pick, UpdateTurn, DrainQueue, ending
  <2>4. forgot' \in {forgot, TRUE, FALSE}
    <3>1. (forgot \/ (turn # 0 /\ Busy)) \in BOOLEAN OBVIOUS
    <3>2. QED BY <2>3, <3>1, Zenon
  <2>5. QED BY <2>1, <2>2, <2>4, FlagsFollow
<1>3. CASE StartCommand
  <2>1. UNCHANGED <<alone, editing, picker, quitting, exited, forgot>> /\ paused' \in {paused, TRUE}
    BY <1>3 DEF StartCommand, Refused, threadView, ending
  <2>2. startedIdle' = (turn = 0) \/ startedIdle' = startedIdle BY <1>3 DEF StartCommand, Refused, commandView
  <2>3. startedIdle' \in {startedIdle, TRUE, FALSE}
    <3>1. CASE turn = 0 BY <2>2, <3>1, Zenon
    <3>2. CASE turn # 0 BY <2>2, <3>2, Zenon
    <3>3. QED BY <3>1, <3>2
  <2>4. QED BY <2>1, <2>3, FlagsFollow
<1>4. CASE EscapeTwice
  <2>1. startedIdle' \in {startedIdle, FALSE} BY <1>4 DEF EscapeTwice, StopCommand, StopTurn, commandView
  <2>2. editing' = FALSE /\ UNCHANGED <<alone, picker, paused, quitting, exited, forgot>>
    BY <1>4 DEF EscapeTwice, ClearLine, idleKeys, ending, threadView
  <2>3. QED BY <2>1, <2>2, FlagsFollow
<1>5. CASE Resolve \/ ClearChat \/ OpenEdit \/ FinishEdit
  <2>1. editing' \in {editing, TRUE, FALSE} BY <1>5 DEF Resolve, ClearChat, OpenEdit, FinishEdit, keyboard
  <2>2. UNCHANGED <<startedIdle, alone, picker, paused, quitting, exited, forgot>>
    BY <1>5 DEF Resolve, ClearChat, OpenEdit, FinishEdit, commandView, idleKeys, ending, threadView
  <2>3. QED BY <2>1, <2>2, FlagsFollow
<1>6. CASE OpenPicker \/ ClosePicker \/ Pause \/ Continue
  <2>1. picker' \in {picker, TRUE, FALSE} /\ paused' \in {paused, TRUE, FALSE}
    BY <1>6 DEF OpenPicker, ClosePicker, Pause, Continue
  <2>2. UNCHANGED <<startedIdle, alone, editing, quitting, exited, forgot>>
    BY <1>6 DEF OpenPicker, ClosePicker, Pause, Continue, commandView, keyboard, ending, threadView
  <2>3. QED BY <2>1, <2>2, FlagsFollow
<1>7. CASE Quit(TRUE) \/ Quit(FALSE) \/ Exit
  <2>1. quitting' \in {quitting, TRUE} /\ exited' \in {exited, TRUE} BY <1>7 DEF Quit, Exit
  <2>2. UNCHANGED <<startedIdle, alone, editing, picker, paused, forgot>>
    BY <1>7 DEF Quit, Exit, commandView, keyboard, idleKeys, threadView
  <2>3. QED BY <2>1, <2>2, FlagsFollow
<1>8. CASE TurnEvent \/ CommandEvent
  <2>1. UNCHANGED <<startedIdle, alone, editing, picker, paused, quitting, exited, forgot>>
    BY <1>8 DEF TurnEvent, CommandEvent, commandView, keyboard, idleKeys, ending, threadView
  <2>2. QED BY <2>1, FlagsFollow
<1>9. CASE TurnThread BY <1>9, FlagsFollow DEF TurnThread, viewOnly
<1>10. CASE CommandThread
  <2>1. UNCHANGED <<startedIdle, editing, picker, paused, quitting, exited, forgot>>
    BY <1>10 DEF CommandThread, commandView, keyboard, idleKeys, ending
  <2>2. alone' = (IF pc["command"] = "begin" THEN pc'["command"] = "work" /\ turn = 0
                  ELSE alone /\ pc'["command"] # "clear")
    BY <1>10 DEF CommandThread
  <2>3. alone' \in BOOLEAN
    <3>1. (pc'["command"] = "work" /\ turn = 0) \in BOOLEAN /\ (alone /\ pc'["command"] # "clear") \in BOOLEAN
      OBVIOUS
    <3>2. CASE pc["command"] = "begin" BY <2>2, <3>1, <3>2, Zenon
    <3>3. CASE pc["command"] # "begin" BY <2>2, <3>1, <3>3, Zenon
    <3>4. QED BY <3>2, <3>3
  <2>4. QED BY <2>1, <2>3, FlagsFollow
<1>11. CASE RestoredThread
  <2>1. UNCHANGED <<startedIdle, alone, editing, picker, paused, quitting, exited, forgot>>
    BY <1>11 DEF RestoredThread, commandView, keyboard, idleKeys, ending
  <2>2. QED BY <2>1, FlagsFollow
<1>12. QED BY <1>1, <1>2, <1>3, <1>4, <1>5, <1>6, <1>7, <1>8, <1>9, <1>10, <1>11 DEF Next, Key

\* Only what was resumed gets restored.
LEMMA RestoredNext ==
  ASSUME restored \subseteq resumes, [Next]_vars
  PROVE  restored' \subseteq resumes'
<1>1. CASE RestoredThread
  <2>1. restored' \subseteq restored \cup resumes /\ resumes' = resumes
    BY <1>1 DEF RestoredThread, Resume, record
  <2>2. QED BY <2>1
<1>2. CASE TypeMessage \/ Pick \/ UpdateTurn \/ DrainQueue
  <2>1. restored' = restored /\ resumes \subseteq resumes'
    BY <1>2 DEF TypeMessage, Pick, UpdateTurn, DrainQueue, StartTurn, Fails, Refused, threadView, record
  <2>2. QED BY <2>1
<1>3. CASE ~RestoredThread /\ ~(TypeMessage \/ Pick \/ UpdateTurn \/ DrainQueue)
  <2>1. restored' = restored /\ resumes' = resumes
    BY <1>3 DEF Next, Key, vars, viewOnly, StartCommand, Refused, EscapeTwice, Resolve, ClearChat, OpenEdit, FinishEdit,
                OpenPicker, ClosePicker, Pause, Continue, Quit, Exit, TurnEvent, CommandEvent, TurnThread,
                CommandThread, threadView, record
  <2>2. QED BY <2>1
<1>4. QED BY <1>1, <1>2, <1>3

------------------------------------------------------------------------------
(* The theorems                                                             *)

ViewInv == ScreenInv /\ MessageInv

LEMMA ViewInit == Init => ViewInv
<1> SUFFICES ASSUME Init PROVE ViewInv OBVIOUS
<1>1. WorkerInv BY WorkerInitInv DEF Init
<1>2. /\ events["turn"] = <<>> /\ events["command"] = <<>> /\ job["turn"] = 0 /\ issued["turn"] = 0
      /\ issued["command"] = 0 /\ pc["turn"] \in {"unborn", "get"} /\ pc["command"] \in {"unborn", "get"}
      /\ \A w \in Worker : ~stopping[w] /\ pc[w] # "refuse"
  BY Workers DEF Init, WorkerInit
<1>3. ThreadPart
  <2>1. Said("turn") = {} /\ Said("command") = {} /\ DoneLast(events["turn"])
    BY <1>2 DEF Said, Elements, DoneLast
  <2>2. ThreadsFit BY <1>2 DEF ThreadsFit, Init
  <2>3. QED BY <1>1, <2>1, <2>2 DEF ThreadPart, EventsFit, CommandEventsFit
<1>4. TurnPart
  BY DEF Init, TurnPart, PhaseFits, DoneFits, StopFits, AskFits, ApprovalFits, EndFits, Live
<1>5. CommandFits /\ PhaseHasJob /\ OnlyPickRaises /\ ForgotFits
  BY DEF Init, CommandFits, PhaseHasJob, Busy, OnlyPickRaises, ForgotFits
<1>6. MessageInv BY DEF Init, MessageInv, Rises, Below, Elements
<1>7. ViewTypeOK BY <1>6 DEF Init, ViewTypeOK, MessageInv
<1>8. QED BY <1>3, <1>4, <1>5, <1>6, <1>7 DEF ViewInv, ScreenInv, Screen

LEMMA ViewNext == ViewInv /\ [Next]_vars => ViewInv'
<1> SUFFICES ASSUME ViewInv, [Next]_vars PROVE ViewInv' OBVIOUS
<1>1. ScreenInv /\ MessageInv /\ ViewTypeOK BY DEF ViewInv, ScreenInv
<1>2. Screen' BY <1>1, ScreenNext
<1>3. MessageInv' BY <1>1, MessagesNext
<1>4. PhaseTyped' BY <1>1, PhaseNext
<1>5. FlagsTyped' /\ restored' \subseteq resumes' BY <1>1, FlagsNext, RestoredNext DEF ViewTypeOK, FlagsTyped
<1>6. turn' \in Nat /\ command' \in Nat /\ resumes' \subseteq Nat
  <2>1. WorkerInv' /\ ThreadsFit' BY <1>2 DEF Screen, ThreadPart
  <2>2. issued'["turn"] \in Nat /\ issued'["command"] \in Nat BY <2>1, Workers DEF WorkerInv, TypeOK
  <2>3. QED BY <2>1, <2>2 DEF ThreadsFit
<1>7. ViewTypeOK'
  BY <1>2, <1>3, <1>4, <1>5, <1>6
  DEF ViewTypeOK, Screen, OnlyPickRaises, MessageInv, PhaseTyped, Phases, FlagsTyped
<1>8. QED BY <1>2, <1>3, <1>7 DEF ViewInv, ScreenInv

LEMMA ScreenHolds == ScreenInv => ScreenIsTrue
<1> SUFFICES ASSUME ScreenInv PROVE ScreenIsTrue OBVIOUS
<1>1. ViewTypeOK /\ PhaseHasJob /\ OnlyPickRaises /\ WorkerInv BY DEF ScreenInv, Screen, ThreadPart
<1>2. ApprovalShown
  BY DEF ScreenInv, Screen, TurnPart, ApprovalFits, ApprovalShown, Asks, Up, Calm
<1>3. HandoffIsQuiet
  <2> SUFFICES ASSUME HandoffQuiet
               PROVE  /\ \A w \in Worker : pc[w] \in {"unborn", "get", "closing", "dead"}
                      /\ quitting \/ forgot \/ ~Busy
    BY DEF HandoffIsQuiet
  <2>1. \A w \in Worker : pc[w] \in {"unborn", "get", "closing", "dead"}
    BY <1>1, QuietIsIdle DEF HandoffQuiet, QuietMeansIdle
  <2>2. quitting \/ forgot \/ ~Busy BY <1>1 DEF HandoffQuiet, PhaseHasJob
  <2>3. QED BY <2>1, <2>2
<1>4. QED BY <1>1, <1>2, <1>3 DEF ScreenIsTrue

(* What the screen shows, and what the chat tells the supervisor, is what   *)
(* the threads do (_process_worker_event, handoff_quiescent), and the state *)
(* of the interface refuses nothing that a frame or a key asks of it, all   *)
(* unless the chat forgot its turn (_process_overlay_key); even then it is  *)
(* handed over with no thread at work only.                                 *)
THEOREM ScreensAreTrue == Spec => []ScreenIsTrue
<1>1. Spec => []ViewInv BY ViewInit, ViewNext, PTL DEF Spec
<1>2. ViewInv => ScreenIsTrue BY ScreenHolds DEF ViewInv
<1>3. QED BY <1>1, <1>2, PTL

(* No message that was typed gets lost or overtaken (_drain_queue, put back *)
(* when its dispatch is refused; the edit of the queue).                    *)
THEOREM MessagesAreKept == Spec => []MessagesKept
<1>1. Spec => []ViewInv BY ViewInit, ViewNext, PTL DEF Spec
<1>2. ViewInv => MessagesKept BY MessagesInOrder DEF ViewInv
<1>3. QED BY <1>1, <1>2, PTL

=============================================================================
