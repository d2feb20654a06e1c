-------------------------- MODULE CoreHandoffProofs --------------------------
(***************************************************************************)
(* Proofs about CoreHandoff for every number of releases, launches and     *)
(* requests: the type invariant; then, when the recovery menu is not used  *)
(* before startup has finished, that at most one process owns the session, *)
(* that what is captured is complete, that what runs after an update was   *)
(* tested or ran before, and that a recovered core is connected and held.  *)
(***************************************************************************)
EXTENDS CoreHandoff, TLAPS

Cores == [Core -> CoreRecord]
Inboxes == [Core -> Seq(Control)]
Outboxes == [Core -> Seq(Message)]
Tasks == [Task -> TaskRecord]

------------------------------------------------------------------------------
(* What a process record may become without coming to life                  *)

Ages(me, new) ==
    /\ new \in CoreRecord
    /\ new.kind = me.kind
    /\ new.release = me.release
    /\ new.life \in {"boot", "up"} => me.life \in {"boot", "up"}

LEMMA EmptySeqs == <<>> \in Seq(Request) /\ <<>> \in Seq(Control) /\ <<>> \in Seq(Message)
  OBVIOUS

LEMMA AbsentType == Absent \in CoreRecord
  BY EmptySeqs, HandoffAssumption DEF Absent, CoreRecord, Life, Kind

LEMMA EndedAges ==
  ASSUME NEW me \in CoreRecord
  PROVE  Ages(me, Ended(me)) /\ Ended(me).life = "gone"
<1>1. Ended(me) \in CoreRecord
  <2>1. "gone" \in Life
    BY DEF Life
  <2> QED BY <2>1, EmptySeqs, ZenonT(60) DEF Ended, CoreRecord
<1>2. Ended(me).kind = me.kind /\ Ended(me).life = "gone" /\ Ended(me).release = me.release
  BY DEF Ended, CoreRecord
<1> QED BY <1>1, <1>2 DEF Ages

LEMMA DeadAges ==
  ASSUME NEW me \in CoreRecord
  PROVE  [me EXCEPT !.life = "dead", !.expected = TRUE, !.ready = TRUE, !.idle = TRUE,
                    !.captured = TRUE, !.eof = TRUE] \in CoreRecord
<1>1. "dead" \in Life
  BY DEF Life
<1> QED BY <1>1, ZenonT(60) DEF CoreRecord

LEMMA KilledAges ==
  ASSUME NEW table \in Cores, NEW cs
  PROVE  /\ Kill(table, cs) \in Cores
         /\ \A c \in Core : /\ Ages(table[c], Kill(table, cs)[c])
                            /\ c \in cs => Kill(table, cs)[c].life = "dead"
<1> DEFINE K(c) == [Ended(table[c]) EXCEPT !.life = "dead", !.expected = TRUE,
                      !.ready = TRUE, !.idle = TRUE, !.captured = TRUE, !.eof = TRUE]
<1>1. ASSUME NEW c \in Core
      PROVE  K(c) \in CoreRecord /\ Ages(table[c], K(c)) /\ K(c).life = "dead"
  <2>1. Ended(table[c]) \in CoreRecord /\ Ages(table[c], Ended(table[c]))
    BY EndedAges DEF Cores, Ages
  <2>3. K(c) \in CoreRecord
    BY <2>1, DeadAges
  <2>4. /\ K(c).life = "dead" /\ K(c).kind = Ended(table[c]).kind
        /\ K(c).release = Ended(table[c]).release
    BY <2>1 DEF CoreRecord
  <2> QED BY <2>1, <2>3, <2>4 DEF Ages
<1>2. ASSUME NEW c \in Core PROVE Ages(table[c], table[c])
  BY DEF Ages, Cores
<1>3. Kill(table, cs) = [c \in Core |-> IF c \in cs THEN K(c) ELSE table[c]]
  BY DEF Kill
<1> HIDE DEF K
<1>4. Kill(table, cs) \in Cores
  BY <1>1, <1>3 DEF Cores
<1>5. ASSUME NEW c \in Core
      PROVE  /\ Ages(table[c], Kill(table, cs)[c])
             /\ c \in cs => Kill(table, cs)[c].life = "dead"
  BY <1>1, <1>2, <1>3
<1> QED BY <1>4, <1>5

LEMMA NotedAges ==
  ASSUME NEW me \in CoreRecord, NEW m, NEW b \in BOOLEAN
  PROVE  Ages(me, Noted(me, m, b))
<1> DEFINE b1 == me.ready \/ m \in {"ready", "failed"}
           b2 == me.hasState \/ m \in {"ready", "handoff"}
           b3 == me.error \/ m \in {"failed", "capture_failed"}
           b4 == me.idle \/ (m = "idle" /\ b)
           b5 == me.captured \/ m \in {"handoff", "capture_failed"}
           b6 == me.expected \/ (m = "finished" /\ b)
<1>1. /\ b1 \in BOOLEAN /\ b2 \in BOOLEAN /\ b3 \in BOOLEAN
      /\ b4 \in BOOLEAN /\ b5 \in BOOLEAN /\ b6 \in BOOLEAN
  OBVIOUS
<1>2. Noted(me, m, b) = [me EXCEPT !.ready = b1, !.hasState = b2, !.error = b3,
                           !.idle = b4, !.captured = b5, !.expected = b6]
  BY DEF Noted
<1> HIDE DEF b1, b2, b3, b4, b5, b6
<1>b. [me EXCEPT !.ready = b1, !.hasState = b2, !.error = b3, !.idle = b4,
                 !.captured = b5, !.expected = b6] \in CoreRecord
  BY <1>1, ZenonT(60) DEF CoreRecord
<1>3. Noted(me, m, b) \in CoreRecord
  BY <1>2, <1>b
<1>4. /\ Noted(me, m, b).kind = me.kind /\ Noted(me, m, b).life = me.life
      /\ Noted(me, m, b).release = me.release
  BY DEF Noted, CoreRecord
<1> QED BY <1>3, <1>4 DEF Ages

LEMMA AppliedAges ==
  ASSUME NEW me \in CoreRecord, NEW m \in Control
  PROVE  Ages(me, Applied(me, m))
<1>1. CASE m \in Request
  <2>1. Append(me.typed, m) \in Seq(Request)
    BY <1>1 DEF CoreRecord
  <2>2. Applied(me, m) = [me EXCEPT !.typed = Append(@, m)]
    BY <1>1 DEF Applied, Request
  <2>3. [me EXCEPT !.typed = Append(@, m)] \in CoreRecord
    BY <2>1, ZenonT(60) DEF CoreRecord
  <2> QED BY <2>2, <2>3 DEF Ages, CoreRecord
<1>2. CASE m = "drain"
  <2>1. Applied(me, m) = [me EXCEPT !.draining = TRUE]
    BY <1>2 DEF Applied, Request
  <2>2. [me EXCEPT !.draining = TRUE] \in CoreRecord
    BY ZenonT(60) DEF CoreRecord
  <2> QED BY <2>1, <2>2 DEF Ages, CoreRecord
<1>3. CASE m = "capture"
  <2>1. Applied(me, m) = [me EXCEPT !.capture = TRUE, !.frozen = TRUE]
    BY <1>3 DEF Applied, Request
  <2>2. [me EXCEPT !.capture = TRUE, !.frozen = TRUE] \in CoreRecord
    BY ZenonT(60) DEF CoreRecord
  <2> QED BY <2>1, <2>2 DEF Ages, CoreRecord
<1>4. CASE m = "retire"
  <2>1. Applied(me, m) = [me EXCEPT !.retire = TRUE]
    BY <1>4 DEF Applied, Request
  <2>2. [me EXCEPT !.retire = TRUE] \in CoreRecord
    BY ZenonT(60) DEF CoreRecord
  <2> QED BY <2>1, <2>2 DEF Ages, CoreRecord
<1>5. CASE m = "ack"
  <2>1. Applied(me, m) = [me EXCEPT !.waiting = FALSE, !.busy = ~Paused(me)]
    BY <1>5 DEF Applied, Request
  <2>2. Paused(me) \in BOOLEAN
    BY DEF Paused
  <2>3. [me EXCEPT !.waiting = FALSE, !.busy = ~Paused(me)] \in CoreRecord
    BY <2>2, ZenonT(60) DEF CoreRecord
  <2> QED BY <2>1, <2>3 DEF Ages, CoreRecord
<1>6. CASE m \in {"activate", "continue"}
  <2>1. Applied(me, m) = [me EXCEPT !.active = TRUE, !.draining = FALSE,
                            !.frozen = FALSE, !.capture = FALSE,
                            !.held = @ /\ m = "activate"]
    BY <1>6 DEF Applied, Request
  <2>2. [me EXCEPT !.active = TRUE, !.draining = FALSE, !.frozen = FALSE,
                   !.capture = FALSE, !.held = @ /\ m = "activate"] \in CoreRecord
    BY ZenonT(60) DEF CoreRecord
  <2> QED BY <2>1, <2>2 DEF Ages, CoreRecord
<1> QED BY <1>1, <1>2, <1>3, <1>4, <1>5, <1>6 DEF Control

LEMMA FlagAges ==
  ASSUME NEW me \in CoreRecord, NEW b \in BOOLEAN, NEW d \in BOOLEAN
  PROVE  /\ Ages(me, [me EXCEPT !.expected = b])
         /\ Ages(me, [me EXCEPT !.error = b])
         /\ Ages(me, [me EXCEPT !.waiting = b])
         /\ Ages(me, [me EXCEPT !.busy = b])
         /\ Ages(me, [me EXCEPT !.idleSent = b, !.saved = d])
         /\ Ages(me, [me EXCEPT !.idle = b, !.captured = b, !.error = b])
         /\ Ages(me, [me EXCEPT !.ready = b, !.idle = b, !.captured = b, !.eof = b])
<1>1. [me EXCEPT !.expected = b] \in CoreRecord
  BY ZenonT(60) DEF CoreRecord
<1>2. [me EXCEPT !.error = b] \in CoreRecord
  BY ZenonT(60) DEF CoreRecord
<1>3. [me EXCEPT !.waiting = b] \in CoreRecord
  BY ZenonT(60) DEF CoreRecord
<1>4. [me EXCEPT !.busy = b] \in CoreRecord
  BY ZenonT(60) DEF CoreRecord
<1>5. [me EXCEPT !.idleSent = b, !.saved = d] \in CoreRecord
  BY ZenonT(60) DEF CoreRecord
<1>6. [me EXCEPT !.idle = b, !.captured = b, !.error = b] \in CoreRecord
  BY ZenonT(60) DEF CoreRecord
<1>7. [me EXCEPT !.ready = b, !.idle = b, !.captured = b, !.eof = b] \in CoreRecord
  BY ZenonT(60) DEF CoreRecord
<1>8. Ages(me, [me EXCEPT !.expected = b]) /\ Ages(me, [me EXCEPT !.error = b])
  BY <1>1, <1>2 DEF Ages, CoreRecord
<1>9. Ages(me, [me EXCEPT !.waiting = b]) /\ Ages(me, [me EXCEPT !.busy = b])
  BY <1>3, <1>4 DEF Ages, CoreRecord
<1>10. Ages(me, [me EXCEPT !.idleSent = b, !.saved = d])
  BY <1>5 DEF Ages, CoreRecord
<1>11. Ages(me, [me EXCEPT !.idle = b, !.captured = b, !.error = b])
  BY <1>6 DEF Ages, CoreRecord
<1>12. Ages(me, [me EXCEPT !.ready = b, !.idle = b, !.captured = b, !.eof = b])
  BY <1>7 DEF Ages, CoreRecord
<1> QED BY <1>8, <1>9, <1>10, <1>11, <1>12

------------------------------------------------------------------------------
(* Types of the helpers                                                     *)

\* A step in which no process comes to life.
Older == core' \in Cores /\ \A d \in Core : Ages(core[d], core'[d])

LEMMA OneAges ==
  ASSUME core \in Cores, NEW c \in Core, NEW new, Ages(core[c], new),
         core' = [core EXCEPT ![c] = new]
  PROVE  Older
  BY DEF Older, Ages, Cores

LEMMA SameAges ==
  ASSUME core \in Cores, UNCHANGED core
  PROVE  Older
  BY DEF Older, Ages, Cores

LEMMA KillOlder ==
  ASSUME core \in Cores, NEW cs, core' = Kill(core, cs)
  PROVE  Older
  BY KilledAges DEF Older

LEMMA PostType ==
  ASSUME NEW box \in Inboxes, NEW c, NEW msgs \in Seq(Control)
  PROVE  Post(box, c, msgs) \in Inboxes
<1>1. ASSUME NEW d \in Core PROVE box[d] \o msgs \in Seq(Control)
  BY DEF Inboxes
<1> QED BY <1>1 DEF Post, Inboxes

LEMMA UnsentType ==
  ASSUME inbox \in Inboxes, NEW cs
  PROVE  Unsent(cs) \in Inboxes
  BY EmptySeqs DEF Unsent, Inboxes

LEMMA ResumeType ==
  ASSUME inbox \in Inboxes, routing \in BOOLEAN, NEW c, Resume(c)
  PROVE  inbox' \in Inboxes /\ routing' \in BOOLEAN
<1>1. <<"continue">> \in Seq(Control)
  BY DEF Control
<1> QED BY <1>1, PostType DEF Resume

LEMMA FreshType ==
  ASSUME Unused # {}
  PROVE  Fresh \in Core /\ core[Fresh].life = "none"
  BY DEF Fresh, Unused

LEMMA LaunchedType ==
  ASSUME core \in Cores, NEW r \in Release, NEW k \in Kind
  PROVE  Launched(core, r, k) \in Cores
<1>1. [Absent EXCEPT !.life = "boot", !.kind = k, !.release = r] \in CoreRecord
  <2>1. "boot" \in Life
    BY DEF Life
  <2> QED BY <2>1, AbsentType, ZenonT(60) DEF CoreRecord
<1> QED BY <1>1 DEF Launched, Cores

LEMMA IdleType == Idle \in TaskRecord /\ Idle.pc = "done"
  BY HandoffAssumption DEF Idle, TaskRecord, PC

LEMMA GotoType ==
  ASSUME task \in Tasks, NEW t \in Task, NEW pc \in PC
  PROVE  /\ Goto(t, pc) \in Tasks
         /\ Goto(t, pc)[t].pc = pc
         /\ \A u \in Task : u # t => Goto(t, pc)[u] = task[u]
         /\ pc # "done" => Goto(t, pc)[t].old = task[t].old
         /\ pc # "done" => Goto(t, pc)[t].child = task[t].child
         /\ pc # "done" => Goto(t, pc)[t].target = task[t].target
  BY IdleType DEF Goto, Tasks, TaskRecord

------------------------------------------------------------------------------
(* The type invariant                                                       *)

\* Where a task uses the locals it has set before.
HoldsOld == {"awaitIdle", "awaitCapture", "record", "probe", "awaitProbe",
             "retire", "awaitExit"}
UsesOld == HoldsOld \cup {"replace", "awaitReplace", "restart", "awaitRestart"}
AwaitsOwner == {"awaitReplace", "awaitRestart", "awaitLatest", "awaitRetained",
                "awaitSafe"}
UsesChild == AwaitsOwner \cup {"awaitStart", "awaitProbe"}

Known ==
    /\ task["transition"].pc \in UsesOld => task["transition"].old \in Core
    /\ \A t \in Task : task[t].pc \in UsesChild => task[t].child \in Core

Spent == [requests: 0 .. MaxRequests, emergencies: 0 .. MaxEmergencies,
          crashes: 0 .. MaxCrashes]

TypeInv == TypeOK /\ Known

\* The type invariant in the names the lemmas use.
LEMMA TypeParts ==
  /\ TypeOK <=> /\ core \in Cores /\ inbox \in Inboxes /\ events \in Outboxes
                /\ current \in Core \cup {NoCore} /\ previous \in Release
                /\ routing \in BOOLEAN /\ menu \in BOOLEAN
                /\ exitCode \in {"none", "clean", "error"}
                /\ task \in Tasks /\ spent \in Spent
  /\ TypeOK' <=> /\ core' \in Cores /\ inbox' \in Inboxes /\ events' \in Outboxes
                 /\ current' \in Core \cup {NoCore} /\ previous' \in Release
                 /\ routing' \in BOOLEAN /\ menu' \in BOOLEAN
                 /\ exitCode' \in {"none", "clean", "error"}
                 /\ task' \in Tasks /\ spent' \in Spent
  BY DEF TypeOK, Cores, Inboxes, Outboxes, Tasks, Spent

LEMMA InitType == Init => TypeInv
<1> SUFFICES ASSUME Init PROVE TypeInv
  OBVIOUS
<1>1. core \in Cores /\ inbox \in Inboxes /\ events \in Outboxes
  BY AbsentType, EmptySeqs DEF Init, Cores, Inboxes, Outboxes
<1>2. PICK start \in {"launch", "kill"} :
          task = [t \in Task |-> IF t = "startup" THEN [Idle EXCEPT !.pc = start]
                                                  ELSE Idle]
  BY DEF Init
<1>5. [Idle EXCEPT !.pc = start] \in TaskRecord
  BY IdleType DEF TaskRecord, PC
<1>3. task \in Tasks /\ Known
  BY <1>2, <1>5, IdleType DEF Tasks, Task, Known, Idle, UsesOld, HoldsOld, UsesChild,
                     AwaitsOwner, TaskRecord
<1>4. spent \in Spent
  BY HandoffAssumption DEF Init, Spent
<1> QED BY <1>1, <1>3, <1>4, TypeParts, HandoffAssumption DEF Init, TypeInv

\* A step of a core process: the tasks and the supervisor's choices stay.
CoreFrame == UNCHANGED <<current, previous, routing, menu, exitCode, task>>

LEMMA CoreFrameType ==
  ASSUME TypeInv, CoreFrame, Older, inbox' \in Inboxes, events' \in Outboxes,
         spent' \in Spent
  PROVE  TypeInv'
  BY TypeParts DEF TypeInv, CoreFrame, Older, Known

LEMMA EndType ==
  ASSUME TypeInv, NEW c \in Core, core' = [core EXCEPT ![c] = Ended(@)]
  PROVE  Older
  BY EndedAges, OneAges, TypeParts DEF TypeInv, Cores

LEMMA EmptyInbox ==
  ASSUME TypeInv, NEW c \in Core
  PROVE  [inbox EXCEPT ![c] = <<>>] \in Inboxes /\ [events EXCEPT ![c] = <<>>] \in Outboxes
  BY EmptySeqs, TypeParts DEF TypeInv, Inboxes, Outboxes

LEMMA Sends ==
  ASSUME TypeInv, NEW c \in Core, NEW m \in Message
  PROVE  [events EXCEPT ![c] = Append(@, m)] \in Outboxes
<1>1. Append(events[c], m) \in Seq(Message)
  BY TypeParts DEF TypeInv, Outboxes
<1> QED BY <1>1, TypeParts DEF TypeInv, Outboxes

LEMMA BootType ==
  ASSUME TypeInv, NEW c \in Core, Boot(c)
  PROVE  TypeInv' /\ Older /\ CoreFrame
<1> USE TypeParts DEF TypeInv
<1>1. CASE BootStartup(c)
  <2>1. Older /\ CoreFrame
    BY <1>1, SameAges DEF BootStartup, CoreFrame
  <2>2. <<"startup">> \in Seq(Message)
    BY DEF Message
  <2>3. events' \in Outboxes
    BY <1>1, <2>2 DEF BootStartup, Outboxes
  <2> QED BY <1>1, <2>1, <2>3, CoreFrameType DEF BootStartup
<1>2. CASE BootReady(c)
  <2>1. [core[c] EXCEPT !.life = "up"] \in CoreRecord
    <3>1. "up" \in Life
      BY DEF Life
    <3>2. core[c] \in CoreRecord
      BY DEF Cores
    <3> QED BY <3>1, <3>2, ZenonT(60) DEF CoreRecord
  <2>2. Ages(core[c], [core[c] EXCEPT !.life = "up"])
    BY <1>2, <2>1 DEF BootReady, Ages, CoreRecord, Cores
  <2>3. core' = [core EXCEPT ![c] = [core[c] EXCEPT !.life = "up"]]
    BY <1>2 DEF BootReady
  <2>4. Older /\ CoreFrame
    BY <1>2, <2>2, <2>3, OneAges DEF BootReady, CoreFrame
  <2>5. events' \in Outboxes
    BY <1>2, Sends DEF BootReady, Message
  <2> QED BY <1>2, <2>4, <2>5, CoreFrameType DEF BootReady
<1>3. CASE BootEnds(c)
  <2>1. Older /\ CoreFrame
    BY <1>3, EndType DEF BootEnds, CoreFrame
  <2>2. events' \in Outboxes
    <3>1. PICK last \in {<<>>, <<"failed">>, <<"finished">>} :
            events' = [events EXCEPT ![c] = @ \o last]
      BY <1>3 DEF BootEnds
    <3>a. <<"failed">> \in Seq(Message) /\ <<"finished">> \in Seq(Message)
      BY DEF Message
    <3>2. last \in Seq(Message)
      BY <3>1, <3>a, EmptySeqs, Zenon
    <3>3. events[c] \o last \in Seq(Message)
      BY <3>2 DEF Outboxes
    <3> QED BY <3>1, <3>3 DEF Outboxes
  <2>3. inbox' \in Inboxes
    BY <1>3, EmptyInbox DEF BootEnds
  <2> QED BY <1>3, <2>1, <2>2, <2>3, CoreFrameType DEF BootEnds
<1> QED BY <1>1, <1>2, <1>3 DEF Boot

LEMMA CoreType ==
  ASSUME TypeInv, NEW c \in Core, CoreStep(c)
  PROVE  TypeInv' /\ Older /\ CoreFrame
<1> USE TypeParts DEF TypeInv
<1>0. core[c] \in CoreRecord
  BY DEF Cores
<1>1. CASE Boot(c)
  BY <1>1, BootType
<1>2. CASE Poll(c)
  <2>1. Head(inbox[c]) \in Control /\ Tail(inbox[c]) \in Seq(Control)
    BY <1>2 DEF Poll, Inboxes
  <2>2. Older /\ CoreFrame
    BY <1>0, <1>2, <2>1, AppliedAges, OneAges DEF Poll, CoreFrame
  <2>3. inbox' \in Inboxes
    BY <1>2, <2>1 DEF Poll, Inboxes
  <2> QED BY <1>2, <2>2, <2>3, CoreFrameType DEF Poll
<1>3. CASE ProcessHandoff(c)
  <2> DEFINE me == core[c]
             idleNow == me.draining /\ ~me.idleSent /\ ~me.busy
             saveNow == me.capture /\ ~(me.draining /\ me.saved)
             idle == IF idleNow THEN <<"idle">> ELSE <<>>
             new == [me EXCEPT !.idleSent = me.draining /\ (me.idleSent \/ idleNow),
                               !.saved = (me.draining /\ me.saved) \/ saveNow]
  <2>1. CASE me.retire /\ core' = [core EXCEPT ![c] = Ended(@)]
             /\ inbox' = [inbox EXCEPT ![c] = <<>>] /\ UNCHANGED events
    <3>1. Older /\ CoreFrame
      BY <1>3, <2>1, EndType DEF ProcessHandoff, CoreFrame
    <3> QED BY <1>3, <2>1, <3>1, EmptyInbox, CoreFrameType DEF ProcessHandoff
  <2>2. CASE /\ core' = [core EXCEPT ![c] = new]
             /\ \E saved \in {<<"handoff">>, <<"capture_failed">>, <<>>} :
                  events' = [events EXCEPT ![c] = @ \o idle \o saved]
             /\ UNCHANGED inbox
    <3>1. Ages(me, new)
      <4> DEFINE b == me.draining /\ (me.idleSent \/ idleNow)
                 d == (me.draining /\ me.saved) \/ saveNow
      <4>1. b \in BOOLEAN /\ d \in BOOLEAN
        OBVIOUS
      <4>2. new = [me EXCEPT !.idleSent = b, !.saved = d]
        OBVIOUS
      <4> HIDE DEF b, d, new, me
      <4>3. me \in CoreRecord
        BY <1>0 DEF me
      <4> QED BY <4>1, <4>2, <4>3, FlagAges
    <3>2. Older /\ CoreFrame
      <4> HIDE DEF new
      <4> QED BY <1>3, <2>2, <3>1, OneAges DEF ProcessHandoff, CoreFrame
    <3>3. events' \in Outboxes
      <4>1. PICK saved \in {<<"handoff">>, <<"capture_failed">>, <<>>} :
              events' = [events EXCEPT ![c] = @ \o idle \o saved]
        BY <2>2
      <4>2. /\ <<"handoff">> \in Seq(Message) /\ <<"capture_failed">> \in Seq(Message)
            /\ <<"idle">> \in Seq(Message)
        BY DEF Message
      <4>3. saved \in Seq(Message)
        BY <4>1, <4>2, EmptySeqs, Zenon
      <4>4. idle \in Seq(Message)
        BY <4>2, EmptySeqs, Zenon
      <4>5. events[c] \o idle \o saved \in Seq(Message)
        <5> HIDE DEF idle
        <5> QED BY <4>3, <4>4 DEF Outboxes
      <4> QED BY <4>1, <4>5 DEF Outboxes
    <3> QED BY <1>3, <2>2, <3>2, <3>3, CoreFrameType DEF ProcessHandoff
  <2> QED BY <1>3, <2>1, <2>2, Zenon DEF ProcessHandoff
<1>4. CASE Dispatch(c)
  <2>1. core' = [core EXCEPT ![c] = [core[c] EXCEPT !.waiting = TRUE]]
    BY <1>4 DEF Dispatch
  <2>2. Older /\ CoreFrame
    BY <1>0, <1>4, <2>1, FlagAges, OneAges DEF Dispatch, CoreFrame
  <2>3. events' \in Outboxes
    BY <1>4, Sends DEF Dispatch, Message
  <2> QED BY <1>4, <2>2, <2>3, CoreFrameType DEF Dispatch
<1>5. CASE DispatchTimeout(c)
  <2>1. Older /\ CoreFrame
    BY <1>5, EndType DEF DispatchTimeout, CoreFrame
  <2>2. <<"failed">> \in Seq(Message)
    BY DEF Message
  <2>3. events' \in Outboxes
    BY <1>5, <2>2 DEF DispatchTimeout, Outboxes
  <2> QED BY <1>5, <2>1, <2>3, EmptyInbox, CoreFrameType DEF DispatchTimeout
<1>6. CASE FinishWork(c)
  <2>1. core' = [core EXCEPT ![c] = [core[c] EXCEPT !.busy = FALSE]]
    BY <1>6 DEF FinishWork
  <2>2. Older /\ CoreFrame
    BY <1>0, <1>6, <2>1, FlagAges, OneAges DEF FinishWork, CoreFrame
  <2> QED BY <1>6, <2>2, CoreFrameType DEF FinishWork
<1>7. CASE ReadInput(c)
  <2>1. /\ Tail(core[c].typed) \in Seq(Request)
        /\ Head(core[c].typed) \in Message
    <3>1. core[c].typed \in Seq(Request) /\ core[c].typed # <<>>
      BY <1>0, <1>7 DEF ReadInput, CoreRecord
    <3>2. Head(core[c].typed) \in Request
      BY <3>1
    <3> QED BY <3>1, <3>2 DEF Message
  <2>2. [core[c] EXCEPT !.typed = Tail(core[c].typed)] \in CoreRecord
    BY <1>0, <2>1, ZenonT(60) DEF CoreRecord
  <2>3. Ages(core[c], [core[c] EXCEPT !.typed = Tail(core[c].typed)])
    BY <1>0, <2>2 DEF Ages, CoreRecord
  <2>4. core' = [core EXCEPT ![c] = [core[c] EXCEPT !.typed = Tail(core[c].typed)]]
    BY <1>7 DEF ReadInput
  <2>5. Older /\ CoreFrame
    BY <1>7, <2>3, <2>4, OneAges DEF ReadInput, CoreFrame
  <2>6. events' \in Outboxes
    BY <1>7, <2>1, Sends DEF ReadInput
  <2> QED BY <1>7, <2>5, <2>6, CoreFrameType DEF ReadInput
<1>8. CASE AgentRequest(c)
  <2>1. Older /\ CoreFrame
    BY <1>8, SameAges DEF AgentRequest, CoreFrame
  <2>2. events' \in Outboxes
    BY <1>8, Sends DEF AgentRequest, Message, Request
  <2>3. spent' \in Spent
    BY <1>8, HandoffAssumption DEF AgentRequest, Spent
  <2> QED BY <1>8, <2>1, <2>2, <2>3, CoreFrameType DEF AgentRequest
<1>9. CASE Quit(c)
  <2>1. Older /\ CoreFrame
    BY <1>9, EndType DEF Quit, CoreFrame
  <2>2. events' \in Outboxes
    BY <1>9, Sends DEF Quit, Message
  <2> QED BY <1>9, <2>1, <2>2, EmptyInbox, CoreFrameType DEF Quit
<1>10. CASE Crash(c)
  <2>1. Older /\ CoreFrame
    BY <1>10, EndType DEF Crash, CoreFrame
  <2>2. spent' \in Spent
    BY <1>10, HandoffAssumption DEF Crash, Spent
  <2> QED BY <1>10, <2>1, <2>2, EmptyInbox, CoreFrameType DEF Crash
<1>11. CASE ReaderEnds(c)
  <2>1. Older /\ CoreFrame
    BY <1>0, <1>11, FlagAges, OneAges DEF ReaderEnds, CoreFrame
  <2> QED BY <1>11, <2>1, CoreFrameType DEF ReaderEnds
<1>12. CASE Reap(c)
  <2>1. [core[c] EXCEPT !.life = "dead"] \in CoreRecord
    <3>1. "dead" \in Life
      BY DEF Life
    <3> QED BY <1>0, <3>1, ZenonT(60) DEF CoreRecord
  <2>2. Ages(core[c], [core[c] EXCEPT !.life = "dead"])
    BY <1>0, <2>1 DEF Ages, CoreRecord
  <2>3. core' = [core EXCEPT ![c] = [core[c] EXCEPT !.life = "dead"]]
    BY <1>12 DEF Reap
  <2>4. Older /\ CoreFrame
    BY <1>12, <2>2, <2>3, OneAges DEF Reap, CoreFrame
  <2> QED BY <1>12, <2>4, CoreFrameType DEF Reap
<1> QED BY <1>1, <1>2, <1>3, <1>4, <1>5, <1>6, <1>7, <1>8, <1>9, <1>10, <1>11,
           <1>12 DEF CoreStep

\* A step of a task that does not launch: it moves to pc and keeps its locals.
LEMMA MoveKnown ==
  ASSUME TypeInv, NEW t \in Task, NEW pc \in PC, task' = Goto(t, pc),
         t = "transition" /\ pc \in UsesOld => task[t].old \in Core,
         pc \in UsesChild => task[t].child \in Core
  PROVE  task' \in Tasks /\ Known'
<1>1. task \in Tasks
  BY TypeParts DEF TypeInv
<1>2. "done" \notin UsesOld /\ "done" \notin UsesChild
  BY DEF UsesOld, HoldsOld, UsesChild, AwaitsOwner
<1>3. task' \in Tasks
  BY <1>1, GotoType
<1>4. task'["transition"].pc \in UsesOld => task'["transition"].old \in Core
  BY <1>1, <1>2, GotoType DEF TypeInv, Known, Task
<1>5. ASSUME NEW u \in Task PROVE task'[u].pc \in UsesChild => task'[u].child \in Core
  BY <1>1, <1>2, GotoType DEF TypeInv, Known
<1> QED BY <1>3, <1>4, <1>5 DEF Known

LEMMA OneSet ==
  ASSUME TypeInv, NEW c, NEW new, c \in Core => Ages(core[c], new),
         core' = [core EXCEPT ![c] = new]
  PROVE  Older
<1>1. CASE c \in Core
  BY <1>1, OneAges, TypeParts DEF TypeInv
<1>2. CASE c \notin Core
  BY <1>2, TypeParts DEF TypeInv, Older, Ages, Cores
<1> QED BY <1>1, <1>2

LEMMA StartupType ==
  ASSUME TypeInv, StartupStep
  PROVE  TypeInv'
<1> USE TypeParts DEF TypeInv
<1>1. CASE StartLaunch
  <2>1. CASE /\ Unused # {}
             /\ core' = Launched(core, Initial, "normal")
             /\ current' = Fresh
             /\ task' = [task EXCEPT !["startup"].pc = "awaitStart",
                                     !["startup"].child = Fresh]
             /\ UNCHANGED exitCode
    <3>1. Fresh \in Core
      BY <2>1, FreshType
    <3>2. core' \in Cores
      BY <2>1, LaunchedType, HandoffAssumption DEF Kind
    <3>3. task' \in Tasks
      <4>1. "awaitStart" \in PC
        BY DEF PC
      <4> QED BY <2>1, <3>1, <4>1 DEF Tasks, TaskRecord
    <3>4. Known'
      BY <2>1, <3>1 DEF Known, Tasks, TaskRecord, Task, UsesOld, HoldsOld
    <3> QED BY <1>1, <2>1, <3>1, <3>2, <3>3, <3>4 DEF StartLaunch
  <2>2. CASE exitCode' = "error" /\ task' = Goto("startup", "done") /\ UNCHANGED <<core, current>>
    <3>1. task' \in Tasks /\ Known'
      BY <2>2, MoveKnown DEF PC, Task, UsesOld, HoldsOld, UsesChild, AwaitsOwner
    <3> QED BY <1>1, <2>2, <3>1 DEF StartLaunch
  <2> QED BY <1>1, <2>1, <2>2 DEF StartLaunch
<1>2. CASE StartReady
  <2>1. CASE ReadyOK(task["startup"].child)
    <3>1. task' \in Tasks /\ Known'
      BY <1>2, <2>1, MoveKnown DEF StartReady, PC, Task, UsesOld, HoldsOld, UsesChild, AwaitsOwner
    <3> QED BY <1>2, <2>1, <3>1 DEF StartReady
  <2>2. CASE ~ReadyOK(task["startup"].child)
    <3>1. task' \in Tasks /\ Known'
      BY <1>2, <2>2, MoveKnown DEF StartReady, PC, Task, UsesOld, HoldsOld, UsesChild, AwaitsOwner
    <3>2. core' = [core EXCEPT ![current] = [core[current] EXCEPT !.expected = TRUE]]
      BY <1>2, <2>2 DEF StartReady
    <3>3. Older
      BY <3>2, FlagAges, OneSet DEF Cores
    <3> QED BY <1>2, <2>2, <3>1, <3>3 DEF StartReady, Older
  <2> QED BY <2>1, <2>2
<1>3. CASE Started
  <2>1. task' \in Tasks /\ Known'
    BY <1>3, MoveKnown DEF Started, PC, Task, UsesOld, HoldsOld, UsesChild, AwaitsOwner
  <2>2. inbox' \in Inboxes /\ routing' \in BOOLEAN
    BY <1>3, ResumeType DEF Started
  <2> QED BY <1>3, <2>1, <2>2 DEF Started
<1> QED BY <1>1, <1>2, <1>3 DEF StartupStep

\* Launching a child of the transition: a new owner or probe, or a move.
LEMMA LaunchChildType ==
  ASSUME TypeInv, NEW release \in Release, NEW kind \in Kind,
         NEW wait \in PC, NEW failed \in PC, LaunchChild(release, kind, wait, failed),
         task["transition"].pc \in UsesOld,
         failed \notin UsesChild
  PROVE  core' \in Cores /\ task' \in Tasks /\ Known'
<1> USE TypeParts DEF TypeInv
<1>1. task["transition"].old \in Core
  BY DEF Known
<1>2. CASE /\ Unused # {}
           /\ core' = Launched(core, release, kind)
           /\ task' = [task EXCEPT !["transition"].pc = wait,
                                   !["transition"].child = Fresh]
  <2>1. Fresh \in Core /\ core' \in Cores
    BY <1>2, FreshType, LaunchedType
  <2>2. task' \in Tasks
    BY <1>2, <2>1 DEF Tasks, TaskRecord
  <2>3. Known'
    BY <1>1, <1>2, <2>1 DEF Known, Tasks, TaskRecord, Task
  <2> QED BY <2>1, <2>2, <2>3
<1>3. CASE task' = Goto("transition", failed) /\ UNCHANGED core
  BY <1>1, <1>3, MoveKnown DEF Task
<1> QED BY <1>2, <1>3 DEF LaunchChild

LEMMA PlannedType ==
  ASSUME TypeInv, TransitionStep
  PROVE  TypeInv'
<1> USE TypeParts DEF TypeInv
<1> DEFINE me == task["transition"]
<1>0. ASSUME UNCHANGED <<core, inbox, events, current, previous, routing, menu, exitCode,
                         spent>>,
             task' \in Tasks, Known'
      PROVE  TypeInv'
  BY <1>0
<1>1. CASE Validate
  <2>1. CASE \E r \in Release : task' = [task EXCEPT !["transition"].pc = "drain",
                                                    !["transition"].target = r]
    <3>1. "drain" \in PC
      BY DEF PC
    <3>2. task' \in Tasks
      BY <2>1, <3>1 DEF Tasks, TaskRecord
    <3>3. Known'
      BY <2>1 DEF Known, Tasks, TaskRecord, Task, UsesOld, HoldsOld, UsesChild, AwaitsOwner
    <3> QED BY <1>0, <1>1, <3>2, <3>3 DEF Validate
  <2>2. CASE task' = Goto("transition", "rejected")
    <3>1. task' \in Tasks /\ Known'
      BY <2>2, MoveKnown DEF PC, Task, UsesOld, HoldsOld, UsesChild, AwaitsOwner
    <3> QED BY <1>0, <1>1, <3>1 DEF Validate
  <2> QED BY <1>1, <2>1, <2>2 DEF Validate
<1>2. CASE Drain
  <2>1. CASE current = NoCore
    <3>1. task' \in Tasks /\ Known'
      BY <1>2, <2>1, MoveKnown DEF Drain, PC, Task, UsesOld, HoldsOld, UsesChild, AwaitsOwner
    <3> QED BY <1>0, <1>2, <2>1, <3>1 DEF Drain
  <2>2. CASE current # NoCore
    <3> DEFINE new == [core[current] EXCEPT !.idle = FALSE, !.captured = FALSE, !.error = FALSE]
    <3>1. current \in Core
      BY <2>2
    <3>2. core' = [core EXCEPT ![current] = new]
      BY <1>2, <2>2 DEF Drain
    <3>3. Ages(core[current], new)
      BY <3>1, FlagAges DEF Cores
    <3>4. Older
      <4> HIDE DEF new
      <4> QED BY <3>1, <3>2, <3>3, OneAges
    <3>5. "awaitIdle" \in PC
      BY DEF PC
    <3>6. task' \in Tasks /\ Known'
      BY <1>2, <2>2, <3>1, <3>5 DEF Drain, Known, Tasks, TaskRecord, Task, UsesChild, AwaitsOwner
    <3>7. <<"drain">> \in Seq(Control)
      BY DEF Control
    <3>8. inbox' = Post(inbox, current, <<"drain">>)
      BY <1>2, <2>2 DEF Drain
    <3>9. inbox' \in Inboxes
      BY <3>7, <3>8, PostType
    <3> QED BY <1>2, <3>4, <3>6, <3>9 DEF Drain, Older
  <2> QED BY <2>1, <2>2
<1>3. CASE IdleSeen
  <2>1. me.old \in Core
    BY <1>3 DEF IdleSeen, Known, UsesOld, HoldsOld
  <2>2. task' \in Tasks /\ Known'
    BY <1>3, <2>1, MoveKnown DEF IdleSeen, PC, Task, UsesOld, HoldsOld, UsesChild, AwaitsOwner
  <2>3. <<"capture">> \in Seq(Control)
    BY DEF Control
  <2>4. inbox' \in Inboxes /\ routing' \in BOOLEAN
    BY <1>3, <2>3, PostType DEF IdleSeen
  <2> QED BY <1>3, <2>2, <2>4 DEF IdleSeen
<1>4. CASE CaptureSeen
  <2>1. me.old \in Core
    BY <1>4 DEF CaptureSeen, Known, UsesOld, HoldsOld
  <2>2. task' \in Tasks /\ Known'
    BY <1>4, <2>1, MoveKnown DEF CaptureSeen, PC, Task, UsesOld, HoldsOld, UsesChild, AwaitsOwner
  <2> DEFINE b == core[me.old].error /\ ~core[me.old].captured
  <2>3. core' = [core EXCEPT ![me.old] = [core[me.old] EXCEPT !.error = b]]
    BY <1>4 DEF CaptureSeen
  <2>4. b \in BOOLEAN
    OBVIOUS
  <2>5. Older
    <3> HIDE DEF b
    <3> QED BY <2>1, <2>3, <2>4, FlagAges, OneAges DEF Cores
  <2> QED BY <1>4, <2>2, <2>5 DEF CaptureSeen, Older
<1>5. CASE RecordState
  <2>1. me.old \in Core
    BY <1>5 DEF RecordState, Known, UsesOld, HoldsOld
  <2>2. task' \in Tasks /\ Known'
    BY <1>5, <2>1, MoveKnown DEF RecordState, PC, Task, UsesOld, HoldsOld, UsesChild, AwaitsOwner
  <2> QED BY <1>0, <1>5, <2>2 DEF RecordState
<1>6. CASE ProbeLaunch
  <2>1. core' \in Cores /\ task' \in Tasks /\ Known'
    <3>1. task["transition"].target \in Release
      BY DEF Tasks, TaskRecord, Task
    <3>2. /\ "awaitProbe" \in PC /\ "rejected" \in PC /\ "probe" \in Kind
          /\ "probe" \in UsesOld /\ "rejected" \notin UsesChild
      BY DEF PC, Kind, UsesOld, HoldsOld, UsesChild, AwaitsOwner
    <3> QED BY <1>6, <3>1, <3>2, LaunchChildType DEF ProbeLaunch
  <2> QED BY <1>6, <2>1 DEF ProbeLaunch
<1>7. CASE ProbeReady
  <2>1. me.old \in Core
    BY <1>7 DEF ProbeReady, Known, UsesOld, HoldsOld
  <2>2. task' \in Tasks /\ Known'
    BY <1>7, <2>1, MoveKnown DEF ProbeReady, PC, Task, UsesOld, HoldsOld, UsesChild, AwaitsOwner
  <2> QED BY <1>7, <2>2, KilledAges DEF ProbeReady
<1>8. CASE Retire
  <2>1. me.old \in Core
    BY <1>8 DEF Retire, Known, UsesOld, HoldsOld
  <2>2. task' \in Tasks /\ Known'
    BY <1>8, <2>1, MoveKnown DEF Retire, PC, Task, UsesOld, HoldsOld, UsesChild, AwaitsOwner
  <2>3. core' = [core EXCEPT ![me.old] = [core[me.old] EXCEPT !.expected = TRUE]]
    BY <1>8 DEF Retire
  <2>4. Older
    BY <2>1, <2>3, FlagAges, OneAges DEF Cores
  <2>5. <<"retire">> \in Seq(Control)
    BY DEF Control
  <2> QED BY <1>8, <2>2, <2>4, <2>5, PostType DEF Retire, Older
<1>9. CASE Exited
  <2>1. me.old \in Core
    BY <1>9 DEF Exited, Known, UsesOld, HoldsOld
  <2>2. task' \in Tasks /\ Known'
    BY <1>9, <2>1, MoveKnown DEF Exited, PC, Task, UsesOld, HoldsOld, UsesChild, AwaitsOwner
  <2> QED BY <1>9, <2>2, KilledAges, UnsentType DEF Exited
<1>10. CASE Replace
  <2>1. core' \in Cores /\ task' \in Tasks /\ Known'
    <3>1. task["transition"].target \in Release
      BY DEF Tasks, TaskRecord, Task
    <3>2. /\ "awaitReplace" \in PC /\ "restart" \in PC /\ "normal" \in Kind
          /\ "replace" \in UsesOld /\ "restart" \notin UsesChild
      BY DEF PC, Kind, UsesOld, HoldsOld, UsesChild, AwaitsOwner
    <3> QED BY <1>10, <3>1, <3>2, LaunchChildType DEF Replace
  <2> QED BY <1>10, <2>1 DEF Replace
<1>11. CASE ReplaceReady
  <2>1. me.old \in Core /\ me.child \in Core
    BY <1>11 DEF ReplaceReady, Known, UsesOld, HoldsOld, UsesChild, AwaitsOwner, Task
  <2>2. task' \in Tasks /\ Known'
    BY <1>11, <2>1, MoveKnown DEF ReplaceReady, PC, Task, UsesOld, HoldsOld, UsesChild, AwaitsOwner
  <2>3. core[me.old].release \in Release
    BY <2>1 DEF Cores, CoreRecord
  <2> QED BY <1>11, <2>1, <2>2, <2>3, KilledAges DEF ReplaceReady
<1>12. CASE Activated
  <2>1. task' \in Tasks /\ Known'
    BY <1>12, MoveKnown DEF Activated, PC, Task, UsesOld, HoldsOld, UsesChild, AwaitsOwner
  <2> QED BY <1>12, <2>1, ResumeType DEF Activated
<1>13. CASE Restart
  <2>1. me.old \in Core
    BY <1>13 DEF Restart, Known, UsesOld, HoldsOld
  <2>2. core[me.old].release \in Release
    BY <2>1 DEF Cores, CoreRecord
  <2>3. /\ "awaitRestart" \in PC /\ "rejected" \in PC /\ "normal" \in Kind
        /\ "restart" \in UsesOld /\ "rejected" \notin UsesChild
    BY DEF PC, Kind, UsesOld, HoldsOld, UsesChild, AwaitsOwner
  <2>4. core' \in Cores /\ task' \in Tasks /\ Known'
    BY <1>13, <2>2, <2>3, LaunchChildType DEF Restart
  <2> QED BY <1>13, <2>4 DEF Restart
<1>14. CASE RestartReady
  <2>1. me.child \in Core
    BY <1>14 DEF RestartReady, Known, UsesChild, AwaitsOwner, Task
  <2>2. task' \in Tasks /\ Known'
    BY <1>14, MoveKnown DEF RestartReady, PC, Task, UsesOld, HoldsOld, UsesChild, AwaitsOwner
  <2> QED BY <1>14, <2>1, <2>2, ResumeType, KilledAges DEF RestartReady
<1>15. CASE Rejected
  <2>1. task' \in Tasks /\ Known'
    BY <1>15, MoveKnown DEF Rejected, PC, Task, UsesOld, HoldsOld, UsesChild, AwaitsOwner
  <2> QED BY <1>15, <2>1, ResumeType DEF Rejected
<1> QED BY <1>1, <1>2, <1>3, <1>4, <1>5, <1>6, <1>7, <1>8, <1>9, <1>10, <1>11, <1>12,
           <1>13, <1>14, <1>15 DEF TransitionStep

\* A failed attempt of the recovery.
LEMMA AttemptFailsType ==
  ASSUME TypeInv, NEW t \in Task, NEW a \in Attempt, AttemptFails(t, a)
  PROVE  /\ core' \in Cores /\ inbox' \in Inboxes /\ menu' \in BOOLEAN
         /\ task' \in Tasks /\ Known' /\ UNCHANGED <<current, routing>>
<1> USE TypeParts DEF TypeInv
<1>1. After[a] \in {"retained", "safe", "done"}
  BY DEF After, Attempt
<1>2. task' \in Tasks /\ Known'
  BY <1>1, MoveKnown DEF AttemptFails, PC, UsesOld, HoldsOld, UsesChild, AwaitsOwner
<1> QED BY <1>2, KilledAges, UnsentType DEF AttemptFails

LEMMA ForceType ==
  ASSUME TypeInv, NEW t \in Task, ForceStep(t)
  PROVE  TypeInv'
<1> USE TypeParts DEF TypeInv
<1>1. CASE KillOld(t)
  <2>1. task' \in Tasks /\ Known'
    BY <1>1, MoveKnown DEF KillOld, PC, UsesOld, HoldsOld, UsesChild, AwaitsOwner
  <2> QED BY <1>1, <2>1, KilledAges, UnsentType DEF KillOld
<1>2. ASSUME NEW a \in Attempt, RestoreLaunch(t, a) PROVE TypeInv'
  <2>1. CASE AttemptFails(t, a)
    BY <1>2, <2>1, AttemptFailsType DEF RestoreLaunch
  <2>2. CASE ~AttemptFails(t, a)
    <3> DEFINE kind == IF a = "safe" THEN "safe" ELSE "normal"
               new == Launched(core, task[t].target, kind)
    <3>1. Fresh \in Core
      BY <1>2, <2>2, FreshType DEF RestoreLaunch
    <3>2. new \in Cores
      BY LaunchedType DEF Kind, Tasks, TaskRecord
    <3>3. core' = [new EXCEPT ![Fresh] = [new[Fresh] EXCEPT !.held = TRUE]]
      BY <1>2, <2>2 DEF RestoreLaunch
    <3>4. core' \in Cores
      <4> HIDE DEF new
      <4>1. new[Fresh] \in CoreRecord
        BY <3>1, <3>2 DEF Cores
      <4>2. ASSUME NEW me \in CoreRecord PROVE [me EXCEPT !.held = TRUE] \in CoreRecord
        BY ZenonT(60) DEF CoreRecord
      <4>3. [new[Fresh] EXCEPT !.held = TRUE] \in CoreRecord
        BY <4>1, <4>2
      <4> QED BY <3>2, <3>3, <4>3 DEF Cores
    <3>5. task' = [task EXCEPT ![t].pc = Awaiting[a], ![t].child = Fresh]
      BY <1>2, <2>2 DEF RestoreLaunch
    <3>6. /\ Awaiting[a] \in {"awaitLatest", "awaitRetained", "awaitSafe"}
          /\ Awaiting[a] \in PC /\ Awaiting[a] \notin UsesOld
      BY DEF Awaiting, Attempt, PC, UsesOld, HoldsOld
    <3>7. task' \in Tasks
      BY <3>1, <3>5, <3>6 DEF Tasks, TaskRecord
    <3>8. Known'
      BY <3>1, <3>5, <3>6 DEF Known, Tasks, TaskRecord, Task
    <3> QED BY <1>2, <2>2, <3>4, <3>7, <3>8 DEF RestoreLaunch
  <2> QED BY <2>1, <2>2
<1>3. ASSUME NEW a \in Attempt, RestoreReady(t, a) PROVE TypeInv'
  <2>1. CASE AttemptFails(t, a)
    BY <1>3, <2>1, AttemptFailsType DEF RestoreReady
  <2>2. CASE ~AttemptFails(t, a)
    <3>1. Awaiting[a] \in UsesChild
      BY DEF Awaiting, Attempt, UsesChild, AwaitsOwner
    <3>2. task[t].child \in Core
      BY <1>3, <3>1 DEF RestoreReady, Known
    <3>3. task' \in Tasks /\ Known'
      BY <1>3, <2>2, MoveKnown DEF RestoreReady, PC, UsesOld, HoldsOld, UsesChild, AwaitsOwner
    <3>4. <<"activate", "drain">> \in Seq(Control)
      BY DEF Control
    <3>5. inbox' \in Inboxes
      BY <1>3, <2>2, <3>4, PostType DEF RestoreReady
    <3> QED BY <1>3, <2>2, <3>2, <3>3, <3>5 DEF RestoreReady
  <2> QED BY <2>1, <2>2
<1> QED BY <1>1, <1>2, <1>3 DEF ForceStep

\* A new transition in the place of the one there was.
LEMMA ForcedKnown ==
  ASSUME TypeInv, NEW r \in Release,
         task' = [task EXCEPT !["transition"] = [Idle EXCEPT !.pc = "kill", !.target = r]]
  PROVE  task' \in Tasks /\ Known'
<1>1. [Idle EXCEPT !.pc = "kill", !.target = r] \in TaskRecord
  BY IdleType DEF TaskRecord, PC
<1> QED BY <1>1, TypeParts, IdleType DEF TypeInv, Tasks, TaskRecord, Known, Task, UsesOld,
           HoldsOld, UsesChild, AwaitsOwner

LEMMA MenuType ==
  ASSUME TypeInv, MenuStep \/ TypeInput \/ CrashDetected \/ Shutdown
  PROVE  TypeInv'
<1> USE TypeParts DEF TypeInv
<1>1. CASE OpenMenu \/ Escape \/ MenuQuit
  BY <1>1 DEF OpenMenu, Escape, MenuQuit, Known
<1>2. ASSUME NEW r \in {previous, Initial}, Emergency(r) PROVE TypeInv'
  <2>1. task' \in Tasks /\ Known'
    BY <1>2, ForcedKnown, HandoffAssumption DEF Emergency
  <2>2. spent' \in Spent
    BY <1>2, HandoffAssumption DEF Emergency, Spent
  <2> QED BY <1>2, <2>1, <2>2, KilledAges, UnsentType DEF Emergency
<1>3. CASE TypeInput
  <2>1. PICK r \in Request : inbox' = Post(inbox, current, <<r>>)
    BY <1>3 DEF TypeInput
  <2>2. <<r>> \in Seq(Control)
    BY DEF Control
  <2>3. inbox' \in Inboxes
    BY <2>1, <2>2, PostType
  <2>4. spent' \in Spent
    BY <1>3, HandoffAssumption DEF TypeInput, Spent
  <2> QED BY <1>3, <2>3, <2>4 DEF TypeInput, Known
<1>4. CASE CrashDetected
  <2>1. current \in Core
    BY <1>4 DEF CrashDetected
  <2>2. core' = [core EXCEPT ![current] = [core[current] EXCEPT !.expected = TRUE]]
    BY <1>4 DEF CrashDetected
  <2>3. Older
    BY <2>1, <2>2, FlagAges, OneAges DEF Cores
  <2>4. task' \in Tasks /\ Known'
    <3>1. CASE TransitionPending
      BY <1>4, <3>1 DEF CrashDetected, Known
    <3>2. CASE ~TransitionPending
      BY <1>4, <3>2, ForcedKnown DEF CrashDetected
    <3> QED BY <3>1, <3>2
  <2> QED BY <1>4, <2>3, <2>4 DEF CrashDetected, Older
<1>5. CASE Shutdown
  <2>1. task' \in Tasks /\ Known'
    BY <1>5, IdleType DEF Shutdown, Tasks, Known, Task, UsesOld, HoldsOld, UsesChild, AwaitsOwner
  <2>2. inbox' \in Inboxes /\ events' \in Outboxes
    BY <1>5, EmptySeqs DEF Shutdown, Inboxes, Outboxes
  <2> QED BY <1>5, <2>1, <2>2, KilledAges DEF Shutdown
<1> QED BY <1>1, <1>2, <1>3, <1>4, <1>5 DEF MenuStep

LEMMA HandleType ==
  ASSUME TypeInv, NEW c \in Core, Handle(c)
  PROVE  TypeInv' /\ Older
<1> USE TypeParts DEF TypeInv
<1> DEFINE m == Head(events[c])
<1>1. m \in Message /\ Tail(events[c]) \in Seq(Message)
  BY DEF Handle, Outboxes
<1>2. core' = [core EXCEPT ![c] = Noted(core[c], m, c = current)]
  BY DEF Handle
<1>3. Older
  BY <1>2, NotedAges, OneAges DEF Cores
<1>4. events' \in Outboxes
  BY <1>1 DEF Handle, Outboxes
<1>5. CASE c # current
  BY <1>3, <1>4, <1>5 DEF Handle, Older, Known
<1>6. CASE c = current /\ ResumeQueue
  <2>1. inbox' \in Inboxes /\ routing' \in BOOLEAN
    BY <1>6, ResumeType DEF ResumeQueue
  <2> QED BY <1>3, <1>4, <1>6, <2>1 DEF Handle, Older, Known, ResumeQueue
<1>7. CASE c = current /\ RequestEvent(m)
  <2>1. task' \in Tasks /\ Known'
    <3>1. CASE task' = task
      BY <3>1 DEF Known
    <3>2. CASE task' = Goto("transition", "validate")
      BY <3>2, MoveKnown DEF PC, Task, UsesOld, HoldsOld, UsesChild, AwaitsOwner
    <3>3. CASE \E r \in {previous, Initial} :
                 task' = [task EXCEPT !["transition"].pc = "drain",
                                      !["transition"].target = r]
      <4>1. "drain" \in PC /\ "drain" \notin UsesOld /\ "drain" \notin UsesChild
        BY DEF PC, UsesOld, HoldsOld, UsesChild, AwaitsOwner
      <4>2. PICK r \in Release : task' = [task EXCEPT !["transition"].pc = "drain",
                                                     !["transition"].target = r]
        BY <3>3, HandoffAssumption
      <4>3. task' \in Tasks
        BY <4>1, <4>2 DEF Tasks, TaskRecord
      <4>4. Known'
        BY <4>1, <4>2 DEF Known, Tasks, TaskRecord, Task
      <4> QED BY <4>3, <4>4
    <3> QED BY <1>7, <3>1, <3>2, <3>3 DEF RequestEvent
  <2>2. inbox' \in Inboxes
    <3>1. <<"ack">> \in Seq(Control)
      BY DEF Control
    <3>2. inbox' \in {inbox, Post(inbox, current, <<"ack">>)}
      BY <1>7 DEF RequestEvent
    <3> QED BY <3>1, <3>2, PostType
  <2>3. routing' \in BOOLEAN /\ exitCode' \in {"none", "clean", "error"}
    BY <1>7 DEF RequestEvent
  <2>4. UNCHANGED <<current, previous, menu, spent>>
    BY DEF Handle
  <2> QED BY <1>3, <1>4, <2>1, <2>2, <2>3, <2>4 DEF Older
<1>8. \/ c # current
      \/ c = current /\ ResumeQueue
      \/ c = current /\ RequestEvent(m)
  BY Zenon DEF Handle
<1> QED BY <1>3, <1>5, <1>6, <1>7, <1>8

LEMMA StepType == TypeInv /\ [Next]_vars => TypeInv'
<1> SUFFICES ASSUME TypeInv, [Next]_vars PROVE TypeInv'
  OBVIOUS
<1>1. CASE UNCHANGED vars
  BY <1>1, TypeParts DEF vars, TypeInv, Known
<1>2. CASE Next
  BY <1>2, StartupType, PlannedType, ForceType, MenuType, HandleType, CoreType DEF Next
<1> QED BY <1>1, <1>2

\* Every variable keeps its type, whatever the number of releases, launches,
\* requests, emergencies and crashes.
THEOREM TypeCorrect == Spec => []TypeOK
<1>1. TypeInv => TypeOK
  BY DEF TypeInv
<1> QED BY <1>1, InitType, StepType, PTL DEF Spec

------------------------------------------------------------------------------
(* One owner of the session                                                 *)

\* Where a task is about to launch an owner, and no owner may run.
NoOwner == {"launch", "replace", "restart", "latest", "retained", "safe"}

\* Where the startup task may still launch an owner.
StartsOwner == {"launch"} \cup RecoveryPC

\* Where the startup task can be.
StartupPC == {"done", "awaitStart", "started"} \cup StartsOwner
StartupPlace == task["startup"].pc \in StartupPC

\* An owner is the current core or the child a task waits for; ...
Accounted == \A c \in Core :
    Owner(c) => c = current \/ \E t \in Task : task[t].pc \in AwaitsOwner /\ c = task[t].child
\* ... such a child is then the only owner; ...
ChildAlone == \A t \in Task : task[t].pc \in AwaitsOwner =>
                \A c \in Core : Owner(c) => c = task[t].child
\* ... an owner is launched when none runs; ...
NoneAtLaunch == \A t \in Task : task[t].pc \in NoOwner => \A c \in Core : ~Owner(c)
\* ... the core a planned transition drains is the current one; ...
DrainsCurrent == task["transition"].pc \in HoldsOld => task["transition"].old = current
\* ... and no transition runs beside a startup that may still launch.
StartsAlone == task["startup"].pc \in StartsOwner =>
                 current = NoCore /\ task["transition"].pc = "done"

OwnInv == /\ Accounted /\ ChildAlone /\ NoneAtLaunch
          /\ DrainsCurrent /\ StartsAlone /\ StartupPlace

LEMMA OwnerParts ==
  /\ \A c \in Core : Owner(c) <=> core[c].life \in {"boot", "up"} /\ core[c].kind # "probe"
  /\ \A c \in Core : Owner(c)' <=> core'[c].life \in {"boot", "up"} /\ core'[c].kind # "probe"
  BY DEF Owner, Live, Core, NoCore

LEMMA OwnerOlder ==
  ASSUME Older
  PROVE  \A c \in Core : Owner(c)' => Owner(c)
  BY OwnerParts DEF Older, Ages

LEMMA InitOwn == Init => OwnInv
<1> SUFFICES ASSUME Init PROVE OwnInv
  OBVIOUS
<1>1. \A c \in Core : ~Owner(c)
  BY OwnerParts DEF Init, Absent
<1>2. task["transition"].pc = "done"
  BY DEF Init, Idle, Task
<1>3. task["startup"].pc \in {"kill", "launch"}
  BY DEF Init, Idle, Task
<1>4. StartupPlace
  BY <1>3 DEF StartupPlace, StartupPC, StartsOwner, RecoveryPC
<1> QED BY <1>1, <1>2, <1>4 DEF Init, OwnInv, Accounted, ChildAlone, NoneAtLaunch,
             DrainsCurrent, StartsAlone, HoldsOld

\* A step of neither task that changes current or a task.
LEMMA OwnFrame ==
  ASSUME OwnInv, Older, UNCHANGED <<current, task>>
  PROVE  OwnInv'
  BY OwnerOlder DEF OwnInv, Accounted, ChildAlone, NoneAtLaunch, DrainsCurrent, StartsAlone,
                    StartupPlace

\* While the transition runs, or a core is current, the startup launches nothing.
LEMMA StartupOver ==
  ASSUME OwnInv, task["transition"].pc # "done" \/ current # NoCore
  PROVE  task["startup"].pc \notin StartsOwner
  BY DEF OwnInv, StartsAlone

LEMMA PCSets ==
  /\ AwaitsOwner \subseteq RecoveryPC \cup {"awaitReplace", "awaitRestart"}
  /\ NoOwner \subseteq StartsOwner \cup {"replace", "restart"}
  /\ RecoveryPC \subseteq StartsOwner
  /\ "done" \notin AwaitsOwner \cup NoOwner \cup HoldsOld \cup StartsOwner
  BY DEF AwaitsOwner, RecoveryPC, NoOwner, StartsOwner, HoldsOld

LEMMA StartupQuiet ==
  ASSUME OwnInv, task["transition"].pc # "done" \/ current # NoCore
  PROVE  task["startup"].pc \notin AwaitsOwner \cup NoOwner \cup StartsOwner
  BY StartupOver DEF OwnInv, StartupPlace, StartupPC, AwaitsOwner, NoOwner, StartsOwner, RecoveryPC

\* The transition moves, and neither before nor after it waits for an owner.
LEMMA OwnMove ==
  ASSUME OwnInv, Older, UNCHANGED current,
         task'["startup"] = task["startup"],
         task["transition"].pc # "done" \/ current # NoCore,
         task["transition"].pc \notin AwaitsOwner,
         task'["transition"].pc \notin AwaitsOwner \cup NoOwner,
         DrainsCurrent'
  PROVE  OwnInv'
<1>1. task["startup"].pc \notin AwaitsOwner \cup NoOwner \cup StartsOwner
  BY StartupQuiet
<1>2. \A c \in Core : Owner(c)' => c = current'
  BY <1>1, OwnerOlder DEF OwnInv, Accounted, Task
<1> QED BY <1>1, <1>2 DEF OwnInv, Accounted, ChildAlone, NoneAtLaunch, StartsAlone, StartupPlace,
                         Task

\* A step after which no owner runs.
LEMMA OwnNone ==
  ASSUME \A c \in Core : ~Owner(c)', DrainsCurrent', StartsAlone', StartupPlace'
  PROVE  OwnInv'
  BY DEF OwnInv, Accounted, ChildAlone, NoneAtLaunch

\* Every live child is killed.
LEMMA KillAll ==
  ASSUME TypeInv, core' = Kill(core, LiveChildren)
  PROVE  \A c \in Core : ~Owner(c)'
<1>1. core \in Cores
  BY TypeParts DEF TypeInv
<1>2. Older
  BY <1>1, KillOlder
<1>3. \A c \in Core : c \in LiveChildren => core'[c].life = "dead"
  BY <1>1, KilledAges
<1>4. \A c \in Core : Owner(c) => c \in LiveChildren
  BY OwnerParts DEF LiveChildren, Unreaped, Core, NoCore
<1> QED BY <1>2, <1>3, <1>4, OwnerOlder, OwnerParts

\* A task launches the only owner and waits for it.
LEMMA OwnLaunch ==
  ASSUME TypeInv, OwnInv, NEW t \in Task, task[t].pc \in NoOwner,
         task[t].pc \in StartsOwner \/ t = "transition",
         Fresh \in Core, \A c \in Core \ {Fresh} : core'[c] = core[c],
         task'[t].pc \in AwaitsOwner, task'[t].child = Fresh,
         t = "startup" => task'[t].pc \in RecoveryPC,
         \A u \in Task \ {t} : task'[u] = task[u], UNCHANGED current
  PROVE  OwnInv'
<1>1. \A c \in Core : Owner(c)' => c = Fresh
  BY OwnerParts DEF OwnInv, NoneAtLaunch
<1>2. AwaitsOwner \cap (NoOwner \cup HoldsOld) = {} /\ "done" \notin NoOwner
  BY DEF AwaitsOwner, NoOwner, HoldsOld
<1>3. CASE t = "transition"
  <2>1. task["startup"].pc \notin AwaitsOwner \cup NoOwner \cup StartsOwner
    BY <1>2, <1>3, StartupQuiet
  <2> QED BY <1>1, <1>2, <1>3, <2>1 DEF OwnInv, Accounted, ChildAlone, NoneAtLaunch,
             DrainsCurrent, StartsAlone, StartupPlace, Task
<1>4. CASE t = "startup"
  <2>1. task["transition"].pc = "done" /\ current = NoCore
    BY <1>4 DEF OwnInv, StartsAlone
  <2> QED BY <1>1, <1>2, <1>4, <2>1, PCSets DEF OwnInv, Accounted, ChildAlone, NoneAtLaunch,
             DrainsCurrent, StartsAlone, StartupPlace, StartupPC, Task
<1> QED BY <1>3, <1>4 DEF Task

\* The child a task has waited for becomes the current core.
LEMMA OwnTake ==
  ASSUME OwnInv, Older, NEW t \in Task, task[t].pc \in AwaitsOwner,
         current' = task[t].child, task'[t].pc \in {"done", "activated", "rejected"},
         t = "startup" => task'[t].pc = "done",
         \A u \in Task \ {t} : task'[u] = task[u]
  PROVE  OwnInv'
<1>1. \A c \in Core : Owner(c)' => c = current'
  BY OwnerOlder DEF OwnInv, ChildAlone
<1>2. task'[t].pc \notin AwaitsOwner \cup NoOwner \cup HoldsOld
  BY DEF AwaitsOwner, NoOwner, HoldsOld
<1>3. CASE t = "transition"
  <2>1. task["startup"].pc \notin AwaitsOwner \cup NoOwner \cup StartsOwner
    BY <1>3, StartupQuiet, PCSets
  <2> QED BY <1>1, <1>2, <1>3, <2>1 DEF OwnInv, Accounted, ChildAlone, NoneAtLaunch,
             DrainsCurrent, StartsAlone, StartupPlace, Task
<1>4. CASE t = "startup"
  <2>1. task["startup"].pc \in StartsOwner
    BY <1>4, PCSets DEF OwnInv, StartupPlace, StartupPC, AwaitsOwner
  <2>2. task["transition"].pc = "done"
    BY <2>1 DEF OwnInv, StartsAlone
  <2> QED BY <1>1, <1>2, <1>4, <2>2, PCSets DEF OwnInv, Accounted, ChildAlone, NoneAtLaunch,
             DrainsCurrent, StartsAlone, StartupPlace, StartupPC, Task
<1> QED BY <1>3, <1>4 DEF Task

\* What a step of the planned transition does with its program counter.
LEMMA MoveOwn ==
  ASSUME TypeInv, OwnInv, Older, UNCHANGED current,
         task["transition"].pc \notin AwaitsOwner \cup {"done"},
         NEW pc \in PC, task' = Goto("transition", pc),
         pc \notin AwaitsOwner \cup NoOwner,
         pc \in HoldsOld => task["transition"].pc \in HoldsOld
  PROVE  OwnInv'
<1>1. task \in Tasks
  BY TypeParts DEF TypeInv
<1>2. DrainsCurrent'
  BY <1>1, GotoType, PCSets DEF OwnInv, DrainsCurrent, Task
<1>3. task'["startup"] = task["startup"] /\ task'["transition"].pc = pc
  BY <1>1, GotoType DEF Task
<1> QED BY <1>2, <1>3, OwnMove

\* The launch of a normal core by the transition, or the move to "failed".
LEMMA LaunchChildOwn ==
  ASSUME TypeInv, OwnInv, NEW release, NEW kind, NEW wait, NEW failed \in PC,
         LaunchChild(release, kind, wait, failed),
         task["transition"].pc \in {"replace", "restart"}, wait \in AwaitsOwner,
         failed \in {"restart", "rejected"}, UNCHANGED current
  PROVE  OwnInv'
<1> USE TypeParts DEF TypeInv
<1>1. CASE /\ Unused # {}
           /\ core' = Launched(core, release, kind)
           /\ task' = [task EXCEPT !["transition"].pc = wait,
                                   !["transition"].child = Fresh]
  <2>1. Fresh \in Core
    BY <1>1, FreshType
  <2>2. \A c \in Core \ {Fresh} : core'[c] = core[c]
    BY <1>1 DEF Launched, Cores
  <2>3. /\ task'["transition"].pc = wait /\ task'["transition"].child = Fresh
        /\ \A u \in Task \ {"transition"} : task'[u] = task[u]
    BY <1>1 DEF Tasks, TaskRecord, Task
  <2> QED BY <2>1, <2>2, <2>3, OwnLaunch DEF NoOwner, Task
<1>2. CASE task' = Goto("transition", failed) /\ UNCHANGED core
  <2>1. \A c \in Core : ~Owner(c)'
    BY <1>2, OwnerParts DEF OwnInv, NoneAtLaunch, NoOwner, Task
  <2>2. task'["startup"] = task["startup"] /\ task'["transition"].pc = failed
    BY <1>2, GotoType DEF Task
  <2>3. task["startup"].pc \notin StartsOwner
    BY StartupOver
  <2> QED BY <2>1, <2>2, <2>3, OwnNone DEF OwnInv, DrainsCurrent, HoldsOld, StartsAlone,
             StartupPlace
<1> QED BY <1>1, <1>2 DEF LaunchChild

LEMMA PlannedOwn ==
  ASSUME TypeInv, OwnInv, TransitionStep
  PROVE  OwnInv'
<1> USE TypeParts DEF TypeInv
<1> DEFINE me == task["transition"]
<1>1. CASE Validate
  <2>1. task'["startup"] = task["startup"] /\ task'["transition"].pc \in {"drain", "rejected"}
    BY <1>1, GotoType DEF Validate, Task, Tasks, TaskRecord, PC
  <2>2. Older
    BY <1>1, SameAges DEF Validate
  <2> QED BY <1>1, <2>1, <2>2, OwnMove DEF Validate, AwaitsOwner, NoOwner, HoldsOld,
             DrainsCurrent
<1>2. CASE Drain
  <2>1. CASE current = NoCore
    <3>1. Older
      BY <1>2, <2>1, SameAges DEF Drain
    <3> QED BY <1>2, <2>1, <3>1, MoveOwn DEF Drain, PC, AwaitsOwner, NoOwner, HoldsOld
  <2>2. CASE current # NoCore
    <3> DEFINE new == [core[current] EXCEPT !.idle = FALSE, !.captured = FALSE, !.error = FALSE]
    <3>1. current \in Core /\ core' = [core EXCEPT ![current] = new]
      BY <1>2, <2>2 DEF Drain
    <3>2. Ages(core[current], new)
      BY <3>1, FlagAges DEF Cores
    <3>3. Older
      <4> HIDE DEF new
      <4> QED BY <3>1, <3>2, OneAges
    <3>4. /\ task'["startup"] = task["startup"] /\ UNCHANGED current
          /\ task'["transition"].pc = "awaitIdle" /\ task'["transition"].old = current
      BY <1>2, <2>2 DEF Drain, Tasks, TaskRecord, Task
    <3> QED BY <1>2, <2>2, <3>3, <3>4, OwnMove DEF Drain, AwaitsOwner, NoOwner, DrainsCurrent
  <2> QED BY <2>1, <2>2
<1>3. CASE IdleSeen
  <2>1. Older
    BY <1>3, SameAges DEF IdleSeen
  <2> QED BY <1>3, <2>1, MoveOwn DEF IdleSeen, PC, AwaitsOwner, NoOwner, HoldsOld
<1>4. CASE CaptureSeen
  <2>1. Older
    <3>1. PICK b \in BOOLEAN : core' = [core EXCEPT ![me.old] = [core[me.old] EXCEPT !.error = b]]
      <4> DEFINE b == core[me.old].error /\ ~core[me.old].captured
      <4>1. core' = [core EXCEPT ![me.old] = [core[me.old] EXCEPT !.error = b]]
        BY <1>4 DEF CaptureSeen
      <4>2. b \in BOOLEAN
        OBVIOUS
      <4> HIDE DEF b
      <4> QED BY <4>1, <4>2
    <3>2. me.old \in Core
      BY <1>4 DEF CaptureSeen, Known, UsesOld, HoldsOld
    <3> QED BY <3>1, <3>2, FlagAges, OneAges DEF Cores
  <2> QED BY <1>4, <2>1, MoveOwn DEF CaptureSeen, PC, AwaitsOwner, NoOwner, HoldsOld
<1>5. CASE RecordState
  <2>1. Older
    BY <1>5, SameAges DEF RecordState
  <2> QED BY <1>5, <2>1, MoveOwn DEF RecordState, PC, AwaitsOwner, NoOwner, HoldsOld
<1>6. CASE ProbeLaunch
  <2>1. CASE /\ Unused # {}
             /\ core' = Launched(core, me.target, "probe")
             /\ task' = [task EXCEPT !["transition"].pc = "awaitProbe",
                                     !["transition"].child = Fresh]
    <3>1. Fresh \in Core
      BY <2>1, FreshType
    <3>2. core'[Fresh].kind = "probe" /\ \A c \in Core \ {Fresh} : core'[c] = core[c]
      BY <2>1, <3>1 DEF Launched, Cores, Absent
    <3>3. \A c \in Core : Owner(c)' => Owner(c)
      BY <3>2, OwnerParts
    <3>4. /\ task'["startup"] = task["startup"] /\ task'["transition"].pc = "awaitProbe"
          /\ task'["transition"].old = me.old
      BY <2>1 DEF Tasks, TaskRecord, Task
    <3>5. task["startup"].pc \notin AwaitsOwner \cup NoOwner \cup StartsOwner
      BY <1>6, StartupQuiet DEF ProbeLaunch
    <3> QED BY <1>6, <3>3, <3>4, <3>5 DEF ProbeLaunch, OwnInv, Accounted, ChildAlone,
               NoneAtLaunch, DrainsCurrent, StartsAlone, StartupPlace, Task, AwaitsOwner,
               NoOwner, HoldsOld
  <2>2. CASE task' = Goto("transition", "rejected") /\ UNCHANGED core
    <3>1. Older
      BY <2>2, SameAges
    <3> QED BY <1>6, <2>2, <3>1, MoveOwn DEF ProbeLaunch, PC, AwaitsOwner, NoOwner, HoldsOld
  <2> QED BY <1>6, <2>1, <2>2 DEF ProbeLaunch, LaunchChild
<1>7. CASE ProbeReady
  <2>1. Older
    BY <1>7, KillOlder DEF ProbeReady
  <2> QED BY <1>7, <2>1, MoveOwn DEF ProbeReady, PC, AwaitsOwner, NoOwner, HoldsOld
<1>8. CASE Retire
  <2>1. me.old \in Core
    BY <1>8 DEF Retire, Known, UsesOld, HoldsOld
  <2>2. core' = [core EXCEPT ![me.old] = [core[me.old] EXCEPT !.expected = TRUE]]
    BY <1>8 DEF Retire
  <2>3. Older
    BY <2>1, <2>2, FlagAges, OneAges DEF Cores
  <2> QED BY <1>8, <2>3, MoveOwn DEF Retire, PC, AwaitsOwner, NoOwner, HoldsOld
<1>9. CASE Exited
  <2>1. me.old = current /\ current \in Core
    BY <1>9 DEF Exited, Known, UsesOld, HoldsOld, OwnInv, DrainsCurrent
  <2>2. task["startup"].pc \notin AwaitsOwner \cup NoOwner \cup StartsOwner
    BY <1>9, StartupQuiet DEF Exited
  <2>3. \A c \in Core : Owner(c) => c = current
    BY <1>9, <2>2 DEF Exited, OwnInv, Accounted, Task, AwaitsOwner
  <2>4. Older /\ \A c \in Core : c = current => ~Owner(c)'
    <3>1. CASE Unreaped(current)
      BY <1>9, <2>1, <3>1, KilledAges, KillOlder, OwnerParts DEF Exited
    <3>2. CASE ~Unreaped(current)
      BY <1>9, <2>1, <3>2, SameAges, OwnerParts DEF Exited, Unreaped, Core, NoCore
    <3> QED BY <3>1, <3>2
  <2>5. \A c \in Core : ~Owner(c)'
    BY <2>3, <2>4, OwnerOlder
  <2>6. task'["startup"] = task["startup"] /\ task'["transition"].pc = "replace"
    BY <1>9, GotoType DEF Exited, Task, PC
  <2> QED BY <2>2, <2>5, <2>6, OwnNone DEF OwnInv, DrainsCurrent, HoldsOld, StartsAlone,
             StartupPlace
<1>10. CASE Replace
  BY <1>10, LaunchChildOwn DEF Replace, AwaitsOwner, PC
<1>11. CASE ReplaceReady
  <2>1. CASE /\ ReadyOK(me.child) /\ current' = me.child
             /\ task' = Goto("transition", "activated") /\ UNCHANGED core
    <3>1. task'["transition"].pc = "activated" /\ \A u \in Task \ {"transition"} : task'[u] = task[u]
      BY <2>1, GotoType DEF Task, PC
    <3>2. Older
      BY <2>1, SameAges
    <3> QED BY <1>11, <2>1, <3>1, <3>2, OwnTake DEF ReplaceReady, AwaitsOwner, Task
  <2>2. CASE /\ core' = Kill(core, LiveChildren) /\ task' = Goto("transition", "restart")
             /\ UNCHANGED current
    <3>1. task'["startup"] = task["startup"] /\ task'["transition"].pc = "restart"
      BY <2>2, GotoType DEF Task, PC
    <3>2. task["startup"].pc \notin StartsOwner
      BY <1>11, StartupOver DEF ReplaceReady
    <3> QED BY <2>2, <3>1, <3>2, KillAll, OwnNone DEF OwnInv, DrainsCurrent, HoldsOld,
               StartsAlone, StartupPlace
  <2> QED BY <1>11, <2>1, <2>2 DEF ReplaceReady
<1>12. CASE Activated
  <2>1. Older
    BY <1>12, SameAges DEF Activated
  <2> QED BY <1>12, <2>1, MoveOwn DEF Activated, PC, AwaitsOwner, NoOwner, HoldsOld
<1>13. CASE Restart
  BY <1>13, LaunchChildOwn DEF Restart, AwaitsOwner, PC
<1>14. CASE RestartReady
  <2>1. /\ task'["transition"].pc = "rejected" /\ \A u \in Task \ {"transition"} : task'[u] = task[u]
    BY <1>14, GotoType DEF RestartReady, Task, PC
  <2>2. CASE ReadyOK(me.child) /\ current' = me.child /\ UNCHANGED core
    <3>1. Older
      BY <2>2, SameAges
    <3> QED BY <1>14, <2>1, <2>2, <3>1, OwnTake DEF RestartReady, AwaitsOwner, Task
  <2>3. CASE core' = Kill(core, LiveChildren) /\ UNCHANGED current
    <3>1. task["startup"].pc \notin StartsOwner
      BY <1>14, StartupOver DEF RestartReady
    <3> QED BY <2>1, <2>3, <3>1, KillAll, OwnNone DEF OwnInv, DrainsCurrent, HoldsOld,
               StartsAlone, StartupPlace, Task
  <2> QED BY <1>14, <2>2, <2>3 DEF RestartReady
<1>15. CASE Rejected
  <2>1. Older
    BY <1>15, SameAges DEF Rejected
  <2> QED BY <1>15, <2>1, MoveOwn DEF Rejected, PC, AwaitsOwner, NoOwner, HoldsOld
<1> QED BY <1>1, <1>2, <1>3, <1>4, <1>5, <1>6, <1>7, <1>8, <1>9, <1>10, <1>11, <1>12,
           <1>13, <1>14, <1>15 DEF TransitionStep

LEMMA StartupOwn ==
  ASSUME TypeInv, OwnInv, StartupStep
  PROVE  OwnInv'
<1> USE TypeParts DEF TypeInv
<1>1. CASE StartLaunch
  <2>1. /\ task["transition"].pc = "done"
        /\ \A c \in Core : ~Owner(c)
    BY <1>1 DEF StartLaunch, OwnInv, StartsAlone, StartsOwner, NoneAtLaunch, NoOwner, Task
  <2>2. CASE /\ Unused # {}
             /\ core' = Launched(core, Initial, "normal")
             /\ current' = Fresh
             /\ task' = [task EXCEPT !["startup"].pc = "awaitStart",
                                     !["startup"].child = Fresh]
    <3>1. \A c \in Core : Owner(c)' => c = current'
      BY <2>1, <2>2, FreshType, OwnerParts DEF Launched, Cores
    <3>2. task'["transition"].pc = "done" /\ task'["startup"].pc = "awaitStart"
      BY <2>1, <2>2 DEF Tasks, TaskRecord, Task
    <3> QED BY <3>1, <3>2 DEF OwnInv, Accounted, ChildAlone, NoneAtLaunch, DrainsCurrent,
               StartsAlone, StartupPlace, StartupPC, Task, AwaitsOwner, NoOwner, HoldsOld,
               StartsOwner, RecoveryPC
  <2>3. CASE task' = Goto("startup", "done") /\ UNCHANGED <<core, current>>
    <3>1. task'["transition"].pc = "done" /\ task'["startup"].pc = "done"
      BY <2>1, <2>3, GotoType DEF Task, PC
    <3>2. \A c \in Core : ~Owner(c)'
      BY <2>1, <2>3, OwnerParts
    <3> QED BY <3>1, <3>2, OwnNone, PCSets DEF DrainsCurrent, StartsAlone, StartupPlace, StartupPC
  <2> QED BY <1>1, <2>2, <2>3 DEF StartLaunch
<1>2. ASSUME Older, UNCHANGED current, task["startup"].pc \in {"awaitStart", "started"},
             NEW pc \in {"started", "done"}, task' = Goto("startup", pc)
      PROVE  OwnInv'
  <2>1. task'["startup"].pc = pc /\ task'["transition"] = task["transition"]
    BY <1>2, GotoType DEF Task, PC
  <2>2. /\ pc \notin AwaitsOwner \cup NoOwner \cup StartsOwner
        /\ task["startup"].pc \notin AwaitsOwner
    BY <1>2 DEF AwaitsOwner, NoOwner, StartsOwner, RecoveryPC
  <2> QED BY <1>2, <2>1, <2>2, OwnerOlder DEF OwnInv, Accounted, ChildAlone, NoneAtLaunch,
             DrainsCurrent, StartsAlone, StartupPlace, StartupPC, Task
<1>3. CASE StartReady
  <2>1. CASE ReadyOK(task["startup"].child)
    <3>1. Older
      BY <1>3, <2>1, SameAges DEF StartReady
    <3> QED BY <1>2, <1>3, <2>1, <3>1 DEF StartReady
  <2>2. CASE ~ReadyOK(task["startup"].child)
    <3>1. core' = [core EXCEPT ![current] = [core[current] EXCEPT !.expected = TRUE]]
      BY <1>3, <2>2 DEF StartReady
    <3>2. Older
      BY <3>1, FlagAges, OneSet DEF Cores
    <3> QED BY <1>2, <1>3, <2>2, <3>2 DEF StartReady
  <2> QED BY <2>1, <2>2
<1>4. CASE Started
  <2>1. Older
    BY <1>4, SameAges DEF Started
  <2> QED BY <1>2, <1>4, <2>1 DEF Started
<1> QED BY <1>1, <1>3, <1>4 DEF StartupStep

\* A task of the recovery runs alone.
LEMMA RecoversAlone ==
  ASSUME OwnInv, NEW t \in Task, task[t].pc \in RecoveryPC, NEW u \in Task \ {t}
  PROVE  /\ task[u].pc \notin AwaitsOwner \cup NoOwner
         /\ t = "transition" => task[u].pc \notin StartsOwner
         /\ t = "startup" => task[u].pc = "done" /\ current = NoCore
<1>1. CASE t = "transition"
  BY <1>1, StartupQuiet, PCSets DEF Task
<1>2. CASE t = "startup"
  BY <1>2, PCSets DEF OwnInv, StartsAlone, Task
<1> QED BY <1>1, <1>2 DEF Task

\* A recovery moves on and no owner runs.
LEMMA RecoverNone ==
  ASSUME TypeInv, OwnInv, NEW t \in Task, task[t].pc \in RecoveryPC,
         NEW pc \in {"latest", "retained", "safe", "done"}, task' = Goto(t, pc),
         UNCHANGED current, \A c \in Core : ~Owner(c)'
  PROVE  OwnInv'
<1>1. task'[t].pc = pc /\ \A u \in Task \ {t} : task'[u] = task[u]
  BY GotoType, TypeParts DEF TypeInv, PC
<1>2. CASE t = "transition"
  BY <1>1, <1>2, RecoversAlone, OwnNone DEF OwnInv, DrainsCurrent, StartsAlone, StartupPlace,
                                            HoldsOld, Task
<1>3. CASE t = "startup"
  BY <1>1, <1>3, RecoversAlone, OwnNone DEF DrainsCurrent, StartsAlone, StartupPlace, StartupPC,
                                            StartsOwner, RecoveryPC, HoldsOld, Task
<1> QED BY <1>2, <1>3 DEF Task

LEMMA ForceOwn ==
  ASSUME TypeInv, OwnInv, NEW t \in Task, ForceStep(t)
  PROVE  OwnInv'
<1> USE TypeParts DEF TypeInv
<1>1. CASE KillOld(t)
  <2>1. task[t].pc \in RecoveryPC /\ task[t].pc \notin AwaitsOwner
    BY <1>1 DEF KillOld, RecoveryPC, AwaitsOwner
  <2>2. \A c \in Core : Owner(c) => c = current
    BY <2>1, RecoversAlone DEF OwnInv, Accounted
  <2>3. \A c \in Core : ~Owner(c)'
    <3>1. Older
      BY <1>1, KillOlder DEF KillOld
    <3>2. \A c \in Core : c = current => core'[c].life = "dead"
      BY <1>1, KilledAges DEF KillOld, Core, NoCore
    <3> QED BY <2>2, <3>1, <3>2, OwnerOlder, OwnerParts
  <2> QED BY <1>1, <2>1, <2>3, RecoverNone DEF KillOld
<1>2. ASSUME NEW a \in Attempt, AttemptFails(t, a), task[t].pc \in RecoveryPC PROVE OwnInv'
  <2>1. After[a] \in {"latest", "retained", "safe", "done"}
    BY DEF After, Attempt
  <2>2. \A c \in Core : ~Owner(c)'
    BY <1>2, KillAll DEF AttemptFails
  <2> QED BY <1>2, <2>1, <2>2, RecoverNone DEF AttemptFails
<1>3. ASSUME NEW a \in Attempt, RestoreLaunch(t, a) PROVE OwnInv'
  <2>1. task[t].pc = a /\ a \in NoOwner /\ a \in RecoveryPC
    BY <1>3 DEF RestoreLaunch, Attempt, NoOwner, RecoveryPC
  <2>2. CASE AttemptFails(t, a)
    BY <1>2, <2>1, <2>2
  <2>3. CASE ~AttemptFails(t, a)
    <3>1. Fresh \in Core
      BY <1>3, <2>3, FreshType DEF RestoreLaunch
    <3>2. \A c \in Core \ {Fresh} : core'[c] = core[c]
      BY <1>3, <2>3, <3>1 DEF RestoreLaunch, Launched, Cores
    <3>3. task' = [task EXCEPT ![t].pc = Awaiting[a], ![t].child = Fresh]
      BY <1>3, <2>3 DEF RestoreLaunch
    <3>4. Awaiting[a] \in AwaitsOwner /\ Awaiting[a] \in RecoveryPC
      BY DEF Awaiting, Attempt, AwaitsOwner, RecoveryPC
    <3>5. /\ task'[t].pc = Awaiting[a] /\ task'[t].child = Fresh
          /\ \A u \in Task \ {t} : task'[u] = task[u]
      BY <3>3 DEF Tasks, TaskRecord
    <3>6. UNCHANGED current
      BY <1>3, <2>3 DEF RestoreLaunch
    <3> QED BY <2>1, <3>1, <3>2, <3>4, <3>5, <3>6, OwnLaunch, PCSets
  <2> QED BY <2>2, <2>3
<1>4. ASSUME NEW a \in Attempt, RestoreReady(t, a) PROVE OwnInv'
  <2>1. task[t].pc \in AwaitsOwner /\ task[t].pc \in RecoveryPC
    BY <1>4 DEF RestoreReady, Awaiting, Attempt, AwaitsOwner, RecoveryPC
  <2>2. CASE AttemptFails(t, a)
    BY <1>2, <2>1, <2>2
  <2>3. CASE ~AttemptFails(t, a)
    <3>1. task'[t].pc = "done" /\ \A u \in Task \ {t} : task'[u] = task[u]
      BY <1>4, <2>3, GotoType DEF RestoreReady, PC
    <3>2. Older /\ current' = task[t].child
      BY <1>4, <2>3, SameAges DEF RestoreReady
    <3> QED BY <2>1, <3>1, <3>2, OwnTake
  <2> QED BY <2>2, <2>3
<1> QED BY <1>1, <1>3, <1>4 DEF ForceStep

LEMMA MenuOwn ==
  ASSUME MenuDuringStartup = FALSE, TypeInv, OwnInv,
         MenuStep \/ TypeInput \/ CrashDetected \/ Shutdown
  PROVE  OwnInv'
<1> USE TypeParts DEF TypeInv
<1>1. CASE OpenMenu \/ Escape \/ MenuQuit \/ TypeInput
  <2>1. Older /\ UNCHANGED <<current, task>>
    BY <1>1, SameAges DEF OpenMenu, Escape, MenuQuit, TypeInput
  <2> QED BY <2>1, OwnFrame
<1>2. ASSUME NEW r \in {previous, Initial}, Emergency(r) PROVE OwnInv'
  <2>1. task["startup"].pc = "done" /\ UNCHANGED current
    BY <1>2 DEF Emergency
  <2>2. task'["startup"] = task["startup"] /\ task'["transition"].pc = "kill"
    BY <1>2, IdleType DEF Emergency, Tasks, TaskRecord, Task
  <2>3. Older
    BY <1>2, KillOlder DEF Emergency
  <2>4. \A c \in Core : Owner(c)' => c = current'
    <3>1. CASE task["transition"].pc \in AwaitsOwner
      <4>1. CancelKills = LiveChildren
        BY <3>1 DEF CancelKills, AwaitsOwner
      <4> QED BY <1>2, <4>1, KillAll DEF Emergency
    <3>2. CASE task["transition"].pc \notin AwaitsOwner
      BY <2>1, <2>3, <3>2, OwnerOlder, PCSets DEF OwnInv, Accounted, Task
    <3> QED BY <3>1, <3>2
  <2>5. "kill" \notin AwaitsOwner \cup NoOwner \cup HoldsOld
    BY DEF AwaitsOwner, NoOwner, HoldsOld
  <2> QED BY <2>1, <2>2, <2>4, <2>5, PCSets DEF OwnInv, Accounted, ChildAlone, NoneAtLaunch,
             DrainsCurrent, StartsAlone, StartupPlace, StartupPC, Task
<1>3. CASE CrashDetected
  <2>1. current \in Core
    BY <1>3 DEF CrashDetected
  <2>2. core' = [core EXCEPT ![current] = [core[current] EXCEPT !.expected = TRUE]]
    BY <1>3 DEF CrashDetected
  <2>3. Older /\ UNCHANGED current
    BY <1>3, <2>1, <2>2, FlagAges, OneAges DEF Cores, CrashDetected
  <2>4. CASE TransitionPending
    BY <1>3, <2>3, <2>4, OwnFrame DEF CrashDetected
  <2>5. CASE ~TransitionPending
    <3>1. task'["startup"] = task["startup"] /\ task'["transition"].pc = "kill"
      BY <1>3, <2>5, IdleType DEF CrashDetected, Tasks, TaskRecord, Task
    <3>2. DrainsCurrent' /\ "kill" \notin AwaitsOwner \cup NoOwner
      BY <3>1 DEF DrainsCurrent, HoldsOld, AwaitsOwner, NoOwner
    <3>3. task["transition"].pc \notin AwaitsOwner /\ current # NoCore
      BY <1>3, <2>5, PCSets DEF TransitionPending, CrashDetected
    <3> QED BY <2>3, <3>1, <3>2, <3>3, OwnMove
  <2> QED BY <2>4, <2>5
<1>4. CASE Shutdown
  <2>1. \A c \in Core : ~Owner(c)'
    BY <1>4, KillAll DEF Shutdown
  <2>2. \A t \in Task : task'[t].pc = "done"
    BY <1>4, IdleType DEF Shutdown
  <2> QED BY <2>1, <2>2, OwnNone, PCSets DEF DrainsCurrent, StartsAlone, StartupPlace, StartupPC,
                                             Task
<1> QED BY <1>1, <1>2, <1>3, <1>4 DEF MenuStep

LEMMA HandleOwn ==
  ASSUME TypeInv, OwnInv, NEW c \in Core, Handle(c)
  PROVE  OwnInv'
<1> USE TypeParts DEF TypeInv
<1>1. Older /\ UNCHANGED current
  BY HandleType DEF Handle
<1>2. CASE UNCHANGED task
  BY <1>1, <1>2, OwnFrame
<1>3. CASE task' # task
  <2>1. c = current /\ ~TransitionPending /\ RequestEvent(Head(events[c]))
    BY <1>3, Zenon DEF Handle, ResumeQueue, RequestEvent
  <2>2. /\ task'["startup"] = task["startup"]
        /\ task'["transition"].pc \in {"validate", "drain"}
    BY <1>3, <2>1, GotoType DEF RequestEvent, Tasks, TaskRecord, Task, PC
  <2>3. current # NoCore /\ task["transition"].pc \notin AwaitsOwner
    BY <2>1, PCSets DEF Core, NoCore, TransitionPending
  <2> QED BY <1>1, <2>2, <2>3, OwnMove DEF DrainsCurrent, HoldsOld, AwaitsOwner, NoOwner
<1> QED BY <1>2, <1>3

LEMMA StepOwn ==
  ASSUME MenuDuringStartup = FALSE, TypeInv, OwnInv, [Next]_vars
  PROVE  OwnInv'
<1>1. CASE UNCHANGED vars
  BY <1>1, SameAges, OwnFrame, TypeParts DEF vars, TypeInv
<1>2. ASSUME NEW c \in Core, CoreStep(c) PROVE OwnInv'
  BY <1>2, CoreType, OwnFrame DEF CoreFrame
<1>3. CASE Next
  BY <1>2, <1>3, StartupOwn, PlannedOwn, ForceOwn, MenuOwn, HandleOwn DEF Next
<1> QED BY <1>1, <1>3

\* When the recovery menu is used only after startup has finished, at most one
\* process that owns the session's journal and workspace runs at a time, for
\* every number of launches, requests, emergencies and crashes.
THEOREM OneOwner == ASSUME MenuDuringStartup = FALSE PROVE Spec => []SingleOwner
<1>1. OwnInv => SingleOwner
  BY DEF OwnInv, Accounted, ChildAlone, SingleOwner
<1>2. TypeInv /\ OwnInv /\ [Next]_vars => OwnInv'
  BY StepOwn
<1> QED BY <1>1, <1>2, InitType, StepType, InitOwn, PTL DEF Spec

------------------------------------------------------------------------------
(* The messages of a pipe                                                   *)

Msgs(s) == {s[i] : i \in DOMAIN s}

\* No message of A is followed by one of B.
Apart(s, A, B) == \A i, j \in DOMAIN s : i < j => ~(s[i] \in A /\ s[j] \in B)

\* The last capture or continue is a continue.
Resumed(s) == \E m \in DOMAIN s : /\ s[m] = "continue"
                                  /\ \A j \in DOMAIN s : s[j] \in {"capture", "continue"} => j <= m

------------------------------------------------------------------------------
(* The invariant                                                            *)

Alive == {"boot", "up"}
Resumes == {"activate", "continue"}
Orders == Resumes \cup {"drain"}
Early == {"startup", "ready", "failed", "finished"}
Starts == {"awaitStart", "started"}

\* A core that has not been told to begin, and one nobody has written to.
Passive(me) == /\ ~me.active /\ ~me.draining /\ ~me.frozen /\ ~me.capture /\ ~me.retire
               /\ ~me.idleSent /\ ~me.busy /\ ~me.waiting
Inert(c) == /\ Passive(core[c])
            /\ Msgs(inbox[c]) \subseteq Request
            /\ Msgs(events[c]) \subseteq Early
Blank(c) == /\ Inert(c) /\ inbox[c] = <<>> /\ core[c].typed = <<>>
            /\ "startup" \notin Msgs(events[c])

\* A process before it exists, before it is ready, and after it has ended.
Unborn(c) ==
    /\ core[c].life = "none" => core[c] = Absent /\ inbox[c] = <<>> /\ events[c] = <<>>
    /\ core[c].life = "boot" => /\ Inert(c) /\ core[c].typed = <<>>
                                /\ Msgs(events[c]) \subseteq {"startup"}
                                /\ ~core[c].hasState /\ ~core[c].ready
    /\ core[c].life \in {"gone", "dead"} => ~core[c].busy /\ ~core[c].waiting /\ ~core[c].held

\* Only the current core is written to; ...
Stranger(c) == c # current /\ core[c].life \in Alive => Blank(c)

\* ... a probe never is the current core, and reports one verdict.
Probe(c) == core[c].kind = "probe" =>
    /\ c # current
    /\ Msgs(events[c]) \cap {"handoff", "capture_failed"} = {}
    /\ core[c].life = "up" \/ core[c].hasState \/ "ready" \in Msgs(events[c])
         => "failed" \notin Msgs(events[c])

Starting(c) == c = current =>
    /\ core[c].life # "none"
    /\ core[c].life = "boot" => task["startup"].pc = "awaitStart"
    /\ core[c].life \in Alive /\ "startup" \in Msgs(events[c]) => task["startup"].pc = "awaitStart"

\* A core that has told of its idleness stays idle; one that owes it will tell
\* once.
InForce(c) == c = current /\ core[c].life = "up"
Drained(c) == /\ core[c].draining /\ core[c].idleSent /\ ~core[c].busy /\ ~core[c].waiting
              /\ Msgs(inbox[c]) \cap Orders = {}
Owes(c) == "drain" \in Msgs(inbox[c]) \/ (core[c].draining /\ ~core[c].idleSent)
Told(c) == "idle" \in Msgs(events[c])

Draining(c) == InForce(c) =>
    /\ Told(c) => Drained(c)
    /\ Apart(events[c], {"idle"}, {"idle"})
    /\ Apart(inbox[c], {"drain"}, Orders)
    /\ core[c].draining /\ ~core[c].idleSent => Msgs(inbox[c]) \cap Orders = {}

\* A transition waits for the one idle message, or the core was recovered and
\* has asked for nothing yet.
Unasked(c) == /\ task["transition"].pc = "done" /\ core[c].held
              /\ Owes(c) => Msgs(events[c]) \cap Request = {}
              /\ Apart(events[c], Request, {"idle"})
              /\ "continue" \notin Msgs(inbox[c])
              /\ core[c].draining => Msgs(inbox[c]) \cap Orders = {}

Drains(c) == InForce(c) =>
    LET pc == task["transition"].pc IN
    /\ Owes(c) \/ Told(c) => pc \in {"awaitIdle", "kill"} \/ Unasked(c)
    /\ pc = "awaitIdle" /\ core[c].idle => Drained(c) /\ ~Told(c)
    /\ pc \in HoldsOld \ {"awaitIdle"} => Drained(c)

\* A recovered core drains before it does anything else.
Recovered(c) ==
    \/ /\ Passive(core[c]) /\ core[c].typed = <<>>
       /\ Len(inbox[c]) > 1 /\ Head(inbox[c]) = "activate" /\ inbox[c][2] = "drain"
    \/ /\ core[c].active /\ ~core[c].draining /\ ~core[c].idleSent
       /\ core[c].typed = <<>> /\ inbox[c] # <<>> /\ Head(inbox[c]) = "drain"
    \/ core[c].draining

Holding(c) == InForce(c) =>
    /\ core[c].held => ~core[c].busy /\ Recovered(c)
    /\ "activate" \in Msgs(inbox[c]) =>
         /\ core[c].held /\ Passive(core[c])
         /\ Head(inbox[c]) = "activate" /\ "activate" \notin Msgs(Tail(inbox[c]))

\* Input goes to a core that takes it.
Thaws(c) == \/ Msgs(inbox[c]) \cap {"capture", "continue"} = {} /\ ~core[c].frozen
            \/ Resumed(inbox[c])
Reaches(c) == routing /\ InForce(c) => Thaws(c)

Sound(c) == /\ Unborn(c) /\ Stranger(c) /\ Probe(c) /\ Starting(c)
            /\ Draining(c) /\ Drains(c) /\ Holding(c) /\ Reaches(c)

\* While startup waits, its child is the current core and has not begun; a
\* transition beside it is a recovery that has not launched anything.
Startup ==
    LET first == task["startup"].child IN
    /\ task["startup"].pc \in Starts =>
         /\ first = current /\ first \in Core
         /\ Msgs(events[first]) \subseteq Early
         /\ core[first].life \in Alive => Inert(first) /\ ~core[first].held
         /\ task["transition"].pc \in {"done", "kill", "latest"}
         /\ task["transition"].pc = "latest" => core[first].ready
    /\ task["startup"].pc = "started" => core[first].life # "boot"

\* The locals of the transition.
Tested(c, release) == /\ core[c].kind = "probe" /\ core[c].release = release
                      /\ core[c].hasState /\ ~core[c].error
Activating == {"retire", "awaitExit", "replace", "awaitReplace", "activated"}

Locals ==
    LET me == task["transition"] IN
    /\ me.pc \in {"done", "validate", "drain"} \cup RecoveryPC => me.old = NoCore
    /\ me.pc \in UsesOld => me.old = current
    /\ me.pc = "awaitProbe" => core[me.child].kind = "probe" /\ core[me.child].release = me.target
    /\ me.pc \in Activating => \E c \in Core : Tested(c, me.target)
    /\ me.pc = "awaitRestart" => core[me.child].release = core[me.old].release
    /\ me.pc = "rejected" /\ me.old # NoCore /\ Unreaped(current) =>
         core[current].release = core[me.old].release
    /\ me.pc = "activated" =>
         current \in Core /\ (core[current].life \in Alive => Inert(current) /\ ~core[current].held)

\* The child a task waits for is held exactly if it is to be recovered.
Children == \A t \in Task : task[t].pc \in AwaitsOwner =>
    LET c == task[t].child IN
    /\ c # current /\ core[c].kind # "probe" /\ core[c].life # "none"
    /\ core[c].life \in Alive => (core[c].held <=> task[t].pc \notin {"awaitReplace", "awaitRestart"})

Inv == (\A c \in Core : Sound(c)) /\ Startup /\ Locals /\ Children /\ InputRestored

------------------------------------------------------------------------------
(* Messages and their order as a pipe is written and read                   *)

LEMMA NoMsgs == Msgs(<<>>) = {} /\ \A A, B : Apart(<<>>, A, B)
  BY DEF Msgs, Apart

LEMMA Written ==
  ASSUME NEW X, NEW s \in Seq(X), NEW m \in X
  PROVE  /\ Append(s, m) \in Seq(X) /\ Msgs(Append(s, m)) = Msgs(s) \cup {m}
         /\ s \o <<m>> = Append(s, m)
         /\ s # <<>> => Append(s, m) # <<>> /\ Head(Append(s, m)) = Head(s)
                        /\ Tail(Append(s, m)) = Append(Tail(s), m)
         /\ Len(Append(s, m)) = Len(s) + 1
         /\ \A i \in 1..Len(s) : Append(s, m)[i] = s[i]
         /\ Append(s, m)[Len(s) + 1] = m
<1> DEFINE a == Append(s, m)
<1>1. a \in Seq(X) /\ Len(a) = Len(s) + 1 /\ \A i \in 1..Len(s) : a[i] = s[i]
  OBVIOUS
<1>2. a[Len(s) + 1] = m /\ s \o <<m>> = a
  OBVIOUS
<1>3. Msgs(a) = Msgs(s) \cup {m}
  <2>1. DOMAIN s = 1..Len(s) /\ DOMAIN a = 1..(Len(s) + 1) /\ Len(s) \in Nat
    BY <1>1
  <2>2. 1..(Len(s) + 1) = 1..Len(s) \cup {Len(s) + 1}
    BY <2>1
  <2> HIDE DEF a
  <2>3. \A i \in 1..Len(s) : a[i] \in Msgs(s)
    BY <1>1, <2>1 DEF Msgs
  <2>4. Msgs(a) \subseteq Msgs(s) \cup {m}
    BY <1>2, <2>1, <2>2, <2>3 DEF Msgs
  <2>5. Msgs(s) \subseteq Msgs(a) /\ m \in Msgs(a)
    BY <1>1, <1>2, <2>1, <2>2 DEF Msgs
  <2> QED BY <2>4, <2>5
<1>4. s # <<>> => a # <<>> /\ Head(a) = Head(s)
  OBVIOUS
<1>5. s # <<>> => Tail(a) = Append(Tail(s), m)
  OBVIOUS
<1> QED BY <1>1, <1>2, <1>3, <1>4, <1>5

LEMMA Read ==
  ASSUME NEW X, NEW s \in Seq(X), s # <<>>
  PROVE  /\ Tail(s) \in Seq(X) /\ Head(s) \in X
         /\ Msgs(s) = {Head(s)} \cup Msgs(Tail(s))
         /\ \A i \in 1..Len(Tail(s)) : Tail(s)[i] = s[i + 1]
         /\ Len(Tail(s)) = Len(s) - 1 /\ Len(s) \in Nat \ {0}
<1>1. /\ Tail(s) \in Seq(X) /\ Head(s) \in X /\ Head(s) = s[1] /\ Len(s) \in Nat \ {0}
      /\ Len(Tail(s)) = Len(s) - 1 /\ \A i \in 1..Len(Tail(s)) : Tail(s)[i] = s[i + 1]
  OBVIOUS
<1>2. DOMAIN s = 1..Len(s) /\ DOMAIN Tail(s) = 1..(Len(s) - 1)
  BY <1>1
<1>3. ASSUME NEW i \in 1..Len(s) PROVE s[i] \in {Head(s)} \cup Msgs(Tail(s))
  <2>1. CASE i = 1
    BY <1>1, <2>1
  <2>2. CASE i # 1
    <3>1. i - 1 \in 1..(Len(s) - 1) /\ s[i] = Tail(s)[i - 1]
      BY <1>1, <2>2
    <3> QED BY <1>2, <3>1 DEF Msgs
  <2> QED BY <2>1, <2>2
<1>4. ASSUME NEW i \in 1..(Len(s) - 1) PROVE Tail(s)[i] \in Msgs(s)
  BY <1>1, <1>2 DEF Msgs
<1>5. Head(s) \in Msgs(s)
  BY <1>1, <1>2 DEF Msgs
<1> QED BY <1>1, <1>2, <1>3, <1>4, <1>5 DEF Msgs

LEMMA ApartWritten ==
  ASSUME NEW X, NEW s \in Seq(X), NEW m \in X, NEW A, NEW B,
         Apart(s, A, B), m \in B => Msgs(s) \cap A = {}
  PROVE  Apart(Append(s, m), A, B)
<1> DEFINE a == Append(s, m)
<1>1. /\ Len(a) = Len(s) + 1 /\ a[Len(s) + 1] = m /\ Len(s) \in Nat
      /\ \A i \in 1..Len(s) : a[i] = s[i]
  BY Written
<1>2. DOMAIN a = 1..(Len(s) + 1) /\ DOMAIN s = 1..Len(s)
  BY <1>1, Written
<1> SUFFICES ASSUME NEW i \in 1..(Len(s) + 1), NEW j \in 1..(Len(s) + 1), i < j, a[i] \in A, a[j] \in B
             PROVE  FALSE
  BY <1>2 DEF Apart
<1> HIDE DEF a
<1>3. i \in 1..Len(s) /\ a[i] = s[i] /\ s[i] \in Msgs(s)
  BY <1>1, <1>2 DEF Msgs
<1>4. CASE j = Len(s) + 1
  BY <1>1, <1>3, <1>4
<1>5. CASE j # Len(s) + 1
  <2>1. j \in 1..Len(s)
    BY <1>1, <1>5
  <2> QED BY <1>1, <1>2, <1>3, <2>1 DEF Apart
<1> QED BY <1>4, <1>5

LEMMA ApartRead ==
  ASSUME NEW X, NEW s \in Seq(X), s # <<>>, NEW A, NEW B, Apart(s, A, B)
  PROVE  Apart(Tail(s), A, B) /\ (Head(s) \in A => Msgs(Tail(s)) \cap B = {})
<1>1. /\ \A i \in 1..Len(Tail(s)) : Tail(s)[i] = s[i + 1]
      /\ Len(Tail(s)) = Len(s) - 1 /\ Len(s) \in Nat \ {0} /\ Head(s) = s[1]
      /\ DOMAIN s = 1..Len(s) /\ DOMAIN Tail(s) = 1..(Len(s) - 1)
  BY Read
<1>2. Apart(Tail(s), A, B)
  BY <1>1 DEF Apart
<1>3. ASSUME Head(s) \in A, NEW i \in 1..(Len(s) - 1) PROVE Tail(s)[i] \notin B
  <2>1. i + 1 \in 1..Len(s) /\ 1 \in 1..Len(s) /\ 1 < i + 1
    BY <1>1
  <2> QED BY <1>1, <1>3, <2>1 DEF Apart
<1> QED BY <1>1, <1>2, <1>3 DEF Msgs

LEMMA ResumedWritten ==
  ASSUME NEW X, NEW s \in Seq(X), NEW m \in X, m # "capture", Resumed(s) \/ m = "continue"
  PROVE  Resumed(Append(s, m))
<1> DEFINE a == Append(s, m)
<1>1. /\ Len(a) = Len(s) + 1 /\ a[Len(s) + 1] = m /\ Len(s) \in Nat
      /\ \A i \in 1..Len(s) : a[i] = s[i]
  BY Written
<1>2. DOMAIN a = 1..(Len(s) + 1) /\ DOMAIN s = 1..Len(s)
  BY <1>1, Written
<1> HIDE DEF a
<1>3. CASE m = "continue"
  <2>1. Len(s) + 1 \in DOMAIN a /\ \A j \in DOMAIN a : j <= Len(s) + 1
    BY <1>1, <1>2
  <2> QED BY <1>1, <1>3, <2>1 DEF Resumed, a
<1>4. CASE m # "continue"
  <2>1. PICK k \in 1..Len(s) : /\ s[k] = "continue"
                               /\ \A j \in 1..Len(s) : s[j] \in {"capture", "continue"} => j <= k
    BY <1>2, <1>4 DEF Resumed
  <2>2. k \in DOMAIN a /\ a[k] = "continue"
    BY <1>1, <1>2, <2>1
  <2>3. ASSUME NEW j \in DOMAIN a, a[j] \in {"capture", "continue"} PROVE j <= k
    <3>1. j \in 1..Len(s)
      BY <1>1, <1>2, <1>4, <2>3
    <3> QED BY <1>1, <2>1, <2>3, <3>1
  <2> QED BY <2>2, <2>3 DEF Resumed, a
<1> QED BY <1>3, <1>4

LEMMA ResumedRead ==
  ASSUME NEW X, NEW s \in Seq(X), s # <<>>, Resumed(s)
  PROVE  \/ Resumed(Tail(s))
         \/ Head(s) = "continue" /\ Msgs(Tail(s)) \cap {"capture", "continue"} = {}
<1>1. /\ \A i \in 1..Len(Tail(s)) : Tail(s)[i] = s[i + 1]
      /\ Len(Tail(s)) = Len(s) - 1 /\ Len(s) \in Nat \ {0} /\ Head(s) = s[1]
      /\ DOMAIN s = 1..Len(s) /\ DOMAIN Tail(s) = 1..(Len(s) - 1)
  BY Read
<1>2. PICK k \in 1..Len(s) : /\ s[k] = "continue"
                             /\ \A j \in 1..Len(s) : s[j] \in {"capture", "continue"} => j <= k
  BY <1>1 DEF Resumed
<1>3. CASE k = 1
  <2>1. \A i \in 1..(Len(s) - 1) : Tail(s)[i] \notin {"capture", "continue"}
    BY <1>1, <1>2, <1>3
  <2> QED BY <1>1, <1>2, <1>3, <2>1 DEF Msgs
<1>4. CASE k # 1
  <2>1. k - 1 \in 1..(Len(s) - 1) /\ Tail(s)[k - 1] = "continue"
    BY <1>1, <1>2, <1>4
  <2>2. \A i \in 1..(Len(s) - 1) : Tail(s)[i] \in {"capture", "continue"} => i <= k - 1
    BY <1>1, <1>2
  <2> QED BY <1>1, <2>1, <2>2 DEF Resumed
<1> QED BY <1>3, <1>4

\* A core that thaws is not left frozen by what it was sent.
LEMMA ThawsEnough ==
  ASSUME TypeInv, NEW c \in Core, Thaws(c)
  PROVE  ~StaysFrozen(c)
<1> DEFINE s == inbox[c]
           sent == {i \in DOMAIN s : s[i] \in {"capture", "continue"}}
<1>1. s \in Seq(Control)
  BY TypeParts DEF TypeInv, Inboxes
<1>2. CASE Msgs(s) \cap {"capture", "continue"} = {} /\ ~core[c].frozen
  BY <1>2 DEF StaysFrozen, Msgs
<1>3. CASE Resumed(s)
  <2>1. PICK k \in DOMAIN s : /\ s[k] = "continue"
                              /\ \A j \in DOMAIN s : s[j] \in {"capture", "continue"} => j <= k
    BY <1>3 DEF Resumed
  <2> DEFINE last == CHOOSE i \in sent : \A j \in sent : j <= i
  <2>2. k \in sent /\ \A j \in sent : j <= k
    BY <2>1
  <2>3. last \in sent /\ \A j \in sent : j <= last
    BY <2>2
  <2>4. last = k
    <3>1. last <= k /\ k <= last /\ last \in Nat /\ k \in Nat
      BY <1>1, <2>2, <2>3
    <3> QED BY <3>1
  <2>5. sent # {} /\ s[last] = "continue"
    BY <2>1, <2>2, <2>4
  <2> QED BY <2>5 DEF StaysFrozen
<1> QED BY <1>2, <1>3 DEF Thaws

------------------------------------------------------------------------------
(* What a step leaves alone, and the processes it ends                      *)

\* What is known of a core and not of the tasks.
Same(d) == core'[d] = core[d] /\ inbox'[d] = inbox[d] /\ events'[d] = events[d]

\* Nothing the invariant says of a process that is not current depends on tasks.
LEMMA Untouched ==
  ASSUME NEW d \in Core, Sound(d), d # current, d # current', Same(d)
  PROVE  Sound(d)'
  BY DEF Sound, Same, Unborn, Inert, Stranger, Blank, Probe, Starting, Draining, Drains, Holding,
         Reaches, InForce

\* What it says of the current core depends on them in three places.
LEMMA Standing ==
  ASSUME NEW d \in Core, Sound(d), UNCHANGED current, Same(d),
         Starting(d)', Drains(d)', Reaches(d)'
  PROVE  Sound(d)'
  BY DEF Sound, Same, Unborn, Inert, Stranger, Blank, Probe, Draining, Drained, Told, Holding,
         Recovered, InForce

LEMMA SameSound ==
  ASSUME NEW d \in Core, Sound(d), UNCHANGED <<current, task, routing>>, Same(d)
  PROVE  Sound(d)'
<1>1. Starting(d)' /\ Reaches(d)'
  BY DEF Sound, Same, Starting, Reaches, Thaws, InForce
<1>2. Drains(d)'
  BY DEF Sound, Same, Drains, Owes, Told, Unasked, Drained, InForce
<1> QED BY <1>1, <1>2, Standing

\* A process that has ended has nothing left but its verdict.
LEMMA Ending ==
  ASSUME NEW d \in Core, Sound(d), core'[d].life \in {"gone", "dead"},
         ~core'[d].busy, ~core'[d].waiting, ~core'[d].held, Probe(d)'
  PROVE  Sound(d)'
  BY DEF Sound, Unborn, Stranger, Starting, Draining, Drains, Holding, Reaches, InForce, Alive

LEMMA InitSound == Init => Inv
<1> SUFFICES ASSUME Init PROVE Inv
  OBVIOUS
<1>1. /\ current = NoCore /\ routing = FALSE
      /\ \A c \in Core : core[c] = Absent /\ inbox[c] = <<>> /\ events[c] = <<>>
  BY DEF Init
<1>2. /\ task["startup"].pc \in {"launch", "kill"}
      /\ task["transition"].pc = "done" /\ task["transition"].old = NoCore
  <2>1. PICK start \in {"launch", "kill"} :
          task = [t \in Task |-> IF t = "startup" THEN [Idle EXCEPT !.pc = start] ELSE Idle]
    BY DEF Init
  <2> QED BY <2>1 DEF Task, Idle
<1>3. ASSUME NEW c \in Core PROVE Sound(c)
  <2>1. /\ c # current /\ core[c].life = "none" /\ core[c].kind = "normal"
    BY <1>1 DEF Absent, Core, NoCore
  <2> QED BY <1>1, <2>1 DEF Sound, Unborn, Stranger, Probe, Starting, Draining, Drains,
             Holding, Reaches, InForce, Alive
<1>4. Startup
  BY <1>2 DEF Startup, Starts
<1>5. Locals
  BY <1>2 DEF Locals, RecoveryPC, UsesOld, HoldsOld, Activating
<1>6. Children
  BY <1>2 DEF Children, Task, AwaitsOwner
<1>7. InputRestored
  BY <1>1 DEF InputRestored, Unreaped, NoCore
<1> QED BY <1>3, <1>4, <1>5, <1>6, <1>7 DEF Inv

\* What a step may do to what the tasks know of a process.
Keeps(c) ==
    LET me == core[c]
        new == core'[c] IN
    /\ new.kind = me.kind /\ new.release = me.release
    /\ me.hasState => new.hasState
    /\ me.kind = "probe" /\ me.hasState /\ ~me.error => ~new.error
    /\ me.ready => new.ready
    /\ me.life # "none" => new.life # "none"
    /\ new.life = "boot" => me.life = "boot"
    /\ new.life \in {"boot", "up", "gone"} => me.life \in {"boot", "up", "gone"}
    /\ new.life \in Alive => me.life \in Alive
    /\ Inert(c) /\ new.life \in Alive => Inert(c)' /\ (new.held <=> me.held)
    /\ Msgs(events[c]) \subseteq Early /\ (me.life \in Alive => Inert(c))
         => Msgs(events'[c]) \subseteq Early

LEMMA SameKeeps ==
  ASSUME NEW d \in Core, Same(d)
  PROVE  Keeps(d)
  BY DEF Same, Keeps, Inert

\* Startup does not notice a step that keeps this much of its core.
LEMMA StartupKept ==
  ASSUME Startup, UNCHANGED current, task'["startup"] = task["startup"], \A d \in Core : Keeps(d),
         task["startup"].pc \in Starts =>
           /\ task'["transition"].pc \in {"done", "kill", "latest"}
           /\ task'["transition"].pc = "latest" => core'[task["startup"].child].ready
  PROVE  Startup'
  BY DEF Startup, Starts, Keeps

\* Nor does a task that waits for its child.
LEMMA ChildrenKept ==
  ASSUME TypeInv, Inv, UNCHANGED current, \A d \in Core : Keeps(d),
         \A t \in Task : task'[t].pc \in AwaitsOwner => task'[t] = task[t]
  PROVE  Children'
<1> SUFFICES ASSUME NEW t \in Task, task[t].pc \in AwaitsOwner
             PROVE  LET d == task[t].child IN
                    /\ d # current /\ core'[d].kind # "probe" /\ core'[d].life # "none"
                    /\ core'[d].life \in Alive =>
                         (core'[d].held <=> task[t].pc \notin {"awaitReplace", "awaitRestart"})
  BY DEF Children
<1> DEFINE d == task[t].child
<1>1. d \in Core
  BY DEF TypeInv, Known, UsesChild
<1>2. /\ d # current /\ core[d].kind # "probe" /\ core[d].life # "none"
      /\ core[d].life \in Alive =>
           (core[d].held <=> task[t].pc \notin {"awaitReplace", "awaitRestart"})
  BY DEF Inv, Children
<1>3. core[d].life \in Alive => Inert(d)
  BY <1>1, <1>2 DEF Inv, Sound, Stranger, Blank
<1> QED BY <1>1, <1>2, <1>3 DEF Keeps

\* Nor a transition that stays where it is.
LEMMA LocalsKept ==
  ASSUME TypeInv, Inv, UNCHANGED current, \A d \in Core : Keeps(d),
         task'["transition"] = task["transition"]
  PROVE  Locals'
<1> DEFINE me == task["transition"]
<1>1. me.pc \in UsesOld => me.old \in Core
  BY DEF TypeInv, Known
<1>2. me.pc \in {"awaitProbe", "awaitRestart"} => me.child \in Core
  BY DEF TypeInv, Known, UsesChild, AwaitsOwner, Task
<1>3. current \in Core \cup {NoCore} /\ me.old \in Core \cup {NoCore}
  BY TypeParts DEF TypeInv, Tasks, TaskRecord, Task
<1>4. Unreaped(current)' => Unreaped(current) /\ current \in Core
  BY <1>3 DEF Unreaped, NoCore, Keeps
<1>5. ASSUME NEW d \in Core, Tested(d, me.target) PROVE Tested(d, me.target)'
  BY <1>5 DEF Tested, Keeps
<1>6. me.pc = "awaitProbe" => core'[me.child].kind = "probe" /\ core'[me.child].release = me.target
  BY <1>2 DEF Inv, Locals, Keeps
<1>7. me.pc = "awaitRestart" => core'[me.child].release = core'[me.old].release
  BY <1>1, <1>2 DEF Inv, Locals, UsesOld, Keeps
<1>8. me.pc = "rejected" /\ me.old # NoCore /\ Unreaped(current)'
        => core'[current].release = core'[me.old].release
  BY <1>3, <1>4 DEF Inv, Locals, Keeps
<1>9. me.pc = "activated" =>
        current \in Core /\ (core'[current].life \in Alive => Inert(current)' /\ ~core'[current].held)
  BY DEF Inv, Locals, Keeps
<1>10. me.pc \in Activating => \E d \in Core : Tested(d, me.target)'
  BY <1>5 DEF Inv, Locals
<1> QED BY <1>6, <1>7, <1>8, <1>9, <1>10 DEF Inv, Locals

LEMMA InputKept ==
  ASSUME TypeInv, Inv, UNCHANGED <<current, task>>, \A d \in Core : Keeps(d),
         routing => routing', Running' => Running
  PROVE  InputRestored'
<1>1. current \in Core \cup {NoCore}
  BY TypeParts DEF TypeInv
<1> QED BY <1>1 DEF Inv, InputRestored, Unreaped, TransitionPending, NoCore, Keeps

LEMMA AllKept ==
  ASSUME TypeInv, Inv, UNCHANGED <<current, task>>, \A d \in Core : Keeps(d) /\ Sound(d)',
         routing => routing', Running' => Running
  PROVE  Inv'
<1>1. task["startup"].pc \in Starts => /\ task["transition"].pc \in {"done", "kill", "latest"}
                                       /\ task["transition"].pc = "latest" => core'[task["startup"].child].ready
  BY DEF Inv, Startup, Keeps
<1> QED BY <1>1, StartupKept, LocalsKept, ChildrenKept, InputKept DEF Inv

LEMMA OneCore ==
  ASSUME TypeInv, Inv, CoreFrame, NEW c \in Core, Keeps(c), Sound(c)',
         \A d \in Core \ {c} : Same(d)
  PROVE  Inv'
<1>1. ASSUME NEW d \in Core PROVE Keeps(d) /\ Sound(d)'
  BY <1>1, SameSound, SameKeeps DEF Inv, CoreFrame
<1> QED BY <1>1, AllKept DEF CoreFrame, Running

------------------------------------------------------------------------------
(* The steps of a core                                                      *)

LEMMA Typed ==
  ASSUME TypeInv, NEW c \in Core
  PROVE  /\ core[c] \in CoreRecord /\ inbox[c] \in Seq(Control) /\ events[c] \in Seq(Message)
         /\ core \in Cores /\ inbox \in Inboxes /\ events \in Outboxes /\ task \in Tasks
  BY TypeParts DEF TypeInv, Cores, Inboxes, Outboxes

\* Fields that end with the process, and those that stay.
LEMMA EndedFields ==
  ASSUME NEW me \in CoreRecord
  PROVE  /\ Ended(me).life = "gone" /\ Ended(me).kind = me.kind /\ Ended(me).release = me.release
         /\ Ended(me).hasState = me.hasState /\ Ended(me).error = me.error
         /\ Ended(me).ready = me.ready
         /\ ~Ended(me).busy /\ ~Ended(me).waiting /\ ~Ended(me).held
  BY DEF Ended, CoreRecord

\* A core that has begun, or that was written to, is the current one.
LEMMA CurrentOnly ==
  ASSUME Inv, NEW c \in Core, core[c].life = "up", c # current
  PROVE  /\ Blank(c)
         /\ ~core[c].active /\ ~core[c].busy /\ ~core[c].waiting /\ ~core[c].draining
         /\ ~core[c].capture /\ inbox[c] = <<>> /\ core[c].typed = <<>>
  BY DEF Inv, Sound, Stranger, Alive, Blank, Inert, Passive

\* The process of a core ends and has said no more than that it failed, or is the
\* current one.
LEMMA CoreEnds ==
  ASSUME TypeInv, Inv, NEW c \in Core, CoreFrame,
         core' = [core EXCEPT ![c] = Ended(@)],
         core[c].life \in Alive,
         inbox' = [inbox EXCEPT ![c] = <<>>],
         \A d \in Core \ {c} : events'[d] = events[d],
         Msgs(events[c]) \subseteq Early /\ Inert(c) => Msgs(events'[c]) \subseteq Early,
         Probe(c)'
  PROVE  Inv'
<1>1. core'[c] = Ended(core[c]) /\ \A d \in Core \ {c} : core'[d] = core[d]
  BY Typed DEF Cores
<1>2. \A d \in Core \ {c} : inbox'[d] = inbox[d]
  BY Typed DEF Inboxes
<1>3. Sound(c)'
  BY <1>1, Typed, EndedFields, Ending DEF Inv
<1>4. Keeps(c)
  BY <1>1, Typed, EndedFields DEF Keeps, Alive
<1> QED BY <1>1, <1>2, <1>3, <1>4, OneCore DEF Same

LEMMA BootSteps ==
  ASSUME TypeInv, Inv, NEW c \in Core, Boot(c)
  PROVE  Inv'
<1> USE Typed
<1>0. CoreFrame
  BY BootType
<1>1. CASE BootStartup(c)
  <2>1. /\ UNCHANGED <<core, inbox>> /\ events' = [events EXCEPT ![c] = <<"startup">>]
        /\ core[c].life = "boot" /\ core[c].kind = "normal"
        /\ task["startup"].pc = "awaitStart" /\ c = task["startup"].child
    BY <1>1 DEF BootStartup
  <2>2. c = current
    BY <2>1 DEF Inv, Startup, Starts
  <2>3. events'[c] = <<"startup">> /\ Msgs(events'[c]) = {"startup"}
    <3>1. events'[c] = <<"startup">>
      BY <2>1 DEF Outboxes
    <3> QED BY <3>1 DEF Msgs
  <2>4. \A d \in Core \ {c} : Same(d)
    BY <2>1 DEF Same, Outboxes
  <2>5. Inert(c) /\ Inert(c)'
    BY <2>1, <2>3 DEF Inv, Sound, Unborn, Inert, Early
  <2>6. Sound(c)'
    BY <1>0, <2>1, <2>2, <2>3, <2>5 DEF Inv, Sound, Unborn, Stranger, Probe, Starting, Draining,
       Drains, Holding, Reaches, InForce, CoreFrame
  <2>7. Keeps(c)
    BY <2>1, <2>3, <2>5 DEF Keeps, Early
  <2> QED BY <1>0, <2>4, <2>6, <2>7, OneCore
<1>2. CASE BootReady(c)
  <2>1. /\ UNCHANGED inbox /\ events' = [events EXCEPT ![c] = Append(@, "ready")]
        /\ core[c].life = "boot" /\ core' = [core EXCEPT ![c] = [core[c] EXCEPT !.life = "up"]]
    BY <1>2 DEF BootReady
  <2>2. /\ core'[c] = [core[c] EXCEPT !.life = "up"] /\ events'[c] = Append(events[c], "ready")
        /\ \A d \in Core \ {c} : Same(d)
    BY <2>1 DEF Same, Cores, Outboxes
  <2>3. /\ Inert(c) /\ core[c].typed = <<>> /\ Msgs(events[c]) \subseteq {"startup"}
        /\ ~core[c].hasState /\ ~core[c].ready
    BY <2>1 DEF Inv, Sound, Unborn
  <2>4. Msgs(events'[c]) = Msgs(events[c]) \cup {"ready"}
    BY <2>2, Written DEF Message
  <2>5. Inert(c)' /\ core'[c].life = "up" /\ core'[c].typed = <<>>
    BY <2>1, <2>2, <2>3, <2>4 DEF Inert, Passive, CoreRecord, Early
  <2>6. /\ core'[c].kind = core[c].kind /\ core'[c].release = core[c].release
        /\ core'[c].hasState = core[c].hasState /\ core'[c].error = core[c].error
        /\ core'[c].ready = core[c].ready /\ core'[c].held = core[c].held
    BY <2>2 DEF CoreRecord
  <2>7. Keeps(c)
    BY <2>1, <2>3, <2>4, <2>5, <2>6 DEF Keeps, Alive, Early
  <2>8. c = current => /\ ~core[c].held /\ task["startup"].pc = "awaitStart"
                       /\ task["transition"].pc \in {"done", "kill", "latest"}
    BY <2>1 DEF Inv, Sound, Starting, Startup, Starts, Alive
  <2>9. Unborn(c)' /\ Stranger(c)' /\ Probe(c)' /\ Starting(c)'
    <3>1. Unborn(c)'
      BY <2>5 DEF Unborn
    <3>2. Stranger(c)'
      BY <1>0, <2>1, <2>3, <2>4, <2>5 DEF Inv, Sound, Stranger, Blank, Alive, CoreFrame
    <3>3. Probe(c)'
      BY <1>0, <2>3, <2>4, <2>6 DEF Inv, Sound, Probe, CoreFrame
    <3>4. Starting(c)'
      BY <1>0, <2>5, <2>8 DEF Starting, CoreFrame
    <3> QED BY <3>1, <3>2, <3>3, <3>4
  <2>10. Draining(c)' /\ Drains(c)'
    <3>1. ~Owes(c)' /\ ~Told(c)' /\ ~core'[c].draining
      BY <2>5 DEF Owes, Told, Inert, Passive, Request, Early
    <3>2. Draining(c)'
      <4>1. Apart(events'[c], {"idle"}, {"idle"}) /\ Apart(inbox'[c], {"drain"}, Orders)
        BY <3>1 DEF Apart, Told, Owes, Msgs
      <4> QED BY <3>1, <4>1 DEF Draining
    <3>3. Drains(c)'
      BY <1>0, <2>8, <3>1 DEF Drains, InForce, HoldsOld, CoreFrame
    <3> QED BY <3>2, <3>3
  <2>11. Holding(c)' /\ Reaches(c)'
    BY <1>0, <2>5, <2>6, <2>8 DEF Holding, Reaches, Thaws, InForce, Inert, Passive, Request, CoreFrame
  <2> QED BY <1>0, <2>2, <2>7, <2>9, <2>10, <2>11, OneCore DEF Sound
<1>3. CASE BootEnds(c)
  <2>1. /\ core[c].life = "boot" /\ core' = [core EXCEPT ![c] = Ended(@)]
        /\ inbox' = [inbox EXCEPT ![c] = <<>>]
    BY <1>3 DEF BootEnds
  <2>2. PICK last \in {<<>>, <<"failed">>, <<"finished">>} : events' = [events EXCEPT ![c] = @ \o last]
    BY <1>3 DEF BootEnds
  <2>3. /\ Inert(c) /\ Msgs(events[c]) \subseteq {"startup"} /\ ~core[c].hasState
    BY <2>1 DEF Inv, Sound, Unborn
  <2>4. Msgs(events'[c]) \subseteq Msgs(events[c]) \cup {"failed", "finished"}
    <3>1. events'[c] = events[c] \o last
      BY <2>2 DEF Outboxes
    <3>2. CASE last = <<>>
      <4>1. events'[c] = events[c]
        BY <3>1, <3>2
      <4> QED BY <4>1
    <3>3. CASE last = <<"failed">>
      <4>1. "failed" \in Message
        BY DEF Message
      <4>2. /\ events[c] \o <<"failed">> = Append(events[c], "failed")
            /\ Msgs(Append(events[c], "failed")) = Msgs(events[c]) \cup {"failed"}
        BY <4>1, Written
      <4> QED BY <3>1, <3>3, <4>2
    <3>4. CASE last = <<"finished">>
      <4>1. "finished" \in Message
        BY DEF Message
      <4>2. /\ events[c] \o <<"finished">> = Append(events[c], "finished")
            /\ Msgs(Append(events[c], "finished")) = Msgs(events[c]) \cup {"finished"}
        BY <4>1, Written
      <4> QED BY <3>1, <3>4, <4>2
    <3> QED BY <3>2, <3>3, <3>4
  <2>5. core'[c].hasState = core[c].hasState /\ core'[c].life = "gone" /\ core'[c].kind = core[c].kind
    BY <2>1, EndedFields DEF Cores
  <2>6. Probe(c)'
    BY <1>0, <2>3, <2>4, <2>5 DEF Inv, Sound, Probe, CoreFrame
  <2>7. \A d \in Core \ {c} : events'[d] = events[d]
    BY <2>2 DEF Outboxes
  <2> QED BY <1>0, <2>1, <2>3, <2>4, <2>6, <2>7, CoreEnds DEF Alive, Early
<1> QED BY <1>1, <1>2, <1>3 DEF Boot

\* What one control message does to the fields of a core.
AppliedTo(me, m, new) ==
    /\ new.life = me.life /\ new.kind = me.kind /\ new.release = me.release
    /\ new.hasState = me.hasState /\ new.error = me.error /\ new.ready = me.ready
    /\ new.idle = me.idle /\ new.idleSent = me.idleSent
    /\ m \notin Request => new.typed = me.typed
    /\ new.retire <=> me.retire \/ m = "retire"
    /\ new.active <=> me.active \/ m \in Resumes
    /\ new.draining <=> m \notin Resumes /\ (me.draining \/ m = "drain")
    /\ new.frozen <=> m \notin Resumes /\ (me.frozen \/ m = "capture")
    /\ new.capture <=> m \notin Resumes /\ (me.capture \/ m = "capture")
    /\ new.waiting <=> me.waiting /\ m # "ack"
    /\ new.busy <=> IF m = "ack" THEN ~Paused(me) ELSE me.busy
    /\ new.held <=> me.held /\ m # "continue"

LEMMA AppliedFields ==
  ASSUME NEW me \in CoreRecord, NEW m \in Control
  PROVE  AppliedTo(me, m, Applied(me, m))
<1> DEFINE new == Applied(me, m)
<1>1. CASE m \in Request
  <2>1. new = [me EXCEPT !.typed = Append(@, m)]
    BY <1>1 DEF Applied, Request
  <2>2. /\ new.life = me.life /\ new.kind = me.kind /\ new.release = me.release
        /\ new.hasState = me.hasState /\ new.error = me.error /\ new.ready = me.ready
        /\ new.idle = me.idle /\ new.idleSent = me.idleSent /\ new.retire = me.retire
        /\ new.active = me.active /\ new.draining = me.draining /\ new.frozen = me.frozen
        /\ new.capture = me.capture /\ new.waiting = me.waiting /\ new.busy = me.busy
        /\ new.held = me.held
    BY <2>1 DEF CoreRecord
  <2>3. m \notin Resumes \cup {"drain", "capture", "retire", "ack", "continue"}
    BY <1>1 DEF Request, Resumes
  <2> HIDE DEF new
  <2> QED BY <1>1, <2>2, <2>3 DEF AppliedTo, new
<1>2. CASE m = "drain"
  <2>1. new = [me EXCEPT !.draining = TRUE]
    BY <1>2 DEF Applied, Request
  <2>2. /\ new.life = me.life /\ new.kind = me.kind /\ new.release = me.release
        /\ new.hasState = me.hasState /\ new.error = me.error /\ new.ready = me.ready
        /\ new.idle = me.idle /\ new.idleSent = me.idleSent /\ new.retire = me.retire
        /\ new.active = me.active /\ new.draining /\ new.frozen = me.frozen
        /\ new.capture = me.capture /\ new.waiting = me.waiting /\ new.busy = me.busy
        /\ new.held = me.held /\ new.typed = me.typed
    BY <2>1 DEF CoreRecord
  <2> HIDE DEF new
  <2> QED BY <1>2, <2>2 DEF AppliedTo, Resumes, new
<1>3. CASE m = "capture"
  <2>1. new = [me EXCEPT !.capture = TRUE, !.frozen = TRUE]
    BY <1>3 DEF Applied, Request
  <2>2. /\ new.life = me.life /\ new.kind = me.kind /\ new.release = me.release
        /\ new.hasState = me.hasState /\ new.error = me.error /\ new.ready = me.ready
        /\ new.idle = me.idle /\ new.idleSent = me.idleSent /\ new.retire = me.retire
        /\ new.active = me.active /\ new.draining = me.draining /\ new.frozen
        /\ new.capture /\ new.waiting = me.waiting /\ new.busy = me.busy
        /\ new.held = me.held /\ new.typed = me.typed
    BY <2>1 DEF CoreRecord
  <2> HIDE DEF new
  <2> QED BY <1>3, <2>2 DEF AppliedTo, Resumes, new
<1>4. CASE m = "retire"
  <2>1. new = [me EXCEPT !.retire = TRUE]
    BY <1>4 DEF Applied, Request
  <2>2. /\ new.life = me.life /\ new.kind = me.kind /\ new.release = me.release
        /\ new.hasState = me.hasState /\ new.error = me.error /\ new.ready = me.ready
        /\ new.idle = me.idle /\ new.idleSent = me.idleSent /\ new.retire
        /\ new.active = me.active /\ new.draining = me.draining /\ new.frozen = me.frozen
        /\ new.capture = me.capture /\ new.waiting = me.waiting /\ new.busy = me.busy
        /\ new.held = me.held /\ new.typed = me.typed
    BY <2>1 DEF CoreRecord
  <2> HIDE DEF new
  <2> QED BY <1>4, <2>2 DEF AppliedTo, Resumes, new
<1>5. CASE m = "ack"
  <2>1. new = [me EXCEPT !.waiting = FALSE, !.busy = ~Paused(me)]
    BY <1>5 DEF Applied, Request
  <2>2. /\ new.life = me.life /\ new.kind = me.kind /\ new.release = me.release
        /\ new.hasState = me.hasState /\ new.error = me.error /\ new.ready = me.ready
        /\ new.idle = me.idle /\ new.idleSent = me.idleSent /\ new.retire = me.retire
        /\ new.active = me.active /\ new.draining = me.draining /\ new.frozen = me.frozen
        /\ new.capture = me.capture /\ ~new.waiting /\ new.busy = ~Paused(me)
        /\ new.held = me.held /\ new.typed = me.typed
    BY <2>1 DEF CoreRecord
  <2> HIDE DEF new
  <2> QED BY <1>5, <2>2 DEF AppliedTo, Resumes, new
<1>6. CASE m \in Resumes
  <2>1. new = [me EXCEPT !.active = TRUE, !.draining = FALSE, !.frozen = FALSE,
                         !.capture = FALSE, !.held = @ /\ m = "activate"]
    BY <1>6 DEF Applied, Request, Resumes
  <2>2. /\ new.life = me.life /\ new.kind = me.kind /\ new.release = me.release
        /\ new.hasState = me.hasState /\ new.error = me.error /\ new.ready = me.ready
        /\ new.idle = me.idle /\ new.idleSent = me.idleSent /\ new.retire = me.retire
        /\ new.active /\ ~new.draining /\ ~new.frozen /\ ~new.capture
        /\ new.waiting = me.waiting /\ new.busy = me.busy /\ new.typed = me.typed
    BY <2>1 DEF CoreRecord
  <2>3. new.held = (me.held /\ m = "activate")
    BY <2>1, Zenon DEF CoreRecord
  <2>4. new.held <=> me.held /\ m = "activate"
    BY <2>3
  <2> HIDE DEF new
  <2> QED BY <1>6, <2>2, <2>4 DEF AppliedTo, Resumes, new
<1> QED BY <1>1, <1>2, <1>3, <1>4, <1>5, <1>6 DEF Control, Resumes

LEMMA PollStep ==
  ASSUME TypeInv, Inv, NEW c \in Core, Poll(c)
  PROVE  Inv'
<1> DEFINE me == core[c]
           new == core'[c]
           s == inbox[c]
           m == Head(inbox[c])
           t == Tail(inbox[c])
           pc == task["transition"].pc
<1>1. /\ CoreFrame /\ UNCHANGED events /\ me.life = "up" /\ s # <<>>
      /\ new = Applied(me, m) /\ inbox'[c] = t
      /\ \A d \in Core \ {c} : Same(d)
  BY Typed DEF Poll, CoreFrame, Same, Cores, Inboxes
<1>2. m \in Control /\ t \in Seq(Control) /\ s \in Seq(Control) /\ me \in CoreRecord
      /\ Len(t) = Len(s) - 1 /\ \A i \in 1..Len(t) : t[i] = s[i + 1]
  BY <1>1, Typed, Read
<1>m. Msgs(s) = {m} \cup Msgs(t)
  BY <1>1, <1>2, Read
<1>a. AppliedTo(me, m, new)
  BY <1>1, <1>2, AppliedFields
<1>3. /\ new.life = me.life /\ new.kind = me.kind /\ new.release = me.release
      /\ new.hasState = me.hasState /\ new.error = me.error /\ new.ready = me.ready
      /\ new.idle = me.idle /\ new.idleSent = me.idleSent /\ (new.retire <=> me.retire \/ m = "retire")
      /\ m \notin Request => new.typed = me.typed
      /\ (new.active <=> me.active \/ m \in Resumes)
      /\ (new.draining <=> m \notin Resumes /\ (me.draining \/ m = "drain"))
      /\ (new.frozen <=> m \notin Resumes /\ (me.frozen \/ m = "capture"))
      /\ (new.capture <=> m \notin Resumes /\ (me.capture \/ m = "capture"))
      /\ (new.waiting <=> me.waiting /\ m # "ack")
      /\ (new.busy <=> IF m = "ack" THEN ~Paused(me) ELSE me.busy)
      /\ (new.held <=> me.held /\ m # "continue")
  BY <1>a DEF AppliedTo
<1>4. c = current /\ InForce(c)
  BY <1>1, CurrentOnly DEF InForce
<1>5. Unborn(c) /\ Stranger(c) /\ Probe(c) /\ Starting(c) /\ Draining(c) /\ Drains(c) /\ Holding(c)
      /\ Reaches(c)
  BY DEF Inv, Sound
<1>6. events'[c] = events[c] /\ current' = current /\ task' = task /\ routing' = routing
  BY <1>1 DEF CoreFrame
<1> HIDE DEF me, new, s, m, t, pc
<1>7. Unborn(c)' /\ Stranger(c)' /\ Probe(c)' /\ Starting(c)' /\ InForce(c)'
  BY <1>1, <1>3, <1>4, <1>5, <1>6 DEF me, new, Unborn, Stranger, Probe, Starting, InForce
<1>8. Keeps(c)
  <2>1. Inert(c) => Inert(c)'
    <3> SUFFICES ASSUME Inert(c) PROVE Inert(c)'
      OBVIOUS
    <3>1. m \in Request /\ Passive(me) /\ Msgs(t) \subseteq Request
      BY <1>m DEF Inert, s, me
    <3>2. Passive(new)
      BY <1>3, <3>1 DEF Passive, Request, Resumes
    <3> QED BY <1>1, <1>6, <3>1, <3>2 DEF Inert, new, t
  <2>2. Inert(c) => (new.held <=> me.held)
    BY <1>m, <1>3 DEF Inert, s, Request
  <2> QED BY <1>3, <1>6, <2>1, <2>2 DEF Keeps, me, new
<1>9. Owes(c)' => Owes(c)
  BY <1>1, <1>m, <1>3 DEF Owes, me, new, s, t
<1>10. Told(c)' <=> Told(c)
  BY <1>6 DEF Told
<1>11. Drained(c) => Drained(c)'
  <2> SUFFICES ASSUME Drained(c) PROVE Drained(c)'
    OBVIOUS
  <2>1. m \notin Orders /\ Msgs(t) \cap Orders = {} /\ me.draining /\ me.idleSent /\ ~me.busy /\ ~me.waiting
    BY <1>m DEF Drained, s, me
  <2>2. new.draining /\ new.idleSent /\ ~new.busy /\ ~new.waiting
    BY <1>3, <2>1 DEF Orders, Paused
  <2> QED BY <1>1, <2>1, <2>2 DEF Drained, new, t
<1>12. Draining(c)'
  <2>1. Apart(t, {"drain"}, Orders) /\ (m = "drain" => Msgs(t) \cap Orders = {})
    BY <1>1, <1>m, <1>4, <1>5, <1>2, ApartRead DEF Draining, s, t, m
  <2>2. new.draining /\ ~new.idleSent => Msgs(t) \cap Orders = {}
    BY <1>m, <1>3, <1>4, <1>5, <2>1 DEF Draining, s, me
  <2> QED BY <1>1, <1>4, <1>5, <1>6, <1>10, <1>11, <2>1, <2>2 DEF Draining, new, t
<1>13. Unasked(c) /\ (Owes(c)' \/ Told(c)') => Unasked(c)'
  <2> SUFFICES ASSUME Unasked(c), Owes(c)' \/ Told(c)' PROVE Unasked(c)'
    OBVIOUS
  <2>1. m # "continue" /\ "continue" \notin Msgs(t)
    BY <1>m DEF Unasked, s
  <2>2. new.held
    BY <1>3, <2>1 DEF Unasked, me
  <2>3. new.draining => Msgs(t) \cap Orders = {}
    <3>1. CASE me.draining
      BY <1>m, <3>1 DEF Unasked, s, me
    <3>2. CASE m = "drain"
      BY <1>1, <1>m, <1>4, <1>5, <3>2, <1>2, ApartRead DEF Draining, s, t, m
    <3> QED BY <1>3, <3>1, <3>2
  <2> QED BY <1>1, <1>6, <1>9, <2>1, <2>2, <2>3 DEF Unasked, new, t
<1>14. Drains(c)'
  BY <1>3, <1>4, <1>5, <1>6, <1>9, <1>10, <1>11, <1>13 DEF Drains, me, new
<1>15. Holding(c)'
  <2>1. ASSUME new.held PROVE ~new.busy /\ Recovered(c)'
    <3>1. me.held /\ m # "continue" /\ ~me.busy /\ Recovered(c)
      BY <1>3, <1>4, <1>5, <2>1 DEF Holding, me
    <3>2. CASE /\ Passive(me) /\ me.typed = <<>>
               /\ Len(s) > 1 /\ m = "activate" /\ s[2] = "drain"
      <4>1. Len(t) \in Nat /\ Len(t) > 0 /\ t[1] = "drain"
        BY <1>2, <3>2
      <4>2. t # <<>> /\ Head(t) = "drain"
        BY <1>2, <4>1
      <4>3. new.active /\ ~new.draining /\ ~new.idleSent /\ new.typed = <<>> /\ ~new.busy
        BY <1>3, <3>2 DEF Passive, Resumes, Request
      <4> QED BY <1>1, <4>2, <4>3 DEF Recovered, new, t
    <3>3. CASE /\ me.active /\ ~me.draining /\ ~me.idleSent
               /\ me.typed = <<>> /\ m = "drain"
      BY <1>3, <3>1, <3>3 DEF Recovered, new, Resumes
    <3>4. CASE me.draining
      <4>1. m # "activate"
        BY <1>m, <1>4, <1>5, <3>4 DEF Holding, Passive, s, me, m
      <4>2. new.draining /\ ~new.busy
        BY <1>3, <3>1, <3>4, <4>1 DEF Paused, Resumes
      <4> QED BY <4>2 DEF Recovered, new
    <3> QED BY <3>1, <3>2, <3>3, <3>4 DEF Recovered, me, s, m
  <2>2. "activate" \notin Msgs(t)
    BY <1>m, <1>4, <1>5 DEF Holding, s, m, t
  <2> QED BY <1>1, <2>1, <2>2 DEF Holding, new, t
<1>16. Reaches(c)'
  <2> SUFFICES ASSUME Thaws(c) PROVE Thaws(c)'
    BY <1>4, <1>5, <1>6, <1>7 DEF Reaches
  <2>1. CASE Msgs(s) \cap {"capture", "continue"} = {} /\ ~me.frozen
    <3>1. Msgs(t) \cap {"capture", "continue"} = {} /\ ~new.frozen
      BY <1>m, <1>3, <2>1
    <3> QED BY <1>1, <3>1 DEF Thaws, new, t
  <2>2. CASE Resumed(s)
    <3>1. Resumed(t) \/ (m = "continue" /\ Msgs(t) \cap {"capture", "continue"} = {})
      BY <1>1, <1>2, <2>2, ResumedRead DEF s, t, m
    <3>2. m = "continue" => ~new.frozen
      BY <1>3 DEF Resumes
    <3> QED BY <1>1, <3>1, <3>2 DEF Thaws, new, t
  <2> QED BY <2>1, <2>2 DEF Thaws, s, me
<1> QED BY <1>1, <1>7, <1>8, <1>12, <1>14, <1>15, <1>16, OneCore DEF Sound

\* A message is written, or none.
LEMMA Extended ==
  ASSUME NEW s \in Seq(Message), NEW m \in Message, NEW last, last = <<>> \/ last = <<m>>
  PROVE  /\ s \o last \in Seq(Message) /\ Msgs(s \o last) = Msgs(s) \cup Msgs(last)
         /\ \A A, B : Apart(s, A, B) /\ (Msgs(last) \cap B # {} => Msgs(s) \cap A = {})
                        => Apart(s \o last, A, B)
<1>1. CASE last = <<>>
  <2>1. s \o last = s /\ Msgs(last) = {}
    BY <1>1 DEF Msgs
  <2> QED BY <2>1
<1>2. CASE last = <<m>>
  <2>1. Msgs(last) = {m}
    BY <1>2 DEF Msgs
  <2>2. /\ s \o last = Append(s, m) /\ Append(s, m) \in Seq(Message)
        /\ Msgs(Append(s, m)) = Msgs(s) \cup {m}
    BY <1>2, Written
  <2>3. ASSUME NEW A, NEW B, Apart(s, A, B), Msgs(last) \cap B # {} => Msgs(s) \cap A = {}
        PROVE  Apart(s \o last, A, B)
    BY <2>1, <2>2, <2>3, ApartWritten
  <2> QED BY <2>1, <2>2, <2>3
<1> QED BY <1>1, <1>2

LEMMA HandoffStep ==
  ASSUME TypeInv, Inv, NEW c \in Core, ProcessHandoff(c)
  PROVE  Inv'
<1> USE Typed
<1> DEFINE me == core[c]
           new == core'[c]
           pc == task["transition"].pc
           idleNow == me.draining /\ ~me.idleSent /\ ~me.busy
           saveNow == me.capture /\ ~(me.draining /\ me.saved)
           idle == IF idleNow THEN <<"idle">> ELSE <<>>
<1>1. CoreFrame /\ me.life = "up" /\ ~me.waiting
  BY DEF ProcessHandoff, CoreFrame
<1>2. CASE /\ core' = [core EXCEPT ![c] = Ended(@)]
           /\ inbox' = [inbox EXCEPT ![c] = <<>>]
           /\ UNCHANGED events
  <2>1. core'[c].life = "gone" /\ core'[c].hasState = me.hasState /\ core'[c].kind = me.kind
    BY <1>2, EndedFields DEF Cores
  <2>2. Probe(c)'
    BY <1>1, <1>2, <2>1 DEF Inv, Sound, Probe, CoreFrame
  <2> QED BY <1>1, <1>2, <2>2, CoreEnds DEF Alive
<1>3. CASE /\ core' = [core EXCEPT ![c] =
                [me EXCEPT !.idleSent = me.draining /\ (me.idleSent \/ idleNow),
                           !.saved = (me.draining /\ me.saved) \/ saveNow]]
           /\ \E saved \in IF saveNow THEN {<<"handoff">>, <<"capture_failed">>} ELSE {<<>>} :
                events' = [events EXCEPT ![c] = @ \o idle \o saved]
           /\ UNCHANGED inbox
  <2>1. PICK saved \in IF saveNow THEN {<<"handoff">>, <<"capture_failed">>} ELSE {<<>>} :
             events'[c] = (events[c] \o idle) \o saved
    BY <1>3 DEF Outboxes
  <2>2. \A d \in Core \ {c} : Same(d)
    BY <1>3 DEF Same, Cores, Outboxes
  <2>3. /\ new.life = me.life /\ new.kind = me.kind /\ new.release = me.release
        /\ new.hasState = me.hasState /\ new.error = me.error /\ new.ready = me.ready
        /\ new.idle = me.idle /\ new.retire = me.retire /\ new.typed = me.typed
        /\ new.active = me.active /\ new.draining = me.draining /\ new.frozen = me.frozen
        /\ new.capture = me.capture /\ new.waiting = me.waiting /\ new.busy = me.busy
        /\ new.held = me.held
        /\ (new.idleSent <=> me.draining /\ (me.idleSent \/ idleNow))
    BY <1>3 DEF Cores, CoreRecord
  <2> DEFINE mid == events[c] \o idle
             out == events'[c]
  <2>4. /\ mid \in Seq(Message)
        /\ Msgs(mid) = Msgs(events[c]) \cup (IF idleNow THEN {"idle"} ELSE {})
        /\ \A A, B : Apart(events[c], A, B) /\ (idleNow /\ "idle" \in B => Msgs(events[c]) \cap A = {})
                       => Apart(mid, A, B)
    <3>1. "idle" \in Message /\ (idle = <<>> \/ idle = <<"idle">>) /\ events[c] \in Seq(Message)
      BY DEF Message
    <3>2. Msgs(idle) = IF idleNow THEN {"idle"} ELSE {}
      BY DEF Msgs
    <3> HIDE DEF idle, idleNow
    <3>3. /\ mid \in Seq(Message) /\ Msgs(mid) = Msgs(events[c]) \cup Msgs(idle)
          /\ \A A, B : Apart(events[c], A, B) /\ (Msgs(idle) \cap B # {} => Msgs(events[c]) \cap A = {})
                         => Apart(mid, A, B)
      BY <3>1, Extended
    <3> HIDE DEF mid
    <3> QED BY <3>2, <3>3
  <2>5. /\ Msgs(out) \subseteq Msgs(mid) \cup (IF saveNow THEN {"handoff", "capture_failed"} ELSE {})
        /\ Msgs(mid) \subseteq Msgs(out)
        /\ \A A, B : Apart(mid, A, B) /\ B \cap {"handoff", "capture_failed"} = {} => Apart(out, A, B)
    <3>1. PICK m \in {"handoff", "capture_failed"} : saved \in {<<>>, <<m>>} /\ (saved # <<>> => saveNow)
      BY <2>1
    <3>2. Msgs(saved) \subseteq (IF saveNow THEN {m} ELSE {})
      BY <3>1 DEF Msgs
    <3>3. m \in Message /\ out = mid \o saved
      BY <2>1 DEF Message
    <3> HIDE DEF mid, out, saveNow
    <3>4. (saved = <<>> \/ saved = <<m>>) /\ mid \in Seq(Message) /\ m \in Message
      BY <2>4, <3>1, <3>3
    <3>5. /\ Msgs(mid \o saved) = Msgs(mid) \cup Msgs(saved)
          /\ \A A, B : Apart(mid, A, B) /\ (Msgs(saved) \cap B # {} => Msgs(mid) \cap A = {})
                         => Apart(mid \o saved, A, B)
      BY <3>4, Extended
    <3> QED BY <3>1, <3>2, <3>3, <3>5
  <2> HIDE DEF mid, out
  <2>6. Unborn(c)'
    BY <1>1, <2>3 DEF Unborn
  <2>7. c # current => Blank(c)' /\ Msgs(out) = Msgs(events[c])
    <3> SUFFICES ASSUME c # current PROVE Blank(c)' /\ Msgs(out) = Msgs(events[c])
      OBVIOUS
    <3>1. Blank(c)
      BY <1>1, CurrentOnly
    <3>2. Msgs(out) = Msgs(events[c])
      BY <2>4, <2>5, <3>1 DEF Blank, Inert, Passive
    <3> QED BY <1>3, <2>3, <3>1, <3>2 DEF Blank, Inert, Passive, out
  <2>8. Stranger(c)' /\ Probe(c)' /\ Starting(c)'
    <3>1. Stranger(c)'
      BY <1>1, <2>7 DEF Stranger, CoreFrame
    <3>2. Probe(c)'
      BY <1>1, <2>3, <2>7 DEF Inv, Sound, Probe, CoreFrame, out
    <3>3. "startup" \in Msgs(out) => "startup" \in Msgs(events[c])
      BY <2>4, <2>5
    <3>4. Starting(c)'
      BY <1>1, <2>3, <3>3 DEF Inv, Sound, Starting, CoreFrame, out
    <3> QED BY <3>1, <3>2, <3>4
  <2>9. ASSUME c = current PROVE Draining(c)' /\ Drains(c)' /\ Holding(c)' /\ Reaches(c)'
    <3>1. InForce(c) /\ Draining(c) /\ Drains(c) /\ Holding(c) /\ Reaches(c)
      BY <1>1, <2>9 DEF Inv, Sound, InForce
    <3>2. idleNow => Owes(c) /\ ~Told(c) /\ Drained(c)'
      BY <1>1, <1>3, <2>3, <3>1 DEF Owes, Draining, Drained
    <3>3. /\ Told(c)' => Told(c) \/ idleNow
          /\ Owes(c)' => Owes(c)
          /\ Drained(c) => Drained(c)' /\ ~idleNow
      BY <1>3, <2>3, <2>4, <2>5 DEF Told, Owes, Drained, out
    <3>4. Apart(out, {"idle"}, {"idle"})
      BY <2>4, <2>5, <3>1, <3>2 DEF Draining, Told
    <3>5. Draining(c)'
      BY <1>3, <2>3, <3>1, <3>2, <3>3, <3>4 DEF Draining, out
    <3>6. Unasked(c) => Unasked(c)'
      <4> SUFFICES ASSUME Unasked(c) PROVE Unasked(c)'
        OBVIOUS
      <4>1. Msgs(out) \cap Request = Msgs(events[c]) \cap Request
        BY <2>4, <2>5 DEF Request
      <4>2. Apart(mid, Request, {"idle"})
        <5>1. idleNow => Msgs(events[c]) \cap Request = {}
          BY <3>2 DEF Unasked
        <5>2. Apart(events[c], Request, {"idle"})
          BY DEF Unasked
        <5> HIDE DEF idleNow
        <5> QED BY <2>4, <5>1, <5>2
      <4>3. Apart(out, Request, {"idle"})
        BY <2>5, <4>2
      <4> QED BY <1>1, <1>3, <2>3, <3>3, <4>1, <4>3 DEF Unasked, CoreFrame, out
    <3>7. Drains(c)'
      BY <1>1, <2>3, <3>1, <3>2, <3>3, <3>6 DEF Drains, CoreFrame
    <3>8. Holding(c)'
      BY <1>3, <2>3, <3>1 DEF Holding, Recovered, Passive, InForce
    <3>9. Reaches(c)'
      BY <1>1, <1>3, <2>3, <3>1 DEF Reaches, Thaws, InForce, CoreFrame
    <3> QED BY <3>5, <3>7, <3>8, <3>9
  <2>10. c # current => Draining(c)' /\ Drains(c)' /\ Holding(c)' /\ Reaches(c)'
    BY <1>1 DEF Draining, Drains, Holding, Reaches, InForce, CoreFrame
  <2>11. Keeps(c)
    <3>1. Inert(c) => Inert(c)' /\ Msgs(out) = Msgs(events[c])
      BY <1>3, <2>3, <2>4, <2>5 DEF Inert, Passive, out
    <3> QED BY <1>1, <2>3, <3>1 DEF Keeps, Alive, out
  <2> QED BY <1>1, <2>2, <2>6, <2>8, <2>9, <2>10, <2>11, OneCore DEF Sound
<1> QED BY <1>2, <1>3 DEF ProcessHandoff

\* A core that is the current one and not inert says one message more, and of its
\* flags only what it does of its own accord changes.
LEMMA Speaks ==
  ASSUME TypeInv, Inv, NEW c \in Core, CoreFrame, c = current, core[c].life = "up", ~Inert(c),
         NEW m \in Message, m \notin {"idle", "startup"},
         events'[c] = Append(events[c], m) \/ events'[c] = events[c],
         inbox'[c] = inbox[c], \A d \in Core \ {c} : Same(d),
         LET me == core[c]
             new == core'[c] IN
         /\ new.life = me.life /\ new.kind = me.kind /\ new.release = me.release
         /\ new.hasState = me.hasState /\ new.error = me.error /\ new.ready = me.ready
         /\ new.idle = me.idle /\ new.idleSent = me.idleSent /\ new.draining = me.draining
         /\ new.active = me.active /\ new.frozen = me.frozen /\ new.held = me.held
         /\ Drained(c) => ~new.busy /\ ~new.waiting
         /\ Passive(me) => Passive(new)
         /\ me.held => ~new.busy
         /\ me.typed = <<>> => new.typed = <<>>,
         Unasked(c) /\ m \in Request => ~Owes(c) \/ events'[c] = events[c]
  PROVE  Inv'
<1> DEFINE me == core[c]
           new == core'[c]
           out == events'[c]
<1>1. /\ new.life = me.life /\ new.kind = me.kind /\ new.release = me.release
      /\ new.hasState = me.hasState /\ new.error = me.error /\ new.ready = me.ready
      /\ new.idle = me.idle /\ new.idleSent = me.idleSent /\ new.draining = me.draining
      /\ new.active = me.active /\ new.frozen = me.frozen /\ new.held = me.held
      /\ Drained(c) => ~new.busy /\ ~new.waiting
      /\ Passive(me) => Passive(new)
      /\ me.held => ~new.busy
      /\ me.typed = <<>> => new.typed = <<>>
  OBVIOUS
<1>2. /\ Msgs(events[c]) \subseteq Msgs(out) /\ Msgs(out) \subseteq Msgs(events[c]) \cup {m}
      /\ out = events[c] \/ Msgs(out) = Msgs(events[c]) \cup {m}
  <2>1. Msgs(Append(events[c], m)) = Msgs(events[c]) \cup {m}
    BY Typed, Written
  <2> QED BY <2>1
<1>3. \A A : Apart(events[c], A, {"idle"}) => Apart(out, A, {"idle"})
  <2> SUFFICES ASSUME NEW A, Apart(events[c], A, {"idle"}) PROVE Apart(out, A, {"idle"})
    OBVIOUS
  <2>1. Apart(Append(events[c], m), A, {"idle"})
    BY Typed, ApartWritten
  <2> QED BY <2>1
<1>4. InForce(c) /\ InForce(c)'
  BY <1>1 DEF InForce, CoreFrame
<1>5. Unborn(c) /\ Stranger(c) /\ Probe(c) /\ Starting(c) /\ Draining(c) /\ Drains(c) /\ Holding(c)
      /\ Reaches(c)
  BY DEF Inv, Sound
<1>6. current' = current /\ task' = task /\ routing' = routing
  BY DEF CoreFrame
<1>7. (Told(c)' <=> Told(c)) /\ (Owes(c)' <=> Owes(c)) /\ (Drained(c) => Drained(c)')
  BY <1>1, <1>2 DEF Told, Owes, Drained
<1> HIDE DEF me, new, out
<1>8. Unborn(c)' /\ Stranger(c)' /\ Probe(c)' /\ Starting(c)'
  BY <1>1, <1>2, <1>5, <1>6 DEF me, new, out, Unborn, Stranger, Probe, Starting
<1>9. Draining(c)'
  BY <1>1, <1>3, <1>4, <1>5, <1>7 DEF Draining, me, new, out
<1>10. Unasked(c) => Unasked(c)'
  <2>1. Unasked(c) => (Owes(c) => Msgs(out) \cap Request = {})
    BY <1>2 DEF Unasked, out
  <2> QED BY <1>1, <1>3, <1>6, <1>7, <2>1 DEF Unasked, me, new, out
<1>11. Drains(c)'
  BY <1>1, <1>4, <1>5, <1>6, <1>7, <1>10 DEF Drains, me, new
<1>12. Recovered(c) => Recovered(c)'
  BY <1>1 DEF Recovered, me, new
<1>13. Holding(c)'
  BY <1>1, <1>4, <1>5, <1>12 DEF Holding, me, new
<1>14. Reaches(c)'
  BY <1>1, <1>4, <1>5, <1>6 DEF Reaches, Thaws, me, new
<1>15. Keeps(c)
  BY <1>1, <1>2 DEF Keeps, me, new, out, Alive
<1> QED BY <1>8, <1>9, <1>11, <1>13, <1>14, <1>15, OneCore DEF Sound

LEMMA WorkSteps ==
  ASSUME TypeInv, Inv, NEW c \in Core,
         Dispatch(c) \/ FinishWork(c) \/ ReadInput(c) \/ AgentRequest(c)
  PROVE  Inv'
<1> USE Typed
<1>0. CoreFrame
  BY DEF Dispatch, FinishWork, ReadInput, AgentRequest, CoreFrame
<1>a. core[c].life = "up" => c = current \/ (~core[c].active /\ ~core[c].busy)
  BY CurrentOnly
<1>b. core[c].busy => core[c].life = "up"
  <2>1. core[c].life \in Life /\ Unborn(c)
    BY DEF CoreRecord, Inv, Sound
  <2> QED BY <2>1 DEF Life, Unborn, Absent, Inert, Passive
<1>c. core[c].life = "up" /\ c = current => Holding(c) /\ InForce(c)
  BY DEF Inv, Sound, InForce
<1>1. CASE Dispatch(c)
  <2>1. /\ core[c].life = "up" /\ core[c].active /\ ~core[c].draining
        /\ core' = [core EXCEPT ![c] = [core[c] EXCEPT !.waiting = TRUE]]
        /\ events' = [events EXCEPT ![c] = Append(@, "dispatch")] /\ UNCHANGED inbox
    BY <1>1 DEF Dispatch, Paused
  <2>2. /\ core'[c] = [core[c] EXCEPT !.waiting = TRUE] /\ events'[c] = Append(events[c], "dispatch")
        /\ \A d \in Core \ {c} : Same(d)
    BY <2>1 DEF Same, Cores, Outboxes
  <2>3. /\ "dispatch" \in Message /\ "dispatch" \notin {"idle", "startup"} \cup Request
        /\ ~Inert(c) /\ ~Passive(core[c]) /\ ~Drained(c) /\ c = current
    BY <1>a, <2>1 DEF Message, Request, Inert, Passive, Drained
  <2>4. core[c].held => ~core[c].busy
    BY <1>c, <2>1, <2>3 DEF Holding
  <2> QED BY <1>0, <2>1, <2>2, <2>3, <2>4, Speaks DEF CoreRecord
<1>2. CASE FinishWork(c)
  <2>1. /\ core[c].life = "up" /\ core[c].busy
        /\ core' = [core EXCEPT ![c] = [core[c] EXCEPT !.busy = FALSE]]
        /\ UNCHANGED <<inbox, events>>
    BY <1>2 DEF FinishWork
  <2>2. /\ core'[c] = [core[c] EXCEPT !.busy = FALSE]
        /\ \A d \in Core \ {c} : Same(d)
    BY <2>1 DEF Same, Cores
  <2>3. /\ "dispatch" \in Message /\ "dispatch" \notin {"idle", "startup"} \cup Request
        /\ ~Inert(c) /\ ~Passive(core[c]) /\ ~Drained(c) /\ c = current
    BY <1>a, <2>1 DEF Message, Request, Inert, Passive, Drained
  <2> QED BY <1>0, <2>1, <2>2, <2>3, Speaks DEF CoreRecord
<1>3. CASE ReadInput(c)
  <2>1. /\ core[c].life = "up" /\ core[c].active /\ core[c].typed # <<>>
        /\ core[c].draining => core[c].idleSent \/ core[c].busy
        /\ core' = [core EXCEPT ![c] = [core[c] EXCEPT !.typed = Tail(@)]]
        /\ events' = [events EXCEPT ![c] = Append(@, Head(core[c].typed))] /\ UNCHANGED inbox
    BY <1>3 DEF ReadInput, ReadsInput
  <2>2. /\ core'[c] = [core[c] EXCEPT !.typed = Tail(@)]
        /\ events'[c] = Append(events[c], Head(core[c].typed))
        /\ \A d \in Core \ {c} : Same(d)
    BY <2>1 DEF Same, Cores, Outboxes
  <2>3. Head(core[c].typed) \in Request
    <3>1. core[c].typed \in Seq(Request)
      BY DEF CoreRecord
    <3> QED BY <2>1, <3>1
  <2>4. /\ Head(core[c].typed) \in Message /\ Head(core[c].typed) \notin {"idle", "startup"}
    BY <2>3 DEF Message, Request
  <2>5. ~Inert(c) /\ ~Passive(core[c]) /\ c = current
    BY <1>a, <2>1 DEF Inert, Passive
  <2>6. core[c].held => ~core[c].busy
    BY <1>c, <2>1, <2>5 DEF Holding
  <2>7. Unasked(c) => ~Owes(c)
    BY <1>c, <2>1, <2>5 DEF Unasked, Owes, Holding, Recovered, Passive, Orders
  <2>8. Drained(c) => ~core[c].busy /\ ~core[c].waiting
    BY DEF Drained
  <2> QED BY <1>0, <2>1, <2>2, <2>4, <2>5, <2>6, <2>7, <2>8, Speaks DEF CoreRecord
<1>4. CASE AgentRequest(c)
  <2>1. PICK m \in {"recover", "update"} :
          /\ events' = [events EXCEPT ![c] = Append(@, m)] /\ UNCHANGED <<core, inbox>>
          /\ \/ core[c].busy
             \/ core[c].life = "up" /\ core[c].active /\ ~core[c].held
    BY <1>4 DEF AgentRequest, Paused
  <2>2. events'[c] = Append(events[c], m) /\ \A d \in Core \ {c} : Same(d)
    BY <2>1 DEF Same, Outboxes
  <2>3. /\ core[c].life = "up" /\ c = current /\ ~Inert(c) /\ ~Passive(core[c])
    BY <1>a, <1>b, <2>1 DEF Inert, Passive
  <2>4. core[c].held => ~core[c].busy
    BY <1>c, <2>3 DEF Holding
  <2>5. ~Unasked(c)
    BY <2>1, <2>4 DEF Unasked
  <2>6. m \in Message /\ m \notin {"idle", "startup"}
    BY DEF Message, Request
  <2>7. Drained(c) => ~core[c].busy /\ ~core[c].waiting
    BY DEF Drained
  <2> QED BY <1>0, <2>1, <2>2, <2>3, <2>4, <2>5, <2>6, <2>7, Speaks
<1> QED BY <1>1, <1>2, <1>3, <1>4

LEMMA EndSteps ==
  ASSUME TypeInv, Inv, NEW c \in Core,
         DispatchTimeout(c) \/ Quit(c) \/ Crash(c) \/ ReaderEnds(c) \/ Reap(c)
  PROVE  Inv'
<1> USE Typed
<1>0. CoreFrame
  BY DEF DispatchTimeout, Quit, Crash, ReaderEnds, Reap, CoreFrame
<1>a. core[c].waiting => core[c].life = "up"
  <2>1. core[c].life \in Life /\ Unborn(c)
    BY DEF CoreRecord, Inv, Sound
  <2> QED BY <2>1 DEF Life, Unborn, Absent, Inert, Passive
<1>b. core[c].life = "up" /\ (core[c].active \/ core[c].waiting) => c = current /\ ~Inert(c)
  BY CurrentOnly DEF Inert, Passive
<1>c. c = current /\ core' = [core EXCEPT ![c] = Ended(@)] => Probe(c)'
  <2>1. core' = [core EXCEPT ![c] = Ended(@)] => core'[c].kind = core[c].kind
    BY EndedFields DEF Cores
  <2> QED BY <2>1 DEF Inv, Sound, Probe
<1>1. CASE DispatchTimeout(c) \/ Quit(c)
  <2>1. /\ core[c].life = "up" /\ (core[c].active \/ core[c].waiting)
        /\ core' = [core EXCEPT ![c] = Ended(@)] /\ inbox' = [inbox EXCEPT ![c] = <<>>]
    BY <1>1, <1>a DEF DispatchTimeout, Quit, ReadsInput
  <2>2. \A d \in Core \ {c} : events'[d] = events[d]
    BY <1>1 DEF DispatchTimeout, Quit, Outboxes
  <2> QED BY <1>0, <1>b, <1>c, <2>1, <2>2, CoreEnds DEF Alive
<1>2. CASE Crash(c)
  <2>1. /\ core[c].life = "up" /\ core' = [core EXCEPT ![c] = Ended(@)]
        /\ inbox' = [inbox EXCEPT ![c] = <<>>] /\ UNCHANGED events
    BY <1>2 DEF Crash
  <2>2. core'[c].life = "gone" /\ core'[c].hasState = core[c].hasState /\ core'[c].kind = core[c].kind
    BY <2>1, EndedFields DEF Cores
  <2>3. Probe(c)'
    BY <1>0, <2>1, <2>2 DEF Inv, Sound, Probe, CoreFrame
  <2> QED BY <1>0, <2>1, <2>3, CoreEnds DEF Alive
<1>3. CASE ReaderEnds(c) \/ Reap(c)
  <2>1. /\ core[c].life \in {"gone", "dead"} /\ UNCHANGED <<inbox, events>>
        /\ core'[c].life \in {"gone", "dead"} /\ core'[c].kind = core[c].kind
        /\ core'[c].life = "gone" => core[c].life = "gone"
        /\ core'[c].release = core[c].release /\ core'[c].hasState = core[c].hasState
        /\ core'[c].error = core[c].error /\ (core[c].ready => core'[c].ready)
        /\ core'[c].busy = core[c].busy /\ core'[c].waiting = core[c].waiting
        /\ core'[c].held = core[c].held
        /\ \A d \in Core \ {c} : Same(d)
    <3>1. CASE ReaderEnds(c)
      <4>1. /\ core' = [core EXCEPT ![c] = [core[c] EXCEPT !.ready = TRUE, !.idle = TRUE,
                                             !.captured = TRUE, !.eof = TRUE]]
            /\ core[c].life \in {"gone", "dead"} /\ UNCHANGED <<inbox, events>>
        BY <3>1 DEF ReaderEnds
      <4>2. core'[c] = [core[c] EXCEPT !.ready = TRUE, !.idle = TRUE, !.captured = TRUE, !.eof = TRUE]
        BY <4>1 DEF Cores
      <4>3. \A d \in Core \ {c} : Same(d)
        BY <4>1 DEF Same, Cores
      <4> QED BY <4>1, <4>2, <4>3 DEF CoreRecord
    <3>2. CASE Reap(c)
      <4>1. /\ core' = [core EXCEPT ![c] = [core[c] EXCEPT !.life = "dead"]]
            /\ core[c].life = "gone" /\ UNCHANGED <<inbox, events>>
        BY <3>2 DEF Reap
      <4>2. core'[c] = [core[c] EXCEPT !.life = "dead"]
        BY <4>1 DEF Cores
      <4>3. \A d \in Core \ {c} : Same(d)
        BY <4>1 DEF Same, Cores
      <4> QED BY <4>1, <4>2, <4>3 DEF CoreRecord
    <3> QED BY <1>3, <3>1, <3>2
  <2>2. Probe(c)'
    BY <1>0, <2>1 DEF Inv, Sound, Probe, CoreFrame
  <2>3. Sound(c)'
    BY <2>1, <2>2, Ending DEF Inv, Sound, Unborn
  <2>4. Keeps(c)
    BY <2>1 DEF Keeps, Alive
  <2> QED BY <1>0, <2>1, <2>3, <2>4, OneCore
<1> QED BY <1>1, <1>2, <1>3

LEMMA CoreSound ==
  ASSUME TypeInv, Inv, NEW c \in Core, CoreStep(c)
  PROVE  Inv'
  BY BootSteps, PollStep, HandoffStep, WorkSteps, EndSteps DEF CoreStep

------------------------------------------------------------------------------
(* What the supervisor does to its processes                                *)

LEMMA Posted ==
  ASSUME TypeInv, NEW c, NEW m \in Control
  PROVE  LET box == Post(inbox, c, <<m>>) IN
         /\ \A d \in Core : d # c => box[d] = inbox[d]
         /\ c \in Core /\ core[c].life \in Alive => box[c] = Append(inbox[c], m)
         /\ c \in Core /\ core[c].life \notin Alive => box[c] = inbox[c]
<1> USE DEF Post, Alive, Core, NoCore, Inboxes
<1>1. CASE c # NoCore /\ core[c].life \in {"boot", "up"}
  <2>1. Post(inbox, c, <<m>>) = [inbox EXCEPT ![c] = @ \o <<m>>]
    BY <1>1
  <2>2. c \in Core => inbox[c] \o <<m>> = Append(inbox[c], m)
    BY Typed, Written
  <2> QED BY <1>1, <2>1, <2>2, Typed
<1>2. CASE ~(c # NoCore /\ core[c].life \in {"boot", "up"})
  BY <1>2
<1> QED BY <1>1, <1>2

LEMMA Resumes1 ==
  ASSUME TypeInv, NEW c \in Core, Resume(c)
  PROVE  /\ \A d \in Core : d # c => inbox'[d] = inbox[d]
         /\ core[c].life \in Alive => inbox'[c] = Append(inbox[c], "continue") /\ routing'
         /\ core[c].life \notin Alive => inbox'[c] = inbox[c]
         /\ Unreaped(c) => routing'
         /\ routing => routing'
<1>1. "continue" \in Control /\ c # NoCore
  BY DEF Control, Core, NoCore
<1>2. CASE Unreaped(c)
  <2>1. inbox' = Post(inbox, c, <<"continue">>) /\ routing' = TRUE
    BY <1>2 DEF Resume
  <2> QED BY <1>1, <2>1, Posted
<1>3. CASE ~Unreaped(c)
  BY <1>1, <1>3 DEF Resume, Unreaped, Alive
<1> QED BY <1>2, <1>3

LEMMA KilledRecord ==
  ASSUME NEW table \in Cores, NEW cs, NEW d \in Core
  PROVE  /\ d \in cs => /\ Kill(table, cs)[d].kind = table[d].kind
                        /\ Kill(table, cs)[d].release = table[d].release
                        /\ Kill(table, cs)[d].hasState = table[d].hasState
                        /\ Kill(table, cs)[d].error = table[d].error
                        /\ Kill(table, cs)[d].life = "dead" /\ Kill(table, cs)[d].ready
                        /\ ~Kill(table, cs)[d].busy /\ ~Kill(table, cs)[d].waiting
                        /\ ~Kill(table, cs)[d].held
         /\ d \notin cs => Kill(table, cs)[d] = table[d]
<1> DEFINE K(c) == [Ended(table[c]) EXCEPT !.life = "dead", !.expected = TRUE, !.ready = TRUE,
                      !.idle = TRUE, !.captured = TRUE, !.eof = TRUE]
           e == Ended(table[d])
<1>1. Kill(table, cs) = [c \in Core |-> IF c \in cs THEN K(c) ELSE table[c]]
  BY DEF Kill
<1>2. table[d] \in CoreRecord
  BY DEF Cores
<1>3. e \in CoreRecord
  BY <1>2, EndedAges DEF Ages
<1>4. e.kind = table[d].kind /\ e.release = table[d].release
      /\ e.hasState = table[d].hasState /\ e.error = table[d].error
      /\ ~e.busy /\ ~e.waiting /\ ~e.held
  BY <1>2, EndedFields
<1>5. K(d) = [e EXCEPT !.life = "dead", !.expected = TRUE, !.ready = TRUE,
                       !.idle = TRUE, !.captured = TRUE, !.eof = TRUE]
  OBVIOUS
<1> HIDE DEF e
<1>6. K(d).kind = e.kind /\ K(d).release = e.release /\ K(d).hasState = e.hasState
      /\ K(d).error = e.error /\ K(d).life = "dead" /\ K(d).ready
      /\ K(d).busy = e.busy /\ K(d).waiting = e.waiting /\ K(d).held = e.held
  BY <1>3, <1>5 DEF CoreRecord
<1> HIDE DEF K
<1>7. Kill(table, cs)[d] = IF d \in cs THEN K(d) ELSE table[d]
  BY <1>1
<1> QED BY <1>4, <1>6, <1>7

LEMMA KilledFields ==
  ASSUME TypeInv, NEW cs, core' = Kill(core, cs), NEW d \in Core
  PROVE  /\ core'[d].kind = core[d].kind /\ core'[d].release = core[d].release
         /\ core'[d].hasState = core[d].hasState /\ core'[d].error = core[d].error
         /\ core[d].ready => core'[d].ready
         /\ d \in cs => /\ core'[d].life = "dead" /\ core'[d].ready
                        /\ ~core'[d].busy /\ ~core'[d].waiting /\ ~core'[d].held
         /\ d \notin cs => core'[d] = core[d]
  BY Typed, KilledRecord

\* A killed process is sound, and so is one that is not current and lives on.
LEMMA KilledSound ==
  ASSUME TypeInv, Inv, NEW cs, core' = Kill(core, cs), UNCHANGED <<current, events>>,
         NEW d \in Core, d \in cs \/ (d # current /\ inbox'[d] = inbox[d])
  PROVE  Sound(d)'
<1>1. CASE d \in cs
  <2>1. core'[d].life = "dead" /\ core'[d].hasState = core[d].hasState /\ core'[d].kind = core[d].kind
        /\ ~core'[d].busy /\ ~core'[d].waiting /\ ~core'[d].held
    BY <1>1, KilledFields
  <2>2. Probe(d)'
    BY <2>1 DEF Inv, Sound, Probe
  <2> QED BY <2>1, <2>2, Ending DEF Inv
<1>2. CASE d \notin cs
  <2>1. core'[d] = core[d]
    BY <1>2, KilledFields
  <2> QED BY <1>2, <2>1, Untouched DEF Inv, Same
<1> QED BY <1>1, <1>2

\* Every live child is killed: none runs, and nobody else is touched.
LEMMA AllKilledSound ==
  ASSUME TypeInv, Inv, core' = Kill(core, LiveChildren), UNCHANGED <<current, events>>,
         inbox' = inbox \/ inbox' = Unsent(LiveChildren)
  PROVE  /\ \A d \in Core : Sound(d)' /\ core'[d].life \notin {"boot", "up", "gone"}
         /\ ~Unreaped(current)'
<1>1. ASSUME NEW d \in Core
      PROVE  Sound(d)' /\ core'[d].life \notin {"boot", "up", "gone"}
  <2>1. CASE d \in LiveChildren
    BY <2>1, KilledFields, KilledSound
  <2>2. CASE d \notin LiveChildren
    <3>1. core[d].life \notin {"boot", "up", "gone"} /\ core[d].life \in Life
      BY <2>2, Typed DEF LiveChildren, Unreaped, Core, NoCore, CoreRecord
    <3>2. core'[d] = core[d] /\ inbox'[d] = inbox[d] /\ events'[d] = events[d]
      BY <2>2, KilledFields DEF Unsent
    <3>3. Sound(d)'
      BY <3>1, <3>2 DEF Inv, Sound, Unborn, Stranger, Probe, Starting, Draining, Drains,
         Holding, Reaches, InForce, Alive
    <3> QED BY <3>1, <3>2, <3>3
  <2> QED BY <2>1, <2>2
<1>2. current \in Core \cup {NoCore}
  BY TypeParts DEF TypeInv
<1> QED BY <1>1, <1>2 DEF Unreaped, NoCore

\* The current core owes nothing: it is held only if it drains.
LEMMA Unowed ==
  ASSUME NEW c \in Core, InForce(c), Holding(c), ~Owes(c),
         inbox[c] \in Seq(Control)
  PROVE  /\ "activate" \notin Msgs(inbox[c])
         /\ core[c].held => ~core[c].busy /\ core[c].draining
<1> DEFINE s == inbox[c]
<1>1. /\ Len(s) > 1 /\ s[2] = "drain" => "drain" \in Msgs(s)
      /\ s # <<>> => Head(s) \in Msgs(s)
  <2>1. s \in Seq(Control)
    OBVIOUS
  <2> HIDE DEF s
  <2> QED BY <2>1 DEF Msgs
<1>2. core[c].held => ~core[c].busy /\ core[c].draining
  BY <1>1 DEF Holding, Recovered, Owes
<1>3. "activate" \notin Msgs(inbox[c])
  BY <1>2 DEF Holding, Passive
<1> QED BY <1>2, <1>3

\* Two records that differ in nothing but what the supervisor has noted.
Flags(me, new) ==
    /\ new.life = me.life /\ new.kind = me.kind /\ new.release = me.release
    /\ new.active = me.active /\ new.draining = me.draining /\ new.frozen = me.frozen
    /\ new.capture = me.capture /\ new.retire = me.retire /\ new.idleSent = me.idleSent
    /\ new.busy = me.busy /\ new.waiting = me.waiting /\ new.typed = me.typed
    /\ new.held = me.held

\* A core that runs and owes nothing is told to continue.
LEMMA Continues ==
  ASSUME NEW c \in Core, core[c].life = "up", c = current', core[c].kind # "probe",
         inbox[c] \in Seq(Control),
         Flags(core[c], core'[c]), Msgs(events'[c]) \subseteq Msgs(events[c]),
         inbox'[c] = Append(inbox[c], "continue"), ~Owes(c), ~Told(c), "activate" \notin Msgs(inbox[c]),
         core[c].held => ~core[c].busy /\ core[c].draining,
         task'["transition"].pc \notin HoldsOld, Starting(c)'
  PROVE  Sound(c)'
<1>1. "continue" \in Control /\ "continue" \notin Request
  BY DEF Control, Request
<1>2. Msgs(inbox'[c]) = Msgs(inbox[c]) \cup {"continue"}
  BY <1>1, Written
<1>3. ~Owes(c)' /\ ~Told(c)'
  BY <1>2 DEF Owes, Told, Flags
<1>4. Unborn(c)' /\ Stranger(c)' /\ Probe(c)'
  BY DEF Unborn, Stranger, Probe, Flags
<1>5. Draining(c)'
  <2>1. Apart(inbox'[c], {"drain"}, Orders) /\ Apart(events'[c], {"idle"}, {"idle"})
    BY <1>3 DEF Apart, Owes, Told, Msgs
  <2> QED BY <1>3, <2>1 DEF Draining, Owes, Flags
<1>6. Drains(c)'
  BY <1>3 DEF Drains, HoldsOld
<1>7. Holding(c)'
  BY <1>2 DEF Holding, Recovered, Flags
<1>8. Reaches(c)'
  <2>1. Resumed(inbox'[c])
    BY <1>1, ResumedWritten
  <2> QED BY <2>1 DEF Reaches, Thaws
<1> QED BY <1>4, <1>5, <1>6, <1>7, <1>8 DEF Sound

------------------------------------------------------------------------------
(* The steps of a planned activation                                        *)

\* A transition under way runs beside a startup that has ended.
LEMMA Beside ==
  ASSUME TypeInv, Inv, OwnInv, task["transition"].pc \notin {"done", "kill", "latest"}
  PROVE  /\ task["startup"].pc \notin Starts \cup AwaitsOwner
         /\ current \in Core => core[current].life \notin {"none", "boot"}
         /\ current \in Core /\ core[current].life \in Alive => InForce(current)
<1>1. task["startup"].pc \notin Starts \cup AwaitsOwner
  BY StartupQuiet DEF Inv, Startup
<1>2. current \in Core => core[current].life \notin {"none", "boot"}
  BY <1>1 DEF Inv, Sound, Starting, Starts
<1> QED BY <1>1, <1>2 DEF InForce, Alive

\* A step of such a transition that leaves no child to wait for.
LEMMA Moved ==
  ASSUME TypeInv, Inv, OwnInv, task["transition"].pc \notin {"done", "kill", "latest"},
         task'["startup"] = task["startup"],
         \A d \in Core : Sound(d)',
         Locals', task'["transition"].pc \notin AwaitsOwner,
         task'["transition"].pc # "done" \/ (Unreaped(current)' => routing')
  PROVE  Inv'
<1>1. task["startup"].pc \notin Starts \cup AwaitsOwner
  BY Beside
<1>2. Startup'
  BY <1>1 DEF Startup, Starts
<1>3. \A t \in Task : task'[t].pc \notin AwaitsOwner
  BY <1>1 DEF Task
<1>4. Children'
  BY <1>3 DEF Children
<1>5. InputRestored'
  BY DEF InputRestored, TransitionPending
<1> QED BY <1>2, <1>4, <1>5 DEF Inv

\* The current core is as it was and the transition has gone on.
LEMMA CurrentMoved ==
  ASSUME TypeInv, Inv, UNCHANGED <<current, routing>>, task'["startup"] = task["startup"],
         NEW c \in Core, Same(c),
         c = current /\ InForce(c) => Drains(c)'
  PROVE  Sound(c)'
<1>1. Sound(c)
  BY DEF Inv
<1>2. Starting(c)'
  BY <1>1 DEF Sound, Starting, Same
<1>3. Drains(c)'
  BY DEF Drains, InForce, Same
<1>4. Reaches(c)'
  BY <1>1 DEF Sound, Reaches, Thaws, InForce, Same
<1> QED BY <1>1, <1>2, <1>3, <1>4, Standing

\* What a transition knows of the core it drains.
LEMMA Holds ==
  ASSUME TypeInv, Inv, OwnInv, task["transition"].pc \notin {"done", "kill", "latest"},
         NEW c \in Core, c = current, core[c].life \in Alive
  PROVE  /\ InForce(c) /\ Draining(c) /\ Drains(c) /\ Holding(c) /\ Reaches(c) /\ core[c].life = "up"
         /\ task["transition"].pc # "awaitIdle" => ~Owes(c) /\ ~Told(c)
         /\ task["transition"].pc \in HoldsOld \ {"awaitIdle"} => Drained(c)
<1>1. InForce(c) /\ core[c].life = "up"
  BY Beside DEF InForce, Alive
<1>2. Draining(c) /\ Drains(c) /\ Holding(c) /\ Reaches(c)
  BY DEF Inv, Sound
<1> QED BY <1>1, <1>2 DEF Drains, Unasked

LEMMA PlannedMove ==
  ASSUME TypeInv, NEW pc \in PC, task' = Goto("transition", pc)
  PROVE  /\ task'["startup"] = task["startup"] /\ task'["transition"].pc = pc
         /\ pc # "done" => /\ task'["transition"].old = task["transition"].old
                           /\ task'["transition"].child = task["transition"].child
                           /\ task'["transition"].target = task["transition"].target
         /\ pc = "done" => task'["transition"].old = NoCore
<1>1. pc = "done" => task'["transition"] = Idle
  BY Typed, TypeParts DEF TypeInv, Goto, Tasks, Task
<1> QED BY <1>1, GotoType, TypeParts DEF TypeInv, Task, Idle

LEMMA ValidateStep ==
  ASSUME TypeInv, Inv, OwnInv, Validate
  PROVE  Inv'
<1>1. /\ task["transition"].pc = "validate"
      /\ UNCHANGED <<core, inbox, events, current, routing>> /\ \A d \in Core : Same(d)
  BY DEF Validate, Same
<1>2. /\ task'["startup"] = task["startup"] /\ task'["transition"].pc \in {"drain", "rejected"}
      /\ task'["transition"].old = NoCore
  <2>0. task["transition"].old = NoCore
    BY <1>1 DEF Inv, Locals
  <2>1. CASE task' = Goto("transition", "rejected")
    BY <2>0, <2>1, PlannedMove DEF PC
  <2>2. CASE \E r \in Release : task' = [task EXCEPT !["transition"].pc = "drain",
                                                     !["transition"].target = r]
    BY <2>0, <2>2, TypeParts DEF TypeInv, Tasks, TaskRecord, Task
  <2> QED BY <2>1, <2>2 DEF Validate
<1>3. ASSUME NEW c \in Core PROVE Sound(c)'
  <2>1. c = current /\ InForce(c) => Drains(c)'
    BY <1>1, <1>2, Holds DEF Drains, Owes, Told, HoldsOld, InForce, Alive
  <2> QED BY <1>1, <1>2, <2>1, CurrentMoved
<1>5. Locals'
  BY <1>2 DEF Locals, UsesOld, HoldsOld, Activating
<1> QED BY <1>1, <1>2, <1>3, <1>5, Moved DEF AwaitsOwner

LEMMA DrainStep ==
  ASSUME TypeInv, Inv, OwnInv, Drain
  PROVE  Inv'
<1>1. task["transition"].pc = "drain" /\ UNCHANGED <<events, current, routing>>
  BY DEF Drain
<1>2. CASE current = NoCore
  <2>1. task' = Goto("transition", "done") /\ UNCHANGED <<core, inbox>>
    BY <1>2 DEF Drain
  <2>2. /\ task'["startup"] = task["startup"] /\ task'["transition"].pc = "done"
        /\ task'["transition"].old = NoCore
    BY <2>1, PlannedMove DEF PC
  <2>3. \A d \in Core : d # current /\ Sound(d)'
    BY <1>1, <1>2, <2>1, Untouched DEF Inv, Same, Core, NoCore
  <2>4. Locals'
    BY <2>2 DEF Locals, UsesOld, HoldsOld, Activating
  <2> QED BY <1>1, <1>2, <2>2, <2>3, <2>4, Moved DEF AwaitsOwner, Unreaped
<1>3. CASE current # NoCore
  <2>1. PICK c \in Core : c = current
    BY <1>3, TypeParts DEF TypeInv
  <2>2. /\ core' = [core EXCEPT ![c] = [core[c] EXCEPT !.idle = FALSE, !.captured = FALSE,
                                                       !.error = FALSE]]
        /\ inbox' = Post(inbox, c, <<"drain">>)
        /\ task' = [task EXCEPT !["transition"].pc = "awaitIdle", !["transition"].old = c]
    BY <1>3, <2>1 DEF Drain
  <2>3. /\ task'["startup"] = task["startup"] /\ task'["transition"].pc = "awaitIdle"
        /\ task'["transition"].old = c
    BY <2>1, <2>2, TypeParts DEF TypeInv, Tasks, TaskRecord, Task
  <2>4. /\ core'[c] = [core[c] EXCEPT !.idle = FALSE, !.captured = FALSE, !.error = FALSE]
        /\ \A d \in Core \ {c} : core'[d] = core[d]
    BY <2>1, <2>2, Typed DEF Cores
  <2>5. \A d \in Core : d # current => Sound(d)'
    <3>1. \A d \in Core : d # current => Same(d)
      BY <1>1, <2>1, <2>2, <2>4, Posted DEF Same, Control
    <3> QED BY <1>1, <3>1, Untouched DEF Inv
  <2>6. /\ core'[c].life = core[c].life /\ core'[c].kind = core[c].kind /\ ~core'[c].idle
        /\ core'[c].active = core[c].active /\ core'[c].draining = core[c].draining
        /\ core'[c].frozen = core[c].frozen /\ core'[c].capture = core[c].capture
        /\ core'[c].retire = core[c].retire /\ core'[c].idleSent = core[c].idleSent
        /\ core'[c].busy = core[c].busy /\ core'[c].waiting = core[c].waiting
        /\ core'[c].typed = core[c].typed /\ core'[c].held = core[c].held
        /\ core'[c].hasState = core[c].hasState
    BY <2>1, <2>4, Typed DEF CoreRecord
  <2>7. Unborn(c) /\ Probe(c) /\ Starting(c)
    BY <2>1 DEF Inv, Sound
  <2>8. ASSUME core[c].life \in Alive PROVE Sound(c)'
    <3>1. /\ InForce(c) /\ Draining(c) /\ Holding(c) /\ Reaches(c) /\ ~Owes(c) /\ ~Told(c)
      BY <1>1, <2>1, <2>8, Holds
    <3>2. "drain" \in Control /\ "drain" \in Orders /\ "drain" \notin {"capture", "activate", "continue"}
      BY DEF Control, Orders
    <3>3. inbox'[c] = Append(inbox[c], "drain") /\ inbox[c] \in Seq(Control)
      BY <2>1, <2>2, <2>8, <3>2, Posted, Typed
    <3>4. Msgs(inbox'[c]) = Msgs(inbox[c]) \cup {"drain"}
      BY <3>2, <3>3, Written
    <3>5. Unborn(c)' /\ Stranger(c)' /\ Probe(c)' /\ Starting(c)'
      BY <1>1, <2>1, <2>3, <2>6, <2>7, <3>1 DEF Unborn, Stranger, Probe, Starting, InForce
    <3>6. Draining(c)'
      <4>1. Apart(inbox'[c], {"drain"}, Orders)
        <5>1. Msgs(inbox[c]) \cap {"drain"} = {} /\ Apart(inbox[c], {"drain"}, Orders)
          BY <3>1 DEF Owes, Draining
        <5> QED BY <3>2, <3>3, <5>1, ApartWritten
      <4>2. ~Told(c)' /\ Apart(events'[c], {"idle"}, {"idle"})
        BY <1>1, <3>1 DEF Told, Draining
      <4>3. ~(core'[c].draining /\ ~core'[c].idleSent)
        BY <2>6, <3>1 DEF Owes
      <4> QED BY <4>1, <4>2, <4>3 DEF Draining
    <3>7. Drains(c)'
      BY <2>3, <2>6 DEF Drains, HoldsOld
    <3>8. Holding(c)'
      <4>1. "activate" \notin Msgs(inbox[c]) /\ (core[c].held => ~core[c].busy /\ core[c].draining)
        BY <2>1, <3>1, <3>3, Unowed
      <4> QED BY <2>6, <3>4, <4>1 DEF Holding, Recovered
    <3>9. Reaches(c)'
      <4>1. Thaws(c) => Thaws(c)'
        <5>1. Resumed(inbox[c]) => Resumed(inbox'[c])
          BY <3>2, <3>3, ResumedWritten
        <5> QED BY <2>6, <3>4, <5>1 DEF Thaws
      <4> QED BY <1>1, <3>1, <4>1 DEF Reaches
    <3> QED BY <3>5, <3>6, <3>7, <3>8, <3>9 DEF Sound
  <2>9. ASSUME core[c].life \notin Alive PROVE Sound(c)'
    <3>1. core[c].life \in {"gone", "dead"}
      BY <1>1, <2>1, <2>9, Beside, Typed DEF Alive, CoreRecord, Life
    <3>2. Probe(c)'
      BY <1>1, <2>6, <2>7 DEF Probe
    <3> QED BY <2>1, <2>6, <2>7, <3>1, <3>2, Ending DEF Inv, Unborn
  <2>10. Locals'
    BY <1>1, <2>1, <2>3 DEF Locals, RecoveryPC, Activating
  <2> QED BY <1>1, <2>1, <2>3, <2>5, <2>8, <2>9, <2>10, Moved DEF AwaitsOwner
<1> QED BY <1>2, <1>3

\* A new process has said nothing and was told nothing, and nobody knows it yet.
LEMMA FreshFacts ==
  ASSUME TypeInv, Inv, Unused # {}
  PROVE  /\ Fresh \in Core /\ core[Fresh] = Absent /\ inbox[Fresh] = <<>> /\ events[Fresh] = <<>>
         /\ Fresh # current
         /\ \A t \in Task : task[t].pc \in AwaitsOwner => Fresh # task[t].child
<1>1. Fresh \in Core /\ core[Fresh].life = "none"
  BY FreshType
<1>2. Unborn(Fresh) /\ Starting(Fresh)
  BY <1>1 DEF Inv, Sound
<1>3. \A t \in Task : task[t].pc \in AwaitsOwner => Fresh # task[t].child
  BY <1>1 DEF Inv, Children
<1> QED BY <1>1, <1>2, <1>3 DEF Unborn, Starting

\* What a process is when it has just been launched.
Newborn(me, r, k) ==
    /\ me.life = "boot" /\ me.kind = k /\ me.release = r
    /\ ~me.hasState /\ ~me.ready /\ me.typed = <<>> /\ Passive(me)

LEMMA LaunchedNewborn ==
  ASSUME NEW r, NEW k, NEW me,
         me = [Absent EXCEPT !.life = "boot", !.kind = k, !.release = r]
  PROVE  /\ Newborn(me, r, k) /\ ~me.held
         /\ Newborn([me EXCEPT !.held = TRUE], r, k) /\ [me EXCEPT !.held = TRUE].held
  BY DEF Newborn, Absent, Passive

LEMMA LaunchedOne ==
  ASSUME TypeInv, Inv, Unused # {}, NEW r, NEW k, core' = Launched(core, r, k),
         NEW f \in Core, f = Fresh
  PROVE  /\ Newborn(core'[f], r, k) /\ ~core'[f].held /\ f # current
         /\ \A d \in Core \ {f} : core'[d] = core[d]
<1>1. core \in [Core -> CoreRecord]
  BY Typed DEF Cores
<1>2. /\ core'[f] = [Absent EXCEPT !.life = "boot", !.kind = k, !.release = r]
      /\ \A d \in Core \ {f} : core'[d] = core[d]
  BY <1>1 DEF Launched
<1>3. Newborn(core'[f], r, k) /\ ~core'[f].held
  BY <1>2, LaunchedNewborn, Zenon
<1> QED BY <1>2, <1>3, FreshFacts

LEMMA LaunchSound ==
  ASSUME TypeInv, Inv, Unused # {}, UNCHANGED <<inbox, events>>, NEW f \in Core, f = Fresh,
         NEW r, NEW k, Newborn(core'[f], r, k),
         current' = current \/ (current' = f /\ k = "normal" /\ task'["startup"].pc = "awaitStart")
  PROVE  Sound(f)'
<1> DEFINE n == core'[f]
<1>1. inbox'[f] = <<>> /\ events'[f] = <<>> /\ f # current
  BY FreshFacts
<1>2. /\ n.life = "boot" /\ n.kind = k /\ ~n.hasState /\ ~n.ready /\ n.typed = <<>>
      /\ Passive(n)
  BY DEF Newborn
<1>3. f # current' \/ (f = current' /\ k = "normal" /\ task'["startup"].pc = "awaitStart")
  BY <1>1
<1> HIDE DEF n
<1>4. Msgs(inbox'[f]) = {} /\ Msgs(events'[f]) = {}
  BY <1>1, NoMsgs
<1>5. Blank(f)'
  BY <1>1, <1>2, <1>4 DEF Blank, Inert, n
<1>6. Unborn(f)'
  BY <1>2, <1>4, <1>5 DEF Unborn, Blank, n
<1>7. Stranger(f)' /\ Probe(f)' /\ Starting(f)'
  BY <1>2, <1>3, <1>4, <1>5 DEF Stranger, Probe, Starting, n
<1>8. Draining(f)' /\ Drains(f)' /\ Holding(f)' /\ Reaches(f)'
  BY <1>2 DEF Draining, Drains, Holding, Reaches, InForce, n
<1> QED BY <1>6, <1>7, <1>8 DEF Sound

\* The transition goes on and touches no process.
LEMMA GoesOn ==
  ASSUME TypeInv, Inv, OwnInv, task["transition"].pc \in HoldsOld \cup {"rejected", "replace", "restart"},
         UNCHANGED <<core, inbox, events, current, routing>>,
         NEW pc \in HoldsOld \cup {"rejected", "restart"}, pc # "awaitIdle",
         pc \in HoldsOld => task["transition"].pc \in HoldsOld,
         task["transition"].pc = "awaitIdle" => pc = "rejected" /\ ~Unreaped(current),
         task["transition"].pc \in {"replace", "restart"} => \A c \in Core : ~Owner(c),
         task' = Goto("transition", pc), Locals'
  PROVE  Inv'
<1>1. /\ task'["startup"] = task["startup"] /\ task'["transition"].pc = pc
  BY PlannedMove DEF PC, HoldsOld
<1>2. /\ pc \notin AwaitsOwner \cup {"done"}
      /\ task["transition"].pc \notin {"done", "kill", "latest"}
  BY DEF AwaitsOwner, HoldsOld
<1>3. ASSUME NEW c \in Core PROVE Sound(c)'
  <2>1. Same(c)
    BY DEF Same
  <2>2. ASSUME c = current, InForce(c) PROVE Drains(c)'
    <3>1. ~Owes(c) /\ ~Told(c) /\ (pc \in HoldsOld => Drained(c))
      BY <1>2, <2>2, Holds DEF InForce, Alive, Unreaped, Core, NoCore
    <3>2. ~Owes(c)' /\ ~Told(c)' /\ (pc \in HoldsOld => Drained(c)')
      BY <2>1, <3>1 DEF Same, Owes, Told, Drained
    <3> QED BY <1>1, <3>2 DEF Drains
  <2> QED BY <1>1, <2>1, <2>2, CurrentMoved
<1> QED BY <1>1, <1>2, <1>3, Moved

LEMMA IdleSeenStep ==
  ASSUME TypeInv, Inv, OwnInv, IdleSeen
  PROVE  Inv'
<1> DEFINE old == task["transition"].old
<1>1. /\ task["transition"].pc = "awaitIdle" /\ core[old].idle /\ UNCHANGED <<core, events, current>>
  BY DEF IdleSeen
<1>2. old = current /\ old \in Core
  BY <1>1 DEF Inv, Locals, UsesOld, HoldsOld, TypeInv, Known
<1>3. CASE /\ Unreaped(old) /\ routing' = FALSE
           /\ inbox' = Post(inbox, old, <<"capture">>)
           /\ task' = Goto("transition", "awaitCapture")
  <2>1. PICK c \in Core : c = old
    BY <1>2
  <2>2. /\ task'["startup"] = task["startup"] /\ task'["transition"].pc = "awaitCapture"
        /\ task'["transition"].old = c
    BY <1>3, <2>1, PlannedMove DEF PC
  <2>3. "capture" \in Control /\ "capture" \notin Orders
    BY DEF Control, Orders, Resumes
  <2>4. \A d \in Core : d # c => Sound(d)'
    <3>1. \A d \in Core : d # c => Same(d)
      BY <1>1, <1>3, <2>1, <2>3, Posted DEF Same
    <3> QED BY <1>1, <1>2, <2>1, <3>1, Untouched DEF Inv
  <2>5. Sound(c)'
    <3>1. CASE core[c].life \in Alive
      <4>1. /\ InForce(c) /\ Draining(c) /\ Drains(c) /\ Holding(c) /\ core[c].life = "up"
        BY <1>1, <1>2, <2>1, <3>1, Holds
      <4>2. Drained(c) /\ ~Told(c)
        BY <1>1, <2>1, <4>1 DEF Drains
      <4>3. inbox'[c] = Append(inbox[c], "capture") /\ inbox[c] \in Seq(Control)
        BY <1>3, <2>1, <2>3, <3>1, Posted, Typed
      <4>4. Msgs(inbox'[c]) = Msgs(inbox[c]) \cup {"capture"}
        BY <2>3, <4>3, Written
      <4>5. Unborn(c)' /\ Stranger(c)' /\ Probe(c)' /\ Starting(c)'
        BY <1>1, <1>2, <2>1, <2>2, <4>1 DEF Inv, Sound, Unborn, Stranger, Probe, Starting, InForce
      <4>6. Drained(c)' /\ ~Told(c)' /\ ~Owes(c)'
        BY <1>1, <2>3, <4>2, <4>4 DEF Drained, Told, Owes, Orders
      <4>7. Draining(c)'
        <5>1. Apart(inbox'[c], {"drain"}, Orders)
          BY <2>3, <4>1, <4>3, ApartWritten DEF Draining
        <5> QED BY <1>1, <4>1, <4>6, <5>1 DEF Draining, Drained, InForce
      <4>8. Drains(c)'
        BY <2>2, <4>6 DEF Drains
      <4>9. Holding(c)'
        BY <4>6 DEF Holding, Drained, Recovered, Orders, Resumes
      <4> QED BY <1>3, <4>5, <4>7, <4>8, <4>9 DEF Sound, Reaches
    <3>2. CASE core[c].life \notin Alive
      <4>1. inbox'[c] = inbox[c]
        BY <1>3, <2>1, <2>3, <3>2, Posted
      <4> QED BY <1>1, <1>2, <2>1, <2>2, <3>2, <4>1 DEF Inv, Sound, Unborn, Stranger, Probe, Starting,
               Draining, Drains, Holding, Reaches, InForce, Alive
    <3> QED BY <3>1, <3>2
  <2>6. Locals'
    BY <1>1, <1>2, <2>1, <2>2 DEF Locals, RecoveryPC, Activating
  <2> QED BY <1>1, <2>2, <2>4, <2>5, <2>6, Moved DEF AwaitsOwner
<1>4. CASE ~Unreaped(old) /\ task' = Goto("transition", "rejected") /\ UNCHANGED <<inbox, routing>>
  <2>1. task'["transition"].pc = "rejected" /\ task'["transition"].old = old
    BY <1>4, PlannedMove DEF PC
  <2>2. Locals'
    BY <1>1, <1>2, <1>4, <2>1 DEF Locals, RecoveryPC, Activating, UsesOld, HoldsOld, Unreaped
  <2> QED BY <1>1, <1>2, <1>4, <2>2, GoesOn DEF HoldsOld
<1> QED BY <1>3, <1>4 DEF IdleSeen

\* A transition that is rejected, or goes on to its next step, knows its core.
LEMMA HeldLocals ==
  ASSUME TypeInv, Inv, task["transition"].pc \in UsesOld, UNCHANGED current,
         task'["transition"].old = task["transition"].old,
         task'["transition"].pc \in {"record", "probe", "rejected", "restart"}
  PROVE  Locals'
<1>1. task["transition"].old = current /\ current \in Core
  BY DEF Inv, Locals, TypeInv, Known
<1> QED BY <1>1 DEF Locals, RecoveryPC, Activating, UsesOld, HoldsOld

LEMMA CaptureSeenStep ==
  ASSUME TypeInv, Inv, OwnInv, CaptureSeen
  PROVE  Inv'
<1> DEFINE b == ~core[task["transition"].old].captured
<1>1. /\ task["transition"].pc = "awaitCapture" /\ UNCHANGED <<inbox, events, current, routing>>
      /\ task["transition"].old = current /\ current \in Core
  BY DEF CaptureSeen, Inv, Locals, UsesOld, HoldsOld, TypeInv, Known
<1>2. PICK pc \in {"record", "rejected"} : task' = Goto("transition", pc)
  BY DEF CaptureSeen
<1>3. /\ task'["startup"] = task["startup"] /\ task'["transition"].pc = pc
      /\ task'["transition"].old = task["transition"].old
  BY <1>2, PlannedMove DEF PC
<1>4. PICK c \in Core : c = current
  BY <1>1
<1>5. core' = [core EXCEPT ![c] = [core[c] EXCEPT !.error = core[c].error /\ ~core[c].captured]]
  BY <1>1, <1>4 DEF CaptureSeen
<1>6. \A d \in Core \ {c} : Same(d)
  BY <1>1, <1>5, Typed DEF Same, Cores
<1>7. /\ core'[c].life = core[c].life /\ core'[c].kind = core[c].kind /\ core'[c].idle = core[c].idle
      /\ core'[c].active = core[c].active /\ core'[c].draining = core[c].draining
      /\ core'[c].frozen = core[c].frozen /\ core'[c].capture = core[c].capture
      /\ core'[c].retire = core[c].retire /\ core'[c].idleSent = core[c].idleSent
      /\ core'[c].busy = core[c].busy /\ core'[c].waiting = core[c].waiting
      /\ core'[c].typed = core[c].typed /\ core'[c].held = core[c].held
      /\ core'[c].hasState = core[c].hasState /\ core'[c].release = core[c].release
  <2>1. core[c] \in CoreRecord /\ core'[c] = [core[c] EXCEPT !.error = core[c].error /\ ~core[c].captured]
    BY <1>5, Typed DEF Cores
  <2> QED BY <2>1 DEF CoreRecord
<1>8. \A d \in Core : d # c => Sound(d)'
  BY <1>1, <1>4, <1>6, Untouched DEF Inv
<1>9. Unborn(c) /\ Probe(c) /\ Starting(c)
  BY DEF Inv, Sound
<1>10. Sound(c)'
  <2>1. CASE core[c].life \in Alive
    <3>1. /\ InForce(c) /\ Draining(c) /\ Drained(c) /\ Holding(c) /\ Reaches(c) /\ ~Owes(c) /\ ~Told(c)
      BY <1>1, <1>4, <2>1, Holds DEF HoldsOld
    <3>2. Unborn(c)' /\ Stranger(c)' /\ Probe(c)' /\ Starting(c)'
      BY <1>1, <1>3, <1>4, <1>7, <1>9, <3>1 DEF Unborn, Stranger, Probe, Starting, InForce
    <3>3. Drained(c)' /\ ~Owes(c)' /\ ~Told(c)'
      BY <1>1, <1>7, <3>1 DEF Drained, Owes, Told
    <3>4. Draining(c)' /\ Drains(c)'
      BY <1>1, <1>2, <1>3, <3>1, <3>3 DEF Draining, Drains, Drained
    <3>5. Holding(c)' /\ Reaches(c)'
      BY <1>1, <1>7, <3>1 DEF Holding, Recovered, Passive, Reaches, Thaws, InForce
    <3> QED BY <3>2, <3>4, <3>5 DEF Sound
  <2>2. CASE core[c].life \notin Alive
    BY <1>1, <1>3, <1>4, <1>7, <1>9, <2>2, Beside DEF Sound, Unborn, Stranger, Probe, Starting, Draining, Drains,
       Holding, Reaches, InForce, Alive
  <2> QED BY <2>1, <2>2
<1>11. Locals'
  BY <1>1, <1>2, <1>3, HeldLocals DEF UsesOld, HoldsOld
<1> QED BY <1>1, <1>3, <1>8, <1>10, <1>11, Moved DEF AwaitsOwner

LEMMA RecordStep ==
  ASSUME TypeInv, Inv, OwnInv, RecordState
  PROVE  Inv'
<1>1. PICK pc \in {"probe", "rejected"} : task' = Goto("transition", pc)
  BY DEF RecordState
<1>2. task["transition"].pc = "record" /\ UNCHANGED <<core, inbox, events, current, routing>>
  BY DEF RecordState
<1>3. Locals'
  BY <1>1, <1>2, PlannedMove, HeldLocals DEF UsesOld, HoldsOld, PC
<1> QED BY <1>1, <1>2, <1>3, GoesOn DEF HoldsOld

\* The transition launches a child.
LEMMA PlannedLaunch ==
  ASSUME TypeInv, Inv, OwnInv, task["transition"].pc \in {"probe", "replace", "restart"},
         UNCHANGED <<inbox, events, current, routing>>, Unused # {},
         NEW r, NEW k, core' = Launched(core, r, k), NEW f \in Core, f = Fresh,
         NEW wait \in {"awaitProbe", "awaitReplace", "awaitRestart"},
         task' = [task EXCEPT !["transition"].pc = wait, !["transition"].child = f],
         wait = "awaitProbe" => task["transition"].pc = "probe",
         wait # "awaitProbe" => k = "normal" /\ \A c \in Core : ~Owner(c),
         Locals'
  PROVE  Inv'
<1>2. /\ task'["startup"] = task["startup"] /\ task'["transition"].pc = wait
      /\ task'["transition"].child = f
  BY Typed DEF Tasks, TaskRecord, Task
<1>3. /\ Newborn(core'[f], r, k) /\ ~core'[f].held /\ f # current
      /\ \A d \in Core \ {f} : core'[d] = core[d]
  BY LaunchedOne
<1>4. Sound(f)'
  BY <1>3, LaunchSound
<1>5. task["startup"].pc \notin Starts \cup AwaitsOwner
  BY Beside
<1>6. ASSUME NEW c \in Core, c # f PROVE Sound(c)'
  <2>1. Same(c)
    BY <1>3, <1>6 DEF Same
  <2>2. ASSUME c = current, InForce(c) PROVE Drains(c)'
    <3>1. wait = "awaitProbe"
      BY <2>2, OwnerParts DEF InForce, Inv, Sound, Probe
    <3>2. Drained(c) /\ ~Owes(c) /\ ~Told(c)
      BY <2>2, <3>1, Holds DEF HoldsOld, InForce, Alive
    <3> QED BY <1>2, <2>1, <3>1, <3>2 DEF Drains, Same, Drained, Owes, Told
  <2> QED BY <1>2, <2>1, <2>2, CurrentMoved
<1>7. Startup'
  BY <1>2, <1>5 DEF Startup, Starts
<1>8. Children'
  <2>1. ASSUME NEW t \in Task, task'[t].pc \in AwaitsOwner
        PROVE  /\ t = "transition" /\ wait \in {"awaitReplace", "awaitRestart"} /\ k = "normal"
    BY <1>2, <1>5, <2>1 DEF Task, AwaitsOwner
  <2>2. core'[f].kind = k /\ core'[f].life = "boot" /\ ~core'[f].held
    BY <1>3 DEF Newborn
  <2> QED BY <1>2, <1>3, <2>1, <2>2 DEF Children
<1>9. InputRestored'
  BY <1>2 DEF InputRestored, TransitionPending
<1> QED BY <1>4, <1>6, <1>7, <1>8, <1>9 DEF Inv

LEMMA PlannedOldCurrent ==
  ASSUME TypeInv, Inv, task["transition"].pc \in UsesOld
  PROVE  task["transition"].old = current /\ current \in Core
  BY DEF Inv, Locals, TypeInv, Known

\* A process that was tested before is not the new one.
LEMMA TestedStays ==
  ASSUME TypeInv, Inv, NEW r, \E c \in Core : Tested(c, r),
         \A d \in Core : core[d].life # "none" =>
           /\ core'[d].kind = core[d].kind /\ core'[d].release = core[d].release
           /\ core'[d].hasState = core[d].hasState /\ core'[d].error = core[d].error
  PROVE  \E c \in Core : Tested(c, r)'
<1>1. PICK c \in Core : Tested(c, r)
  OBVIOUS
<1>2. core[c].life # "none"
  BY <1>1 DEF Inv, Sound, Unborn, Tested, Absent
<1> QED BY <1>1, <1>2 DEF Tested

LEMMA ProbeLaunchStep ==
  ASSUME TypeInv, Inv, OwnInv, ProbeLaunch
  PROVE  Inv'
<1>1. task["transition"].pc = "probe" /\ UNCHANGED <<inbox, events, current, routing>>
  BY DEF ProbeLaunch
<1>2. task["transition"].old = current /\ current \in Core
  BY <1>1, PlannedOldCurrent DEF UsesOld, HoldsOld
<1>3. CASE /\ Unused # {} /\ core' = Launched(core, task["transition"].target, "probe")
           /\ task' = [task EXCEPT !["transition"].pc = "awaitProbe", !["transition"].child = Fresh]
  <2>0. PICK f \in Core : f = Fresh
    BY <1>3, FreshFacts
  <2>1. /\ task'["transition"].pc = "awaitProbe" /\ task'["transition"].child = f
        /\ task'["transition"].old = current /\ task'["transition"].target = task["transition"].target
    BY <1>2, <1>3, <2>0, Typed DEF Tasks, TaskRecord, Task
  <2>2. core'[f].kind = "probe" /\ core'[f].release = task["transition"].target
    BY <1>3, <2>0, LaunchedOne DEF Newborn
  <2>3. Locals'
    BY <1>1, <2>1, <2>2 DEF Locals, RecoveryPC, Activating
  <2> QED BY <1>1, <1>3, <2>0, <2>3, PlannedLaunch
<1>4. CASE task' = Goto("transition", "rejected") /\ UNCHANGED core
  <2>1. Locals'
    BY <1>1, <1>4, PlannedMove, HeldLocals DEF UsesOld, HoldsOld, PC
  <2> QED BY <1>1, <1>4, <2>1, GoesOn DEF HoldsOld
<1> QED BY <1>3, <1>4 DEF ProbeLaunch, LaunchChild

LEMMA ProbeReadyStep ==
  ASSUME TypeInv, Inv, OwnInv, ProbeReady
  PROVE  Inv'
<1>0. PICK p, r : p = task["transition"].child /\ r = task["transition"].target
  OBVIOUS
<1>1. /\ task["transition"].pc = "awaitProbe" /\ UNCHANGED <<inbox, events, current, routing>>
      /\ core' = Kill(core, {p})
  BY <1>0 DEF ProbeReady
<1>2. /\ task["transition"].old = current /\ current \in Core
      /\ p \in Core /\ core[p].kind = "probe" /\ core[p].release = r
      /\ p # current
  <2>1. p \in Core /\ core[p].kind = "probe" /\ core[p].release = r
    BY <1>0, <1>1 DEF TypeInv, Known, UsesChild, Task, Inv, Locals
  <2> QED BY <1>1, <2>1, PlannedOldCurrent DEF UsesOld, HoldsOld, Inv, Sound, Probe
<1>3. PICK pc \in {"retire", "rejected"} : /\ task' = Goto("transition", pc)
                                           /\ pc = "retire" => ReadyOK(p)
  BY <1>0 DEF ProbeReady
<1>4. /\ task'["startup"] = task["startup"] /\ task'["transition"].pc = pc
      /\ task'["transition"].old = current /\ task'["transition"].target = r
  BY <1>0, <1>2, <1>3, PlannedMove DEF PC
<1>5. ASSUME NEW c \in Core PROVE Sound(c)'
  <2>1. CASE c = p \/ c # current
    BY <1>1, <1>2, <2>1, KilledSound
  <2>2. CASE c # p /\ c = current
    <3>1. Same(c)
      BY <1>1, <2>2, KilledFields DEF Same
    <3>2. InForce(c) => Drained(c) /\ ~Owes(c) /\ ~Told(c)
      BY <1>1, <2>2, Holds DEF HoldsOld, InForce, Alive
    <3>3. InForce(c) => Drains(c)'
      BY <1>3, <1>4, <3>1, <3>2 DEF Drains, Same, Drained, Owes, Told
    <3> QED BY <1>1, <1>4, <3>1, <3>3, CurrentMoved
  <2> QED BY <2>1, <2>2
<1>6. Locals'
  <2>1. CASE pc = "rejected"
    BY <1>1, <1>3, <2>1, PlannedMove, HeldLocals DEF UsesOld, HoldsOld, PC
  <2>2. CASE pc = "retire"
    <3>1. Tested(p, r)'
      BY <1>1, <1>2, <1>3, <2>2, KilledFields DEF Tested, ReadyOK
    <3> QED BY <1>1, <1>2, <1>4, <2>2, <3>1 DEF Locals, RecoveryPC
  <2> QED BY <2>1, <2>2
<1> QED BY <1>1, <1>3, <1>4, <1>5, <1>6, Moved DEF AwaitsOwner

LEMMA RetireStep ==
  ASSUME TypeInv, Inv, OwnInv, Retire
  PROVE  Inv'
<1>1. task["transition"].pc = "retire" /\ UNCHANGED <<events, current, routing>>
  BY DEF Retire
<1>2. task["transition"].old = current /\ current \in Core
  BY <1>1, PlannedOldCurrent DEF UsesOld, HoldsOld
<1>3. PICK c \in Core : c = current
  BY <1>2
<1>4. /\ core' = [core EXCEPT ![c] = [core[c] EXCEPT !.expected = TRUE]]
      /\ inbox' = Post(inbox, c, <<"retire">>) /\ task' = Goto("transition", "awaitExit")
  BY <1>2, <1>3 DEF Retire
<1>5. /\ task'["startup"] = task["startup"] /\ task'["transition"].pc = "awaitExit"
      /\ task'["transition"].old = current /\ task'["transition"].target = task["transition"].target
  BY <1>2, <1>4, PlannedMove DEF PC
<1>6. "retire" \in Control /\ "retire" \notin Orders \cup {"capture", "continue"}
  BY DEF Control, Orders, Resumes
<1>7. /\ core'[c].life = core[c].life /\ core'[c].kind = core[c].kind /\ core'[c].idle = core[c].idle
      /\ core'[c].active = core[c].active /\ core'[c].draining = core[c].draining
      /\ core'[c].frozen = core[c].frozen /\ core'[c].capture = core[c].capture
      /\ core'[c].retire = core[c].retire /\ core'[c].idleSent = core[c].idleSent
      /\ core'[c].busy = core[c].busy /\ core'[c].waiting = core[c].waiting
      /\ core'[c].typed = core[c].typed /\ core'[c].held = core[c].held
      /\ core'[c].hasState = core[c].hasState /\ core'[c].release = core[c].release
      /\ core'[c].error = core[c].error
  <2>1. core[c] \in CoreRecord /\ core'[c] = [core[c] EXCEPT !.expected = TRUE]
    BY <1>4, Typed DEF Cores
  <2> QED BY <2>1 DEF CoreRecord
<1>8. \A d \in Core \ {c} : Same(d)
  BY <1>1, <1>4, <1>6, Typed, Posted DEF Same, Cores
<1>9. \A d \in Core \ {c} : Sound(d)'
  BY <1>1, <1>3, <1>8, Untouched DEF Inv
<1>10. Unborn(c) /\ Probe(c) /\ Starting(c)
  BY DEF Inv, Sound
<1>11. Sound(c)'
  <2>1. CASE core[c].life \in Alive
    <3>1. /\ InForce(c) /\ Draining(c) /\ Drained(c) /\ Holding(c) /\ Reaches(c) /\ ~Owes(c) /\ ~Told(c)
      BY <1>1, <1>3, <2>1, Holds DEF HoldsOld
    <3>2. inbox'[c] = Append(inbox[c], "retire") /\ inbox[c] \in Seq(Control)
      BY <1>4, <1>6, <2>1, Posted, Typed
    <3>3. Msgs(inbox'[c]) = Msgs(inbox[c]) \cup {"retire"}
      BY <1>6, <3>2, Written
    <3>4. Unborn(c)' /\ Stranger(c)' /\ Probe(c)' /\ Starting(c)'
      BY <1>1, <1>3, <1>5, <1>7, <1>10, <3>1 DEF Unborn, Stranger, Probe, Starting, InForce
    <3>5. Drained(c)' /\ ~Owes(c)' /\ ~Told(c)'
      BY <1>1, <1>6, <1>7, <3>1, <3>3 DEF Drained, Owes, Told, Orders
    <3>6. Apart(inbox'[c], {"drain"}, Orders)
      BY <1>6, <3>1, <3>2, ApartWritten DEF Draining
    <3>7. Draining(c)' /\ Drains(c)'
      BY <1>1, <1>5, <3>1, <3>5, <3>6 DEF Draining, Drains, Drained
    <3>8. Holding(c)'
      BY <3>5 DEF Holding, Drained, Recovered, Orders, Resumes
    <3>9. Reaches(c)'
      <4>1. Thaws(c) => Thaws(c)'
        <5>1. Resumed(inbox[c]) => Resumed(inbox'[c])
          BY <1>6, <3>2, ResumedWritten
        <5> QED BY <1>6, <1>7, <3>3, <5>1 DEF Thaws
      <4> QED BY <1>1, <3>1, <4>1 DEF Reaches
    <3> QED BY <3>4, <3>7, <3>8, <3>9 DEF Sound
  <2>2. CASE core[c].life \notin Alive
    <3>1. core[c].life \in {"gone", "dead"}
      BY <1>1, <1>3, <2>2, Beside, Typed DEF Alive, CoreRecord, Life
    <3>2. Probe(c)'
      BY <1>1, <1>7, <1>10 DEF Probe
    <3> QED BY <1>7, <1>10, <3>1, <3>2, Ending DEF Inv, Unborn
  <2> QED BY <2>1, <2>2
<1>12. Locals'
  <2>1. PICK r : r = task["transition"].target
    OBVIOUS
  <2>2. \E d \in Core : Tested(d, r)
    BY <1>1, <2>1 DEF Inv, Locals, Activating
  <2>3. \E d \in Core : Tested(d, r)'
    BY <1>7, <1>8, <2>2, TestedStays DEF Same
  <2> QED BY <1>1, <1>5, <2>1, <2>3 DEF Locals, RecoveryPC
<1> QED BY <1>1, <1>5, <1>9, <1>11, <1>12, Moved DEF AwaitsOwner

LEMMA ExitedStep ==
  ASSUME TypeInv, Inv, OwnInv, Exited
  PROVE  Inv'
<1>1. task["transition"].pc = "awaitExit" /\ UNCHANGED <<events, current, routing>>
  BY DEF Exited
<1>2. PICK c \in Core : c = current /\ task["transition"].old = c
  BY <1>1, PlannedOldCurrent DEF UsesOld, HoldsOld
<1>3. PICK r : r = task["transition"].target
  OBVIOUS
<1>4. /\ core' = IF Unreaped(c) THEN Kill(core, {c}) ELSE core
      /\ inbox' = Unsent({c}) /\ task' = Goto("transition", "replace")
  BY <1>2 DEF Exited
<1>5. /\ task'["startup"] = task["startup"] /\ task'["transition"].pc = "replace"
      /\ task'["transition"].old = c /\ task'["transition"].target = r
  BY <1>2, <1>3, <1>4, PlannedMove DEF PC
<1>6. \A d \in Core : d # c => inbox'[d] = inbox[d]
  BY <1>4 DEF Unsent
<1>7. /\ \A d \in Core : Sound(d)'
      /\ \A d \in Core : /\ core'[d].kind = core[d].kind /\ core'[d].release = core[d].release
                         /\ core'[d].hasState = core[d].hasState /\ core'[d].error = core[d].error
  <2>1. CASE Unreaped(c)
    BY <1>1, <1>2, <1>4, <1>6, <2>1, KilledSound, KilledFields
  <2>2. CASE ~Unreaped(c)
    <3>1. UNCHANGED core
      BY <1>4, <2>2
    <3>2. core[c].life = "dead"
      BY <1>1, <1>2, <2>2, Beside, Typed DEF Unreaped, CoreRecord, Life, Core, NoCore
    <3>3. Sound(c) /\ Unborn(c) /\ Probe(c)'
      BY <1>1, <3>1 DEF Inv, Sound, Probe
    <3>4. Sound(c)'
      BY <3>1, <3>2, <3>3, Ending DEF Unborn
    <3>5. ASSUME NEW d \in Core, d # c PROVE Sound(d)'
      BY <1>1, <1>2, <1>6, <3>1, <3>5, Untouched DEF Inv, Same
    <3> QED BY <3>1, <3>4, <3>5
  <2> QED BY <2>1, <2>2
<1>8. Locals'
  <2>1. \E d \in Core : Tested(d, r)
    BY <1>1, <1>3 DEF Inv, Locals, Activating
  <2>2. \E d \in Core : Tested(d, r)'
    BY <1>7, <2>1, TestedStays
  <2> QED BY <1>1, <1>2, <1>5, <2>2 DEF Locals, RecoveryPC
<1> QED BY <1>1, <1>5, <1>7, <1>8, Moved DEF AwaitsOwner

LEMMA ReplaceStep ==
  ASSUME TypeInv, Inv, OwnInv, Replace
  PROVE  Inv'
<1>1. task["transition"].pc = "replace" /\ UNCHANGED <<inbox, events, current, routing>>
  BY DEF Replace
<1>2. task["transition"].old = current /\ current \in Core
  BY <1>1, PlannedOldCurrent DEF UsesOld
<1>3. PICK r : r = task["transition"].target
  OBVIOUS
<1>4. \A c \in Core : ~Owner(c)
  BY <1>1 DEF OwnInv, NoneAtLaunch, NoOwner, Task
<1>5. CASE /\ Unused # {} /\ core' = Launched(core, r, "normal")
           /\ task' = [task EXCEPT !["transition"].pc = "awaitReplace", !["transition"].child = Fresh]
  <2>1. PICK f \in Core : f = Fresh
    BY <1>5, FreshFacts
  <2>2. /\ task'["transition"].pc = "awaitReplace" /\ task'["transition"].child = f
        /\ task'["transition"].old = current /\ task'["transition"].target = r
    BY <1>2, <1>3, <1>5, <2>1, Typed DEF Tasks, TaskRecord, Task
  <2>3. core[f].life = "none" /\ \A d \in Core \ {f} : core'[d] = core[d]
    BY <1>5, <2>1, FreshType, LaunchedOne
  <2>4. \E d \in Core : Tested(d, r)
    BY <1>1, <1>3 DEF Inv, Locals, Activating
  <2>5. \E d \in Core : Tested(d, r)'
    BY <2>3, <2>4, TestedStays
  <2>6. Locals'
    BY <1>1, <2>2, <2>5 DEF Locals, RecoveryPC
  <2> QED BY <1>1, <1>4, <1>5, <2>1, <2>6, PlannedLaunch
<1>6. CASE task' = Goto("transition", "restart") /\ UNCHANGED core
  <2>1. Locals'
    BY <1>1, <1>6, PlannedMove, HeldLocals DEF UsesOld, PC
  <2> QED BY <1>1, <1>4, <1>6, <2>1, GoesOn DEF HoldsOld
<1> QED BY <1>3, <1>5, <1>6 DEF Replace, LaunchChild

LEMMA RestartStep ==
  ASSUME TypeInv, Inv, OwnInv, Restart
  PROVE  Inv'
<1>1. task["transition"].pc = "restart" /\ UNCHANGED <<inbox, events, current, routing>>
  BY DEF Restart
<1>2. PICK c \in Core : c = current /\ task["transition"].old = c
  BY <1>1, PlannedOldCurrent DEF UsesOld
<1>3. PICK r : r = core[c].release
  OBVIOUS
<1>4. \A d \in Core : ~Owner(d)
  BY <1>1 DEF OwnInv, NoneAtLaunch, NoOwner, Task
<1>5. CASE /\ Unused # {} /\ core' = Launched(core, r, "normal")
           /\ task' = [task EXCEPT !["transition"].pc = "awaitRestart", !["transition"].child = Fresh]
  <2>1. PICK f \in Core : f = Fresh
    BY <1>5, FreshFacts
  <2>2. /\ task'["transition"].pc = "awaitRestart" /\ task'["transition"].child = f
        /\ task'["transition"].old = c
    BY <1>2, <1>5, <2>1, Typed DEF Tasks, TaskRecord, Task
  <2>3. core'[f].release = core'[c].release
    BY <1>2, <1>3, <1>5, <2>1, LaunchedOne DEF Newborn
  <2>4. Locals'
    BY <1>1, <1>2, <2>2, <2>3 DEF Locals, RecoveryPC, Activating
  <2> QED BY <1>1, <1>4, <1>5, <2>1, <2>4, PlannedLaunch
<1>6. CASE task' = Goto("transition", "rejected") /\ UNCHANGED core
  <2>1. Locals'
    BY <1>1, <1>6, PlannedMove, HeldLocals DEF UsesOld, PC
  <2> QED BY <1>1, <1>4, <1>6, <2>1, GoesOn DEF HoldsOld
<1> QED BY <1>2, <1>3, <1>5, <1>6 DEF Restart, LaunchChild

\* A child takes the place of a current core that no longer runs.
LEMMA Succeeded ==
  ASSUME TypeInv, Inv, OwnInv, NEW t \in Task, task[t].pc \in AwaitsOwner,
         NEW c \in Core, c = task[t].child, current' = c, NEW d \in Core, d # c, Same(d)
  PROVE  Sound(d)'
<1>1. CASE d = current
  <2>1. Sound(d) /\ core[d].kind # "probe"
    BY <1>1 DEF Inv, Sound, Probe
  <2>2. core[d].life \notin Alive
    BY <2>1, OwnerParts DEF OwnInv, ChildAlone, Alive
  <2> QED BY <2>1, <2>2 DEF Same, Sound, Unborn, Inert, Stranger, Probe, Starting, Draining, Drains,
          Holding, Reaches, InForce, Alive
<1>2. CASE d # current
  BY <1>2, Untouched DEF Inv
<1> QED BY <1>1, <1>2

\* The child a task has waited for.
LEMMA Awaited ==
  ASSUME TypeInv, Inv, NEW t \in Task, task[t].pc \in AwaitsOwner
  PROVE  /\ task[t].child \in Core /\ task[t].child # current
         /\ core[task[t].child].kind # "probe" /\ core[task[t].child].life # "none"
         /\ core[task[t].child].life \in Alive =>
              (core[task[t].child].held <=> task[t].pc \notin {"awaitReplace", "awaitRestart"})
         /\ core[task[t].child].life \in Alive /\ core[task[t].child].ready =>
              core[task[t].child].life = "up" /\ Blank(task[t].child)
<1>1. task[t].child \in Core
  BY DEF TypeInv, Known, UsesChild
<1> QED BY <1>1 DEF Inv, Children, Sound, Stranger, Unborn, Alive

\* A core that runs and was told nothing becomes the current one.
LEMMA BlankCurrent ==
  ASSUME NEW c \in Core, core[c].life = "up", Blank(c), core[c].kind # "probe", ~core[c].held,
         c = current', Same(c), task'["transition"].pc \notin HoldsOld
  PROVE  Sound(c)'
<1>1. ~Owes(c)' /\ ~Told(c)' /\ inbox'[c] = <<>> /\ Msgs(inbox'[c]) = {}
  BY NoMsgs DEF Blank, Inert, Passive, Same, Owes, Told, Early, Request
<1>2. Unborn(c)' /\ Stranger(c)' /\ Probe(c)' /\ Starting(c)'
  BY DEF Unborn, Stranger, Probe, Starting, Blank, Same
<1>3. Draining(c)'
  <2>1. Apart(events'[c], {"idle"}, {"idle"}) /\ Apart(inbox'[c], {"drain"}, Orders)
    BY <1>1 DEF Apart, Told, Msgs
  <2> QED BY <1>1, <2>1 DEF Draining
<1>4. Drains(c)'
  BY <1>1 DEF Drains, HoldsOld
<1>5. Holding(c)' /\ Reaches(c)'
  BY <1>1 DEF Holding, Reaches, Thaws, Blank, Inert, Passive, Same
<1> QED BY <1>2, <1>3, <1>4, <1>5 DEF Sound

LEMMA ReplaceReadyStep ==
  ASSUME TypeInv, Inv, OwnInv, ReplaceReady
  PROVE  Inv'
<1>1. task["transition"].pc = "awaitReplace" /\ UNCHANGED <<inbox, events, routing>>
  BY DEF ReplaceReady
<1>2. task["transition"].old = current /\ current \in Core
  BY <1>1, PlannedOldCurrent DEF UsesOld
<1>0. PICK r : r = task["transition"].target
  OBVIOUS
<1>3. PICK c \in Core : c = task["transition"].child /\ r = task["transition"].target
  BY <1>0, <1>1, Awaited DEF Task, AwaitsOwner
<1>4. /\ c # current /\ core[c].kind # "probe" /\ core[c].life # "none"
      /\ core[c].life \in Alive => ~core[c].held
      /\ core[c].life \in Alive /\ core[c].ready => core[c].life = "up" /\ Blank(c)
  BY <1>1, <1>3, Awaited DEF Task, AwaitsOwner
<1>5. CASE /\ ReadyOK(c) /\ current' = c /\ task' = Goto("transition", "activated")
           /\ UNCHANGED core
  <2>1. /\ task'["startup"] = task["startup"] /\ task'["transition"].pc = "activated"
        /\ task'["transition"].target = r
    BY <1>3, <1>5, PlannedMove DEF PC
  <2>2. \A d \in Core : Same(d)
    BY <1>1, <1>5 DEF Same
  <2>3. Sound(c)'
    <3>1. CASE core[c].life \in Alive
      BY <1>4, <1>5, <2>1, <2>2, <3>1, BlankCurrent DEF ReadyOK, HoldsOld
    <3>2. CASE core[c].life \notin Alive
      <4>1. core[c].life \in {"gone", "dead"} /\ Unborn(c)
        BY <1>4, <3>2, Typed DEF CoreRecord, Life, Alive, Inv, Sound
      <4> QED BY <1>4, <1>5, <4>1, Ending DEF Unborn, Probe, Inv
    <3> QED BY <3>1, <3>2
  <2>4. \A d \in Core : Sound(d)'
    BY <1>1, <1>3, <1>5, <2>2, <2>3, Succeeded DEF Task, AwaitsOwner
  <2>5. Locals'
    <3>1. \E d \in Core : Tested(d, r)
      BY <1>1, <1>3 DEF Inv, Locals, Activating
    <3>2. \E d \in Core : Tested(d, r)'
      BY <1>5, <3>1 DEF Tested
    <3>3. core'[c].life \in Alive => Inert(c)' /\ ~core'[c].held
      BY <1>1, <1>4, <1>5 DEF ReadyOK, Blank, Inert
    <3> QED BY <1>5, <2>1, <3>2, <3>3 DEF Locals, RecoveryPC, UsesOld, HoldsOld
  <2> QED BY <1>1, <2>1, <2>4, <2>5, Moved DEF AwaitsOwner
<1>6. CASE /\ core' = Kill(core, LiveChildren) /\ task' = Goto("transition", "restart")
           /\ UNCHANGED current
  <2>1. task'["startup"] = task["startup"] /\ task'["transition"].pc = "restart"
    BY <1>6, PlannedMove DEF PC
  <2>2. Locals'
    BY <1>1, <1>6, PlannedMove, HeldLocals DEF UsesOld, PC
  <2> QED BY <1>1, <1>6, <2>1, <2>2, AllKilledSound, Moved DEF AwaitsOwner
<1> QED BY <1>3, <1>5, <1>6 DEF ReplaceReady

\* The current core, alive or not, is told to continue.
LEMMA ResumedSound ==
  ASSUME TypeInv, UNCHANGED <<core, events>>, NEW c \in Core, c = current', Resume(c),
         core[c].life \notin {"none", "boot"}, Unborn(c), core[c].kind # "probe",
         core[c].life \in Alive => /\ ~Owes(c) /\ ~Told(c) /\ "activate" \notin Msgs(inbox[c])
                                   /\ core[c].held => ~core[c].busy /\ core[c].draining
                                   /\ "startup" \notin Msgs(events[c]),
         task'["transition"].pc \notin HoldsOld, Sound(c) \/ core[c].life \in Alive
  PROVE  Sound(c)'
<1>1. CASE core[c].life \in Alive
  <2>1. core[c].life = "up" /\ Starting(c)'
    BY <1>1 DEF Alive, Starting
  <2>2. inbox'[c] = Append(inbox[c], "continue") /\ inbox[c] \in Seq(Control)
    BY <1>1, Resumes1, Typed
  <2>3. Flags(core[c], core'[c])
    BY DEF Flags
  <2> QED BY <1>1, <2>1, <2>2, <2>3, Continues
<1>2. CASE core[c].life \notin Alive
  <2>1. core[c].life \in {"gone", "dead"}
    BY <1>2, Typed DEF CoreRecord, Life, Alive
  <2> QED BY <1>2, <2>1, Ending DEF Unborn, Probe
<1> QED BY <1>1, <1>2

LEMMA ActivatedStep ==
  ASSUME TypeInv, Inv, OwnInv, Activated
  PROVE  Inv'
<1>1. /\ task["transition"].pc = "activated" /\ UNCHANGED <<core, events, current>>
      /\ task' = Goto("transition", "done")
  BY DEF Activated
<1>2. PICK c \in Core : c = current
  BY <1>1 DEF Inv, Locals
<1>3. /\ Resume(c)
      /\ core[c].life \in Alive => Inert(c) /\ ~core[c].held
  BY <1>1, <1>2 DEF Activated, Inv, Locals
<1>4. /\ task'["startup"] = task["startup"] /\ task'["transition"].pc = "done"
      /\ task'["transition"].old = NoCore
  BY <1>1, PlannedMove DEF PC
<1>5. Unborn(c) /\ core[c].kind # "probe" /\ Sound(c) /\ core[c].life \notin {"none", "boot"}
  BY <1>1, <1>2, Beside DEF Inv, Sound, Probe
<1>6. core[c].life \in Alive => /\ ~Owes(c) /\ ~Told(c) /\ "activate" \notin Msgs(inbox[c])
                                /\ "startup" \notin Msgs(events[c])
  <2>1. core[c].life \in Alive /\ "startup" \in Msgs(events[c]) => task["startup"].pc = "awaitStart"
    BY <1>2, <1>5 DEF Sound, Starting
  <2>2. task["startup"].pc \notin Starts
    BY <1>1, Beside
  <2> QED BY <1>3, <2>1, <2>2 DEF Inert, Passive, Owes, Told, Early, Request, Starts
<1>7. Sound(c)'
  BY <1>1, <1>2, <1>3, <1>4, <1>5, <1>6, ResumedSound DEF HoldsOld
<1>8. \A d \in Core : Sound(d)'
  <2>1. \A d \in Core \ {c} : Same(d)
    BY <1>1, <1>3, Resumes1 DEF Same
  <2> QED BY <1>1, <1>2, <1>7, <2>1, Untouched DEF Inv
<1>9. Locals'
  BY <1>4 DEF Locals, UsesOld, HoldsOld, Activating
<1>10. Unreaped(current)' => routing'
  BY <1>1, <1>2, <1>3, Resumes1 DEF Unreaped
<1> QED BY <1>1, <1>4, <1>8, <1>9, <1>10, Moved DEF AwaitsOwner

LEMMA RestartReadyStep ==
  ASSUME TypeInv, Inv, OwnInv, RestartReady
  PROVE  Inv'
<1>1. /\ task["transition"].pc = "awaitRestart" /\ UNCHANGED events
      /\ task' = Goto("transition", "rejected")
  BY DEF RestartReady
<1>2. task["transition"].old = current /\ current \in Core
  BY <1>1, PlannedOldCurrent DEF UsesOld
<1>3. PICK c \in Core : c = task["transition"].child
  BY <1>1, Awaited DEF Task, AwaitsOwner
<1>4. /\ c # current /\ core[c].kind # "probe" /\ core[c].life # "none"
      /\ core[c].life \in Alive => ~core[c].held
      /\ core[c].life \in Alive /\ core[c].ready => core[c].life = "up" /\ Blank(c)
  BY <1>1, <1>3, Awaited DEF Task, AwaitsOwner
<1>5. /\ task'["startup"] = task["startup"] /\ task'["transition"].pc = "rejected"
      /\ task'["transition"].old = current
  BY <1>1, <1>2, PlannedMove DEF PC
<1>6. CASE ReadyOK(c) /\ current' = c /\ Resume(c) /\ UNCHANGED core
  <2>1. \A d \in Core \ {c} : Same(d)
    BY <1>1, <1>6, Resumes1 DEF Same
  <2>2. Unborn(c) /\ Sound(c) /\ core[c].life \notin {"none", "boot"}
    BY <1>4, <1>6 DEF Inv, Sound, ReadyOK, Alive
  <2>3. core[c].life \in Alive => /\ ~Owes(c) /\ ~Told(c) /\ "activate" \notin Msgs(inbox[c])
                                  /\ "startup" \notin Msgs(events[c])
    BY <1>4, <1>6, NoMsgs DEF ReadyOK, Blank, Inert, Passive, Owes, Told, Early, Request
  <2>4. Sound(c)'
    BY <1>1, <1>4, <1>5, <1>6, <2>2, <2>3, ResumedSound DEF HoldsOld
  <2>5. \A d \in Core : Sound(d)'
    BY <1>1, <1>3, <1>6, <2>1, <2>4, Succeeded DEF Task, AwaitsOwner
  <2>6. core[c].release = core[current].release
    BY <1>1, <1>2, <1>3 DEF Inv, Locals
  <2>7. Locals'
    BY <1>5, <1>6, <2>6 DEF Locals, RecoveryPC, UsesOld, HoldsOld, Activating
  <2> QED BY <1>1, <1>5, <2>5, <2>7, Moved DEF AwaitsOwner
<1>7. CASE core' = Kill(core, LiveChildren) /\ UNCHANGED <<current, inbox, routing>>
  <2>1. Locals'
    BY <1>1, <1>2, <1>5, <1>7, HeldLocals DEF UsesOld
  <2> QED BY <1>1, <1>5, <1>7, <2>1, AllKilledSound, Moved DEF AwaitsOwner
<1> QED BY <1>3, <1>6, <1>7 DEF RestartReady

LEMMA RejectedStep ==
  ASSUME TypeInv, Inv, OwnInv, Rejected
  PROVE  Inv'
<1>1. /\ task["transition"].pc = "rejected" /\ UNCHANGED <<core, events, current>>
      /\ task' = Goto("transition", "done") /\ Resume(current)
  BY DEF Rejected
<1>2. /\ task'["startup"] = task["startup"] /\ task'["transition"].pc = "done"
      /\ task'["transition"].old = NoCore
  BY <1>1, PlannedMove DEF PC
<1>3. \A d \in Core : d # current => Sound(d)'
  <2>1. \A d \in Core : d # current => inbox'[d] = inbox[d]
    <3>1. CASE current \in Core
      BY <1>1, <3>1, Resumes1
    <3>2. CASE current = NoCore
      BY <1>1, <3>2 DEF Resume, Unreaped
    <3> QED BY <3>1, <3>2, TypeParts DEF TypeInv
  <2> QED BY <1>1, <2>1, Untouched DEF Inv, Same
<1>4. ASSUME NEW c \in Core, c = current PROVE Sound(c)'
  <2>1. Unborn(c) /\ core[c].kind # "probe" /\ Sound(c) /\ core[c].life \notin {"none", "boot"}
    BY <1>1, <1>4, Beside DEF Inv, Sound, Probe
  <2>2. core[c].life \in Alive => "startup" \notin Msgs(events[c])
    BY <1>1, <1>4, <2>1, Beside DEF Sound, Starting, Starts
  <2>3. core[c].life \in Alive => /\ ~Owes(c) /\ ~Told(c) /\ "activate" \notin Msgs(inbox[c])
                                  /\ core[c].held => ~core[c].busy /\ core[c].draining
    BY <1>1, <1>4, Holds, Unowed, Typed
  <2> QED BY <1>1, <1>2, <1>4, <2>1, <2>2, <2>3, ResumedSound DEF HoldsOld
<1>5. Locals'
  BY <1>2 DEF Locals, UsesOld, HoldsOld, Activating
<1>6. Unreaped(current)' => routing'
  BY <1>1 DEF Resume, Unreaped
<1> QED BY <1>1, <1>2, <1>3, <1>4, <1>5, <1>6, Moved DEF AwaitsOwner

------------------------------------------------------------------------------
(* The steps of the startup task                                            *)

\* Two records that differ in nothing the invariant looks at.
Alike(me, new) == /\ Flags(me, new)
                  /\ new.ready = me.ready /\ new.idle = me.idle
                  /\ new.hasState = me.hasState /\ new.error = me.error

LEMMA ExpectedAlike ==
  ASSUME TypeInv, NEW c \in Core, core' = [core EXCEPT ![c].expected = TRUE]
  PROVE  Alike(core[c], core'[c]) /\ \A d \in Core \ {c} : core'[d] = core[d]
<1>1. core[c] \in CoreRecord /\ core'[c] = [core[c] EXCEPT !.expected = TRUE]
      /\ \A d \in Core \ {c} : core'[d] = core[d]
  BY Typed DEF Cores
<1> QED BY <1>1 DEF Alike, Flags, CoreRecord

LEMMA AlikeSound ==
  ASSUME TypeInv, Inv, NEW c \in Core, Alike(core[c], core'[c]), core[c].life # "none",
         inbox'[c] = inbox[c], events'[c] = events[c], UNCHANGED <<current, routing>>,
         task'["transition"] = task["transition"], Starting(c)'
  PROVE  Sound(c)'
<1>1. Unborn(c) /\ Stranger(c) /\ Probe(c) /\ Draining(c) /\ Drains(c) /\ Holding(c) /\ Reaches(c)
  BY DEF Inv, Sound
<1>2. Unborn(c)' /\ Stranger(c)' /\ Probe(c)'
  BY <1>1 DEF Alike, Flags, Unborn, Stranger, Probe, Blank, Inert, Passive
<1>3. Draining(c)' /\ Drains(c)'
  BY <1>1 DEF Alike, Flags, Draining, Drains, InForce, Told, Owes, Drained, Unasked
<1>4. Holding(c)' /\ Reaches(c)'
  BY <1>1 DEF Alike, Flags, Holding, Reaches, InForce, Recovered, Passive, Thaws
<1> QED BY <1>2, <1>3, <1>4 DEF Sound

LEMMA AlikeKeeps ==
  ASSUME NEW c \in Core, Alike(core[c], core'[c]), inbox'[c] = inbox[c], events'[c] = events[c]
  PROVE  Keeps(c)
  BY DEF Alike, Flags, Keeps, Inert, Passive

LEMMA StartupMove ==
  ASSUME TypeInv, NEW pc \in PC, task' = Goto("startup", pc)
  PROVE  /\ task'["transition"] = task["transition"] /\ task'["startup"].pc = pc
         /\ pc # "done" => task'["startup"].child = task["startup"].child
  BY GotoType, TypeParts DEF TypeInv, Task

\* Locals and Children say nothing of a transition that has not launched.
LEMMA NoLocals ==
  ASSUME TypeInv, Inv, task["transition"].pc \in {"done", "kill", "latest"},
         task'["transition"] = task["transition"], task'["startup"].pc \notin AwaitsOwner
  PROVE  Locals' /\ Children'
<1>1. Locals'
  BY DEF Inv, Locals, RecoveryPC, UsesOld, HoldsOld, Activating
<1>2. \A t \in Task : task'[t].pc \notin AwaitsOwner
  BY DEF Task, AwaitsOwner
<1> QED BY <1>1, <1>2 DEF Children

LEMMA StartLaunchStep ==
  ASSUME TypeInv, Inv, OwnInv, StartLaunch
  PROVE  Inv'
<1>1. /\ task["startup"].pc = "launch" /\ UNCHANGED <<inbox, events, routing>>
      /\ current = NoCore /\ task["transition"].pc = "done"
  BY DEF StartLaunch, OwnInv, StartsAlone, StartsOwner
<1>2. CASE /\ Unused # {} /\ core' = Launched(core, Initial, "normal") /\ current' = Fresh
           /\ task' = [task EXCEPT !["startup"].pc = "awaitStart", !["startup"].child = Fresh]
  <2>1. PICK f \in Core : f = Fresh
    BY <1>2, FreshFacts
  <2>2. /\ task'["transition"] = task["transition"] /\ task'["startup"].pc = "awaitStart"
        /\ task'["startup"].child = f
    BY <1>2, <2>1, Typed DEF Tasks, TaskRecord, Task
  <2>3. /\ Newborn(core'[f], Initial, "normal") /\ ~core'[f].held
        /\ \A d \in Core \ {f} : core'[d] = core[d]
    BY <1>2, <2>1, LaunchedOne
  <2>4. Sound(f)'
    BY <1>1, <1>2, <2>1, <2>2, <2>3, LaunchSound
  <2>5. \A d \in Core : Sound(d)'
    BY <1>1, <1>2, <2>1, <2>3, <2>4, Untouched DEF Inv, Same, Core, NoCore
  <2>6. Startup'
    <3>1. Inert(f)' /\ Msgs(events'[f]) \subseteq Early
      BY <2>3, <2>4 DEF Sound, Unborn, Newborn, Early
    <3> QED BY <1>1, <1>2, <2>1, <2>2, <2>3, <3>1 DEF Startup, Starts
  <2>7. InputRestored'
    BY <2>2 DEF InputRestored
  <2> QED BY <1>1, <2>2, <2>5, <2>6, <2>7, NoLocals DEF Inv, AwaitsOwner
<1>3. CASE exitCode' = "error" /\ task' = Goto("startup", "done") /\ UNCHANGED <<core, current>>
  <2>1. task'["transition"] = task["transition"] /\ task'["startup"].pc = "done"
    BY <1>3, StartupMove DEF PC
  <2>2. \A d \in Core : Sound(d)'
    BY <1>1, <1>3, Untouched DEF Inv, Same, Core, NoCore
  <2>3. Startup' /\ InputRestored'
    BY <1>3, <2>1 DEF Startup, Starts, InputRestored, Running
  <2> QED BY <1>1, <2>1, <2>2, <2>3, NoLocals DEF Inv, AwaitsOwner
<1> QED BY <1>2, <1>3 DEF StartLaunch

LEMMA StartReadyStep ==
  ASSUME TypeInv, Inv, OwnInv, StartReady
  PROVE  Inv'
<1>1. PICK c \in Core : c = task["startup"].child /\ c = current
  BY DEF StartReady, Inv, Startup, Starts
<1>2. /\ task["startup"].pc = "awaitStart" /\ core[c].ready /\ events[c] = <<>>
      /\ UNCHANGED <<inbox, events, current, routing>>
  BY <1>1 DEF StartReady
<1>3. /\ core[c].life \notin {"none", "boot"}
      /\ task["transition"].pc \in {"done", "kill", "latest"}
  BY <1>1, <1>2 DEF Inv, Sound, Unborn, Starting, Startup, Starts
<1>4. CASE task' = Goto("startup", "started") /\ UNCHANGED <<core, exitCode>>
  <2>1. /\ task'["transition"] = task["transition"] /\ task'["startup"].pc = "started"
        /\ task'["startup"].child = c
    BY <1>1, <1>4, StartupMove DEF PC
  <2>2. \A d \in Core : Same(d)
    BY <1>2, <1>4 DEF Same
  <2>3. Sound(c)'
    <3>1. Starting(c)'
      BY <1>2, <1>3, <1>4, NoMsgs DEF Starting
    <3> QED BY <1>2, <1>3, <1>4, <2>1, <3>1, AlikeSound DEF Alike, Flags
  <2>4. \A d \in Core : Sound(d)'
    BY <1>1, <1>2, <2>2, <2>3, Untouched DEF Inv
  <2>5. Startup'
    BY <1>1, <1>2, <1>3, <1>4, <2>1 DEF Inv, Startup, Starts, Inert
  <2>6. InputRestored'
    BY <2>1 DEF InputRestored
  <2> QED BY <1>3, <2>1, <2>4, <2>5, <2>6, NoLocals DEF Inv, AwaitsOwner
<1>5. CASE /\ exitCode' = "error" /\ core' = [core EXCEPT ![c].expected = TRUE]
           /\ task' = Goto("startup", "done")
  <2>1. task'["transition"] = task["transition"] /\ task'["startup"].pc = "done"
    BY <1>5, StartupMove DEF PC
  <2>2. Alike(core[c], core'[c]) /\ \A d \in Core \ {c} : Same(d)
    BY <1>2, <1>5, ExpectedAlike DEF Same
  <2>3. Sound(c)'
    <3>1. Starting(c)'
      BY <1>2, <1>3, <2>2, NoMsgs DEF Starting, Alike, Flags
    <3> QED BY <1>2, <1>3, <2>1, <2>2, <3>1, AlikeSound
  <2>4. \A d \in Core : Sound(d)'
    BY <1>1, <1>2, <2>2, <2>3, Untouched DEF Inv
  <2>5. Startup' /\ InputRestored'
    BY <1>5, <2>1 DEF Startup, Starts, InputRestored, Running
  <2> QED BY <1>3, <2>1, <2>4, <2>5, NoLocals DEF Inv, AwaitsOwner
<1> QED BY <1>1, <1>4, <1>5 DEF StartReady

LEMMA StartedStep ==
  ASSUME TypeInv, Inv, OwnInv, Started
  PROVE  Inv'
<1>1. PICK c \in Core : c = task["startup"].child /\ c = current
  BY DEF Started, Inv, Startup, Starts
<1>2. /\ task["startup"].pc = "started" /\ UNCHANGED <<core, events, current>>
      /\ Resume(c) /\ task' = Goto("startup", "done")
  BY <1>1 DEF Started
<1>3. /\ core[c].life \notin {"none", "boot"}
      /\ task["transition"].pc \in {"done", "kill", "latest"}
      /\ core[c].life \in Alive => Inert(c) /\ ~core[c].held
  BY <1>1, <1>2 DEF Inv, Sound, Starting, Startup, Starts
<1>4. task'["transition"] = task["transition"] /\ task'["startup"].pc = "done"
  BY <1>2, StartupMove DEF PC
<1>5. Unborn(c) /\ core[c].kind # "probe" /\ Sound(c)
  BY <1>1 DEF Inv, Sound, Probe
<1>6. core[c].life \in Alive => /\ ~Owes(c) /\ ~Told(c) /\ "activate" \notin Msgs(inbox[c])
                                /\ "startup" \notin Msgs(events[c])
  <2>1. core[c].life \in Alive => "startup" \notin Msgs(events[c])
    BY <1>1, <1>2, <1>5 DEF Sound, Starting
  <2> QED BY <1>3, <2>1 DEF Inert, Passive, Owes, Told, Early, Request
<1>7. Sound(c)'
  BY <1>1, <1>2, <1>3, <1>4, <1>5, <1>6, ResumedSound DEF HoldsOld
<1>8. \A d \in Core : Sound(d)'
  <2>1. \A d \in Core \ {c} : Same(d)
    BY <1>2, Resumes1 DEF Same
  <2> QED BY <1>1, <1>2, <1>7, <2>1, Untouched DEF Inv
<1>9. Startup'
  BY <1>4 DEF Startup, Starts
<1>10. InputRestored'
  BY <1>1, <1>2, Resumes1 DEF Unreaped, InputRestored
<1> QED BY <1>3, <1>4, <1>8, <1>9, <1>10, NoLocals DEF Inv, AwaitsOwner

------------------------------------------------------------------------------
(* The steps of an emergency recovery                                       *)

\* A recovery runs alone, or beside a startup that has launched its core.
LEMMA Forced ==
  ASSUME TypeInv, Inv, OwnInv, NEW t \in Task, task[t].pc \in RecoveryPC
  PROVE  /\ t = "startup" => current = NoCore /\ task["transition"].pc = "done"
         /\ t = "transition" => task["startup"].pc \notin AwaitsOwner \cup RecoveryPC
         /\ \A u \in Task : u # t => task[u].pc \notin AwaitsOwner
         /\ task["transition"].old = NoCore
<1>1. t = "startup" => current = NoCore /\ task["transition"].pc = "done"
  BY DEF OwnInv, StartsAlone, StartsOwner
<1>2. t = "transition" => task["startup"].pc \notin AwaitsOwner \cup RecoveryPC
  BY StartupQuiet, PCSets DEF RecoveryPC
<1>3. task["transition"].old = NoCore
  BY <1>1 DEF Inv, Locals, Task
<1> QED BY <1>1, <1>2, <1>3 DEF Task, AwaitsOwner

LEMMA ForcedMove ==
  ASSUME TypeInv, NEW t \in Task, NEW pc \in PC, task' = Goto(t, pc)
  PROVE  /\ task'[t].pc = pc /\ \A u \in Task : u # t => task'[u] = task[u]
         /\ pc # "done" => task'[t].old = task[t].old
         /\ pc = "done" => task'[t].old = NoCore
<1>1. pc = "done" => task'[t] = Idle
  BY TypeParts DEF TypeInv, Goto, Tasks
<1> QED BY <1>1, GotoType, TypeParts DEF TypeInv, Idle

\* What is left to show of a step of a recovery.
LEMMA ForcedInv ==
  ASSUME TypeInv, Inv, OwnInv, NEW t \in Task, task[t].pc \in RecoveryPC,
         \A u \in Task : u # t => task'[u] = task[u],
         task'[t].pc \in RecoveryPC \cup {"done"}, task'[t].old = task[t].old \/ task'[t].old = NoCore,
         \A d \in Core : Sound(d)',
         t = "transition" => Startup',
         task'[t].pc \in AwaitsOwner =>
           /\ task'[t].child # current' /\ core'[task'[t].child].kind # "probe"
           /\ core'[task'[t].child].life # "none" /\ core'[task'[t].child].held,
         task'[t].pc = "done" => (Unreaped(current)' => routing')
  PROVE  Inv'
<1>1. Startup'
  <2>1. CASE t = "startup"
    BY <2>1 DEF Startup, Starts, RecoveryPC
  <2> QED BY <2>1 DEF Task
<1>2. Locals'
  <2>1. task'["transition"].pc \in RecoveryPC \cup {"done"} /\ task'["transition"].old = NoCore
    BY Forced DEF Task
  <2> QED BY <2>1 DEF Locals, RecoveryPC, UsesOld, HoldsOld, Activating
<1>3. Children'
  <2>1. \A u \in Task : u # t => task'[u].pc \notin AwaitsOwner
    BY Forced
  <2>2. task'[t].pc \notin {"awaitReplace", "awaitRestart"}
    BY DEF RecoveryPC
  <2> QED BY <2>1, <2>2 DEF Children
<1>4. InputRestored'
  BY DEF InputRestored, TransitionPending, Task
<1> QED BY <1>1, <1>2, <1>3, <1>4 DEF Inv

LEMMA KillOldStep ==
  ASSUME TypeInv, Inv, OwnInv, NEW t \in Task, KillOld(t)
  PROVE  Inv'
<1>1. /\ task[t].pc = "kill" /\ UNCHANGED <<events, current>> /\ routing' = FALSE
      /\ core' = Kill(core, {current} \ {NoCore}) /\ inbox' = Unsent({current})
      /\ task' = Goto(t, "latest")
  BY DEF KillOld
<1>2. /\ task'[t].pc = "latest" /\ task'[t].old = task[t].old
      /\ \A u \in Task : u # t => task'[u] = task[u]
  BY <1>1, ForcedMove DEF PC
<1>3. ASSUME NEW d \in Core PROVE Sound(d)'
  <2>1. d \in {current} \ {NoCore} \/ (d # current /\ inbox'[d] = inbox[d])
    BY <1>1 DEF Unsent, Core, NoCore
  <2> QED BY <1>1, <2>1, KilledSound
<1>4. ASSUME t = "transition" PROVE Startup'
  <2>1. task'["startup"] = task["startup"] /\ task'["transition"].pc = "latest"
    BY <1>2, <1>4 DEF Task
  <2>2. CASE task["startup"].pc \in Starts
    <3>1. PICK c \in Core : c = task["startup"].child /\ c = current
      BY <2>2 DEF Inv, Startup
    <3>2. core'[c].life = "dead" /\ core'[c].ready
      BY <1>1, <3>1, KilledFields DEF Core, NoCore
    <3>3. Msgs(events'[c]) \subseteq Early
      BY <1>1, <2>2, <3>1 DEF Inv, Startup
    <3> QED BY <1>1, <2>1, <3>1, <3>2, <3>3 DEF Startup, Alive
  <2>3. CASE task["startup"].pc \notin Starts
    BY <2>1, <2>3 DEF Startup, Starts
  <2> QED BY <2>2, <2>3
<1> QED BY <1>1, <1>2, <1>3, <1>4, ForcedInv DEF RecoveryPC, AwaitsOwner

\* By the time a recovery launches anything, startup has ended.
LEMMA StartupEnded ==
  ASSUME TypeInv, Inv, OwnInv, task["transition"].pc \in RecoveryPC \ {"kill"},
         task["transition"].pc = "latest" => Settled
  PROVE  task["startup"].pc \notin Starts
<1>1. task["transition"].pc \notin {"done", "kill"}
  BY DEF RecoveryPC
<1> QED BY <1>1 DEF Inv, Startup, Starts, Settled

LEMMA AttemptFailsStep ==
  ASSUME TypeInv, Inv, OwnInv, NEW t \in Task, NEW a \in Attempt, task[t].pc \in RecoveryPC \ {"kill"},
         task[t].pc = "latest" => Settled, AttemptFails(t, a), UNCHANGED events
  PROVE  Inv'
<1>1. After[a] \in {"retained", "safe", "done"}
  BY DEF After, Attempt
<1>2. /\ core' = Kill(core, LiveChildren) /\ inbox' = Unsent(LiveChildren)
      /\ task' = Goto(t, After[a]) /\ UNCHANGED <<current, routing>>
  BY DEF AttemptFails
<1>3. /\ task'[t].pc = After[a] /\ (task'[t].old = task[t].old \/ task'[t].old = NoCore)
      /\ \A u \in Task : u # t => task'[u] = task[u]
  BY <1>1, <1>2, ForcedMove DEF PC
<1>4. (\A d \in Core : Sound(d)') /\ ~Unreaped(current)'
  BY <1>2, AllKilledSound
<1>5. t = "transition" => Startup'
  BY <1>3, StartupEnded DEF Startup, Starts, Task
<1> QED BY <1>1, <1>3, <1>4, <1>5, ForcedInv DEF RecoveryPC, AwaitsOwner

LEMMA RestoreLaunchStep ==
  ASSUME TypeInv, Inv, OwnInv, NEW t \in Task, NEW a \in Attempt, RestoreLaunch(t, a)
  PROVE  Inv'
<1>1. task[t].pc = a /\ Settled /\ UNCHANGED events
  BY DEF RestoreLaunch
<1>2. a \in RecoveryPC \ {"kill"} /\ a \in NoOwner /\ Awaiting[a] \in RecoveryPC
  BY DEF Attempt, RecoveryPC, NoOwner, Awaiting
<1>3. CASE AttemptFails(t, a)
  BY <1>1, <1>2, <1>3, AttemptFailsStep
<1>4. CASE ~AttemptFails(t, a)
  <2> DEFINE k == IF a = "safe" THEN "safe" ELSE "normal"
  <2>1. PICK r : r = task[t].target
    OBVIOUS
  <2>2. /\ Unused # {} /\ core' = [Launched(core, r, k) EXCEPT ![Fresh].held = TRUE]
        /\ task' = [task EXCEPT ![t].pc = Awaiting[a], ![t].child = Fresh]
        /\ UNCHANGED <<inbox, current, routing, menu>>
    BY <1>4, <2>1 DEF RestoreLaunch
  <2>3. PICK f \in Core : f = Fresh
    BY <2>2, FreshFacts
  <2> HIDE DEF k
  <2>4. k # "probe"
    BY DEF k
  <2>5. /\ Newborn(core'[f], r, k) /\ core'[f].held /\ f # current
        /\ \A d \in Core \ {f} : core'[d] = core[d]
    <3>1. core \in [Core -> CoreRecord]
      BY Typed DEF Cores
    <3>2. PICK me : me = [Absent EXCEPT !.life = "boot", !.kind = k, !.release = r]
      OBVIOUS
    <3>3. /\ core'[f] = [me EXCEPT !.held = TRUE]
          /\ \A d \in Core \ {f} : core'[d] = core[d]
      BY <2>2, <2>3, <3>1, <3>2 DEF Launched
    <3>4. Newborn([me EXCEPT !.held = TRUE], r, k) /\ [me EXCEPT !.held = TRUE].held
      BY <3>2, LaunchedNewborn, Zenon
    <3> QED BY <2>2, <2>3, <3>3, <3>4, FreshFacts
  <2>6. /\ task'[t].pc = Awaiting[a] /\ task'[t].child = f /\ task'[t].old = task[t].old
        /\ \A u \in Task : u # t => task'[u] = task[u]
    BY <2>2, <2>3, Typed DEF Tasks, TaskRecord
  <2>7. Sound(f)'
    BY <1>1, <2>2, <2>3, <2>5, LaunchSound
  <2>8. ASSUME NEW d \in Core, d # f PROVE Sound(d)'
    <3>1. Same(d)
      BY <1>1, <2>2, <2>5, <2>8 DEF Same
    <3>2. CASE d # current
      BY <2>2, <2>8, <3>1, <3>2, Untouched DEF Inv
    <3>3. CASE d = current
      <4>1. t = "transition" /\ task'["startup"] = task["startup"]
        BY <1>1, <1>2, <2>6, <3>3, Forced DEF Task, Core, NoCore
      <4>2. ~InForce(d)
        BY <1>1, <1>2, <3>3, OwnerParts DEF OwnInv, NoneAtLaunch, Inv, Sound, Probe, InForce
      <4> QED BY <2>2, <3>1, <4>1, <4>2, CurrentMoved
    <3> QED BY <3>2, <3>3
  <2>9. t = "transition" => Startup'
    BY <1>1, <1>2, <2>6, StartupEnded DEF Startup, Starts, Task
  <2>10. core'[f].kind # "probe" /\ core'[f].life # "none"
    BY <2>4, <2>5 DEF Newborn
  <2> QED BY ZenonT(60), <1>1, <1>2, <2>2, <2>5, <2>6, <2>7, <2>8, <2>9, <2>10, ForcedInv DEF RecoveryPC
<1> QED BY <1>3, <1>4

\* A recovered core is told to activate and to drain.
LEMMA RecoveredCurrent ==
  ASSUME NEW c \in Core, core[c].life = "up", Blank(c), core[c].kind # "probe", core[c].held,
         c = current', core'[c] = core[c], events'[c] = events[c],
         inbox'[c] = <<"activate", "drain">>, task'["transition"].pc = "done"
  PROVE  Sound(c)'
<1> DEFINE s == <<"activate", "drain">>
<1>1. /\ Msgs(s) = {"activate", "drain"} /\ Len(s) = 2 /\ s # <<>> /\ Head(s) = "activate"
      /\ s[2] = "drain" /\ Tail(s) = <<"drain">> /\ Msgs(Tail(s)) = {"drain"}
      /\ Apart(s, {"drain"}, Orders)
  <2>1. s \in Seq({"activate", "drain"}) /\ Len(s) = 2 /\ s[1] = "activate" /\ s[2] = "drain"
    OBVIOUS
  <2>2. Tail(s) = <<"drain">> /\ Head(s) = "activate"
    OBVIOUS
  <2>3. DOMAIN s = {1, 2} /\ DOMAIN <<"drain">> = {1}
    BY <2>1
  <2> QED BY <2>1, <2>2, <2>3 DEF Msgs, Apart
<1>2. inbox'[c] = s
  OBVIOUS
<1> HIDE DEF s
<1>3. Msgs(inbox'[c]) = {"activate", "drain"} /\ Passive(core'[c]) /\ core'[c].typed = <<>>
  BY <1>1, <1>2 DEF Blank, Inert
<1>4. Msgs(events'[c]) \subseteq Early /\ "startup" \notin Msgs(events'[c])
  BY DEF Blank, Inert
<1>5. Unborn(c)' /\ Stranger(c)' /\ Probe(c)' /\ Starting(c)'
  BY <1>4 DEF Unborn, Stranger, Probe, Starting
<1>6. Draining(c)'
  <2>1. ~Told(c)' /\ Apart(events'[c], {"idle"}, {"idle"})
    BY <1>4 DEF Told, Early, Apart, Msgs
  <2> QED BY <1>1, <1>2, <1>3, <2>1 DEF Draining, Passive
<1>7. Unasked(c)'
  <2>1. Msgs(events'[c]) \cap Request = {} /\ Apart(events'[c], Request, {"idle"})
    BY <1>4 DEF Early, Request, Apart, Msgs
  <2> QED BY <1>3, <2>1 DEF Unasked, Passive
<1>8. Drains(c)'
  BY <1>7 DEF Drains, HoldsOld
<1>9. Holding(c)'
  <2>1. Recovered(c)'
    BY <1>1, <1>2, <1>3 DEF Recovered
  <2>2. "activate" \notin Msgs(Tail(s)) /\ ~core'[c].busy
    BY <1>1, <1>3 DEF Passive
  <2> QED BY <1>1, <1>2, <1>3, <2>1, <2>2 DEF Holding
<1>10. Reaches(c)'
  BY <1>3 DEF Reaches, Thaws, Passive
<1> QED BY <1>5, <1>6, <1>8, <1>9, <1>10 DEF Sound

LEMMA RestoreReadyStep ==
  ASSUME TypeInv, Inv, OwnInv, NEW t \in Task, NEW a \in Attempt, RestoreReady(t, a)
  PROVE  Inv'
<1>1. task[t].pc = Awaiting[a] /\ UNCHANGED events
  BY DEF RestoreReady
<1>2. /\ Awaiting[a] \in RecoveryPC \ {"kill", "latest"} /\ Awaiting[a] \in AwaitsOwner
      /\ Awaiting[a] \notin {"awaitReplace", "awaitRestart"}
  BY DEF Attempt, RecoveryPC, AwaitsOwner, Awaiting
<1>3. CASE AttemptFails(t, a)
  BY <1>1, <1>2, <1>3, AttemptFailsStep
<1>4. CASE ~AttemptFails(t, a)
  <2>1. PICK c \in Core : c = task[t].child
    BY <1>1, <1>2, Awaited
  <2>2. /\ ReadyOK(c) /\ current' = c /\ inbox' = Post(inbox, c, <<"activate", "drain">>)
        /\ routing' = TRUE /\ task' = Goto(t, "done") /\ UNCHANGED core
    BY <1>4, <2>1 DEF RestoreReady
  <2>3. /\ c # current /\ core[c].kind # "probe" /\ core[c].life # "none"
        /\ core[c].life \in Alive => core[c].held /\ core[c].life = "up" /\ Blank(c)
    BY <1>1, <1>2, <2>1, <2>2, Awaited DEF ReadyOK
  <2>4. /\ task'[t].pc = "done" /\ task'[t].old = NoCore
        /\ \A u \in Task : u # t => task'[u] = task[u]
    BY <2>2, ForcedMove DEF PC
  <2>5. task'["transition"].pc = "done"
    BY <1>1, <1>2, <2>4, Forced DEF Task
  <2>6. Sound(c)'
    <3>1. CASE core[c].life \in Alive
      <4>1. inbox'[c] = <<"activate", "drain">>
        <5>1. inbox[c] = <<>> /\ c # NoCore
          BY <2>3, <3>1 DEF Blank, Core, NoCore
        <5>2. inbox'[c] = inbox[c] \o <<"activate", "drain">>
          BY <2>2, <3>1, <5>1, Typed DEF Post, Alive, Inboxes
        <5> QED BY <5>1, <5>2
      <4> QED BY <1>1, <2>2, <2>3, <2>5, <3>1, <4>1, RecoveredCurrent
    <3>2. CASE core[c].life \notin Alive
      <4>1. core[c].life \in {"gone", "dead"} /\ Unborn(c)
        BY <2>3, <3>2, Typed DEF CoreRecord, Life, Alive, Inv, Sound
      <4> QED BY <2>2, <2>3, <4>1, Ending DEF Unborn, Probe, Inv
    <3> QED BY <3>1, <3>2
  <2>7. ASSUME NEW d \in Core, d # c PROVE Sound(d)'
    <3>1. Same(d)
      BY <1>1, <2>2, <2>7, Typed DEF Same, Post, Inboxes
    <3> QED BY <1>1, <1>2, <2>1, <2>2, <2>7, <3>1, Succeeded
  <2>8. t = "transition" => Startup'
    BY <1>1, <1>2, <2>4, StartupEnded DEF Startup, Starts, Task
  <2> QED BY <1>1, <1>2, <2>2, <2>4, <2>6, <2>7, <2>8, PCSets, ForcedInv
<1> QED BY <1>3, <1>4

LEMMA ForceSteps ==
  ASSUME TypeInv, Inv, OwnInv, NEW t \in Task, ForceStep(t)
  PROVE  Inv'
  BY KillOldStep, RestoreLaunchStep, RestoreReadyStep DEF ForceStep

------------------------------------------------------------------------------
(* The steps of the menu, of the terminal and of the main loop itself       *)

LEMMA MenuOnlyStep ==
  ASSUME TypeInv, Inv, OpenMenu \/ Escape \/ MenuQuit
  PROVE  Inv'
<1>1. UNCHANGED <<core, inbox, events, current, routing, task>> /\ (Running' => Running)
  BY DEF OpenMenu, Escape, MenuQuit, Running
<1>2. ASSUME NEW d \in Core PROVE Keeps(d) /\ Sound(d)'
  BY <1>1, SameKeeps, SameSound DEF Inv, Same
<1> QED BY <1>1, <1>2, AllKept

LEMMA EmergencyStep ==
  ASSUME MenuDuringStartup = FALSE, TypeInv, Inv, NEW r, Emergency(r)
  PROVE  Inv'
<1>1. /\ task["startup"].pc = "done" /\ core' = Kill(core, CancelKills)
      /\ inbox' = Unsent(CancelKills) /\ UNCHANGED <<events, current, routing>>
  BY DEF Emergency
<1>2. /\ task'["startup"] = task["startup"] /\ task'["transition"].pc = "kill"
      /\ task'["transition"].old = NoCore
  <2>1. task' = [task EXCEPT !["transition"] = [Idle EXCEPT !.pc = "kill", !.target = r]]
    BY DEF Emergency
  <2> QED BY <2>1, TypeParts DEF TypeInv, Tasks, Task, Idle
<1>3. PICK cs : cs = CancelKills
  OBVIOUS
<1>4. ASSUME NEW d \in Core PROVE Sound(d)'
  <2>1. d \notin cs => inbox'[d] = inbox[d]
    BY <1>1, <1>3 DEF Unsent
  <2>2. CASE d \in cs \/ d # current
    BY <1>1, <1>3, <2>1, <2>2, KilledSound
  <2>3. CASE d \notin cs /\ d = current
    <3>1. Same(d)
      BY <1>1, <1>3, <2>1, <2>3, KilledFields DEF Same
    <3> QED BY <1>1, <1>2, <3>1, CurrentMoved DEF Drains, HoldsOld
  <2> QED BY <2>2, <2>3
<1>5. Startup' /\ Children' /\ InputRestored'
  BY <1>1, <1>2 DEF Startup, Starts, Children, Task, AwaitsOwner, InputRestored, TransitionPending
<1>6. Locals'
  BY <1>2 DEF Locals, UsesOld, HoldsOld, Activating
<1> QED BY <1>4, <1>5, <1>6 DEF Inv

\* A request, or an acknowledgement, reaches the current core last.
LEMMA Appended ==
  ASSUME TypeInv, NEW c \in Core, InForce(c), Holding(c), NEW r \in Request \cup {"ack"},
         Flags(core[c], core'[c]), inbox'[c] = Append(inbox[c], r)
  PROVE  /\ Holding(c)'
         /\ Thaws(c) => Thaws(c)'
         /\ Apart(inbox[c], {"drain"}, Orders) => Apart(inbox'[c], {"drain"}, Orders)
         /\ Msgs(inbox'[c]) = Msgs(inbox[c]) \cup {r}
         /\ r \notin Orders
<1>1. r \in Control /\ r \notin Orders \cup {"capture"} /\ inbox[c] \in Seq(Control)
  BY Typed DEF Control, Request, Orders, Resumes
<1>2. Msgs(inbox'[c]) = Msgs(inbox[c]) \cup {r} /\ inbox'[c] # <<>>
  <2>1. PICK s \in Seq(Control) : s = inbox[c]
    BY <1>1
  <2>2. Msgs(Append(s, r)) = Msgs(s) \cup {r}
    BY <1>1, Written
  <2>3. Append(s, r) # <<>>
    <3>1. CASE s = <<>>
      BY <3>1
    <3>2. CASE s # <<>>
      BY <1>1, <3>2, Written
    <3> QED BY <3>1, <3>2
  <2> QED BY <2>1, <2>2, <2>3
<1>3. Apart(inbox[c], {"drain"}, Orders) => Apart(inbox'[c], {"drain"}, Orders)
  BY <1>1, ApartWritten
<1>4. Holding(c)'
  <2>1. CASE inbox[c] = <<>>
    BY <1>1, <1>2, <2>1, NoMsgs DEF Holding, Recovered, InForce, Orders, Resumes, Flags
  <2>2. CASE inbox[c] # <<>>
    <3>1. /\ Head(inbox'[c]) = Head(inbox[c]) /\ Len(inbox'[c]) = Len(inbox[c]) + 1
          /\ Len(inbox[c]) \in Nat /\ (Len(inbox[c]) > 1 => inbox'[c][2] = inbox[c][2])
      BY <1>1, <2>2, Written
    <3>2. Msgs(Tail(inbox'[c])) = Msgs(Tail(inbox[c])) \cup {r}
      <4>1. Tail(inbox[c]) \in Seq(Control)
        BY <1>1, <2>2
      <4>2. Tail(inbox'[c]) = Append(Tail(inbox[c]), r)
        BY <1>1, <2>2, Written
      <4>3. PICK w \in Seq(Control) : w = Tail(inbox[c])
        BY <4>1
      <4>4. Msgs(Append(w, r)) = Msgs(w) \cup {r}
        BY <1>1, Written
      <4> QED BY <4>2, <4>3, <4>4
    <3>3. Recovered(c) => Recovered(c)'
      BY <1>2, <3>1 DEF Recovered, Passive, Flags
    <3>4. Passive(core[c]) => Passive(core'[c])
      BY DEF Passive, Flags
    <3> QED BY <1>1, <1>2, <3>1, <3>2, <3>3, <3>4 DEF Holding, InForce, Orders, Resumes, Flags
  <2> QED BY <2>1, <2>2
<1>5. Thaws(c) => Thaws(c)'
  <2>1. Resumed(inbox[c]) => Resumed(inbox'[c])
    BY <1>1, ResumedWritten
  <2> QED BY <1>1, <1>2, <2>1 DEF Thaws, Orders, Resumes, Flags
<1> QED BY <1>1, <1>2, <1>3, <1>4, <1>5

LEMMA TypedIn ==
  ASSUME TypeInv, Inv, NEW c \in Core, c = current, core[c].life \in Alive, NEW r \in Request,
         inbox'[c] = Append(inbox[c], r), UNCHANGED <<core, events, current, routing, task>>
  PROVE  Sound(c)'
<1>1. Unborn(c) /\ Probe(c) /\ Starting(c) /\ Draining(c) /\ Drains(c) /\ Holding(c) /\ Reaches(c)
  BY DEF Inv, Sound
<1>2. Msgs(inbox'[c]) = Msgs(inbox[c]) \cup {r}
  BY Written, Typed DEF Control
<1>3. Unborn(c)' /\ Stranger(c)' /\ Probe(c)' /\ Starting(c)'
  BY <1>1, <1>2 DEF Unborn, Inert, Stranger, Probe, Starting, Alive
<1>4. Flags(core[c], core'[c])
  BY DEF Flags
<1>5. CASE InForce(c)
  <2>1. /\ Holding(c)'
        /\ Thaws(c) => Thaws(c)'
        /\ Apart(inbox[c], {"drain"}, Orders) => Apart(inbox'[c], {"drain"}, Orders)
        /\ r \notin Orders
    BY <1>1, <1>4, <1>5, Appended
  <2>2. Draining(c)'
    BY <1>1, <1>2, <2>1 DEF Draining, Drained, Told, InForce
  <2>3. Drains(c)'
    BY <1>1, <1>2, <2>1 DEF Drains, Drained, Told, Owes, Unasked, InForce, Orders, Resumes
  <2> QED BY <1>1, <1>3, <2>1, <2>2, <2>3 DEF Sound, Reaches, InForce
<1>6. CASE ~InForce(c)
  BY <1>3, <1>6 DEF Sound, Draining, Drains, Holding, Reaches, InForce
<1> QED BY <1>5, <1>6

LEMMA TypeInputStep ==
  ASSUME TypeInv, Inv, TypeInput
  PROVE  Inv'
<1>1. PICK r \in Request : inbox' = Post(inbox, current, <<r>>)
  BY DEF TypeInput
<1>2. /\ UNCHANGED <<core, events, current, routing, task, exitCode>> /\ Unreaped(current)
      /\ r \in Control
  BY DEF TypeInput, Control
<1>3. PICK c \in Core : c = current
  BY <1>2, TypeParts DEF TypeInv, Unreaped
<1>4. \A d \in Core \ {c} : Same(d)
  BY <1>1, <1>2, <1>3, Posted DEF Same
<1>5. Sound(c)' /\ Keeps(c)
  <2>1. CASE core[c].life \in Alive
    <3>1. inbox'[c] = Append(inbox[c], r) /\ inbox[c] \in Seq(Control)
      BY <1>1, <1>2, <1>3, <2>1, Posted, Typed
    <3>2. Msgs(inbox'[c]) = Msgs(inbox[c]) \cup {r}
      BY <1>2, <3>1, Written
    <3>3. Keeps(c)
      BY <1>2, <3>2 DEF Keeps, Inert
    <3> QED BY <1>2, <1>3, <2>1, <3>1, <3>3, TypedIn
  <2>2. CASE core[c].life \notin Alive
    <3>1. Same(c)
      BY <1>1, <1>2, <1>3, <2>2, Posted DEF Same
    <3> QED BY <1>2, <3>1, SameSound, SameKeeps DEF Inv
  <2> QED BY <2>1, <2>2
<1>6. \A d \in Core : Keeps(d) /\ Sound(d)'
  BY <1>2, <1>4, <1>5, SameSound, SameKeeps DEF Inv
<1> QED BY <1>2, <1>6, AllKept DEF Running

LEMMA CrashDetectedStep ==
  ASSUME TypeInv, Inv, OwnInv, CrashDetected
  PROVE  Inv'
<1>1. /\ current # NoCore /\ core[current].life = "dead"
      /\ UNCHANGED <<inbox, events, current, routing, exitCode>>
  BY DEF CrashDetected
<1>2. PICK c \in Core : c = current
  BY <1>1, TypeParts DEF TypeInv
<1>3. core' = [core EXCEPT ![c].expected = TRUE]
  BY <1>2 DEF CrashDetected
<1>4. Alike(core[c], core'[c]) /\ \A d \in Core \ {c} : Same(d)
  BY <1>1, <1>3, ExpectedAlike DEF Same
<1>5. Sound(c)'
  <2>1. Sound(c) /\ Unborn(c) /\ Probe(c)
    BY DEF Inv, Sound
  <2> QED BY <1>1, <1>2, <1>4, <2>1, Ending DEF Alike, Flags, Unborn, Probe
<1>6. CASE UNCHANGED task
  <2>1. \A d \in Core : Keeps(d) /\ Sound(d)'
    BY <1>1, <1>2, <1>4, <1>5, <1>6, AlikeKeeps, SameKeeps, SameSound DEF Inv
  <2> QED BY <1>1, <1>6, <2>1, AllKept DEF Running
<1>7. CASE /\ ~TransitionPending
           /\ task' = [task EXCEPT !["transition"] = [Idle EXCEPT !.pc = "kill", !.target = previous]]
  <2>1. /\ task'["startup"] = task["startup"] /\ task'["transition"].pc = "kill"
        /\ task'["transition"].old = NoCore
    BY <1>7, TypeParts DEF TypeInv, Tasks, Task, Idle
  <2>2. \A d \in Core : Sound(d)'
    BY <1>1, <1>2, <1>4, <1>5, Untouched DEF Inv
  <2>3. Startup'
    BY <1>1, <1>2, <1>4, <2>1 DEF Inv, Startup, Starts, Alike, Flags, Alive
  <2>4. Children'
    BY <1>1, <2>1, StartupQuiet DEF Children, Task, AwaitsOwner
  <2>5. Locals' /\ InputRestored'
    BY <2>1 DEF Locals, UsesOld, HoldsOld, Activating, InputRestored, TransitionPending
  <2> QED BY <2>2, <2>3, <2>4, <2>5 DEF Inv
<1> QED BY <1>6, <1>7 DEF CrashDetected

LEMMA ShutdownStep ==
  ASSUME TypeInv, Inv, Shutdown
  PROVE  Inv'
<1>1. /\ core' = Kill(core, LiveChildren) /\ UNCHANGED <<current, routing>> /\ ~Running'
      /\ \A d \in Core : inbox'[d] = <<>> /\ events'[d] = <<>>
  BY DEF Shutdown, Running
<1>2. \A t \in Task : task'[t].pc = "done" /\ task'[t].old = NoCore
  BY DEF Shutdown, Idle
<1>3. ASSUME NEW d \in Core PROVE Sound(d)'
  <2>1. Sound(d) /\ Unborn(d) /\ Probe(d)' /\ Starting(d)
    BY <1>1, NoMsgs, KilledFields DEF Inv, Sound, Probe
  <2>2. CASE d \in LiveChildren
    BY <1>1, <2>1, <2>2, KilledFields, Ending
  <2>3. CASE d \notin LiveChildren
    <3>1. core'[d] = core[d] /\ core[d].life \in {"none", "dead"}
      BY <1>1, <2>3, KilledFields, Typed DEF LiveChildren, Unreaped, Core, NoCore, CoreRecord, Life
    <3>2. CASE core[d].life = "dead"
      BY <2>1, <3>1, <3>2, Ending DEF Unborn
    <3>3. CASE core[d].life = "none"
      BY <1>1, <2>1, <3>1, <3>3 DEF Sound, Unborn, Stranger, Probe, Starting, Draining, Drains,
         Holding, Reaches, InForce, Alive
    <3> QED BY <3>1, <3>2, <3>3
  <2> QED BY <2>2, <2>3
<1>4. Startup' /\ Children' /\ InputRestored'
  BY <1>1, <1>2 DEF Startup, Starts, Children, Task, AwaitsOwner, InputRestored
<1>5. Locals'
  BY <1>2 DEF Locals, Task, UsesOld, HoldsOld, Activating
<1> QED BY <1>3, <1>4, <1>5 DEF Inv

------------------------------------------------------------------------------
(* The messages of a core                                                   *)

\* What the supervisor notes of a message.
NotedOf(me, m, b, new) ==
    /\ Flags(me, new)
    /\ new.ready <=> me.ready \/ m \in {"ready", "failed"}
    /\ new.hasState <=> me.hasState \/ m \in {"ready", "handoff"}
    /\ new.error <=> me.error \/ m \in {"failed", "capture_failed"}
    /\ new.idle <=> me.idle \/ (m = "idle" /\ b)

LEMMA NotedFields ==
  ASSUME NEW me \in CoreRecord, NEW m, NEW b \in BOOLEAN
  PROVE  NotedOf(me, m, b, Noted(me, m, b))
  BY DEF NotedOf, Noted, Flags, CoreRecord

\* Reading the first message of a pipe.
LEMMA Heard ==
  ASSUME TypeInv, NEW c \in Core, Handle(c)
  PROVE  LET m == Head(events[c]) IN
         /\ m \in Message /\ m \in Msgs(events[c])
         /\ Msgs(events[c]) = {m} \cup Msgs(events'[c])
         /\ \A A, B : Apart(events[c], A, B) =>
              Apart(events'[c], A, B) /\ (m \in A => Msgs(events'[c]) \cap B = {})
         /\ NotedOf(core[c], m, c = current, core'[c])
         /\ \A d \in Core \ {c} : core'[d] = core[d] /\ events'[d] = events[d]
<1> DEFINE m == Head(events[c])
<1>1. events[c] \in Seq(Message) /\ events[c] # <<>> /\ core[c] \in CoreRecord
  BY Typed DEF Handle
<1>2. events'[c] = Tail(events[c]) /\ \A d \in Core \ {c} : events'[d] = events[d]
  BY Typed DEF Handle, Outboxes
<1>3. core'[c] = Noted(core[c], m, c = current) /\ \A d \in Core \ {c} : core'[d] = core[d]
  BY Typed DEF Handle, Cores
<1>4. NotedOf(core[c], m, c = current, core'[c])
  BY <1>1, <1>3, NotedFields
<1>5. m \in Message /\ Msgs(events[c]) = {m} \cup Msgs(events'[c])
  BY <1>1, <1>2, Read
<1>6. \A A, B : Apart(events[c], A, B) =>
        Apart(events'[c], A, B) /\ (m \in A => Msgs(events'[c]) \cap B = {})
  BY <1>1, <1>2, ApartRead
<1> QED BY <1>2, <1>3, <1>4, <1>5, <1>6

LEMMA HandleKeeps ==
  ASSUME TypeInv, Inv, NEW c \in Core, Handle(c),
         inbox'[c] = inbox[c] \/ ~(Msgs(events[c]) \subseteq Early)
  PROVE  Keeps(c)
<1> DEFINE m == Head(events[c])
<1>1. /\ m \in Msgs(events[c]) /\ Msgs(events'[c]) \subseteq Msgs(events[c])
      /\ NotedOf(core[c], m, c = current, core'[c])
  BY Heard
<1>2. core[c].kind = "probe" /\ core[c].hasState => m \notin {"failed", "capture_failed"}
  BY <1>1 DEF Inv, Sound, Probe
<1>3. Inert(c) /\ core'[c].life \in Alive => Inert(c)' /\ (core'[c].held <=> core[c].held)
  BY <1>1 DEF Inert, Passive, NotedOf, Flags
<1> HIDE DEF m
<1> QED BY <1>1, <1>2, <1>3 DEF Keeps, NotedOf, Flags

\* A message of a probe, or of a child that is not yet the current core.
LEMMA HandleOther ==
  ASSUME TypeInv, Inv, NEW c \in Core, Handle(c), c # current
  PROVE  Inv'
<1> DEFINE m == Head(events[c])
<1>1. /\ m \in Msgs(events[c]) /\ Msgs(events[c]) = {m} \cup Msgs(events'[c])
      /\ NotedOf(core[c], m, FALSE, core'[c])
      /\ \A d \in Core \ {c} : core'[d] = core[d] /\ events'[d] = events[d]
  BY Heard
<1>2. UNCHANGED <<inbox, routing, exitCode, task, current, previous, menu>> /\ CoreFrame
  BY DEF Handle, CoreFrame
<1> HIDE DEF m
<1>3. Unborn(c) /\ Stranger(c) /\ Probe(c)
  BY DEF Inv, Sound
<1>4. core[c].life # "none"
  BY <1>1, <1>3, NoMsgs DEF Unborn
<1>5. Unborn(c)'
  BY <1>1, <1>2, <1>3, <1>4 DEF Unborn, Inert, Passive, NotedOf, Flags
<1>6. Stranger(c)'
  BY <1>1, <1>2, <1>3 DEF Stranger, Blank, Inert, Passive, NotedOf, Flags
<1>7. Probe(c)'
  BY <1>1, <1>2, <1>3 DEF Probe, NotedOf, Flags
<1>8. Sound(c)'
  BY <1>2, <1>5, <1>6, <1>7 DEF Sound, Starting, Draining, Drains, Holding, Reaches, InForce
<1>9. Keeps(c)
  BY <1>2, HandleKeeps
<1> QED BY <1>1, <1>2, <1>8, <1>9, OneCore DEF Same

\* A message of the current core that starts no transition and resumes nothing.
LEMMA HeardSound ==
  ASSUME TypeInv, Inv, NEW c \in Core, c = current, Handle(c), NEW m, m = Head(events[c]),
         UNCHANGED task,
         inbox'[c] = inbox[c] \/ (m = "dispatch" /\ inbox'[c] = Append(inbox[c], "ack")),
         routing' => routing \/ m = "startup"
  PROVE  Sound(c)'
<1>1. /\ m \in Msgs(events[c]) /\ Msgs(events[c]) = {m} \cup Msgs(events'[c])
      /\ \A A, B : Apart(events[c], A, B) =>
           Apart(events'[c], A, B) /\ (m \in A => Msgs(events'[c]) \cap B = {})
      /\ NotedOf(core[c], m, TRUE, core'[c]) /\ UNCHANGED current
  BY Heard DEF Handle
<1>2. /\ Unborn(c) /\ Probe(c) /\ Starting(c) /\ Draining(c) /\ Drains(c) /\ Holding(c) /\ Reaches(c)
  BY DEF Inv, Sound
<1>3. Flags(core[c], core'[c])
  BY <1>1 DEF NotedOf
<1>4. Unborn(c)'
  <2>1. core'[c].life = "boot" => m = "startup" /\ inbox'[c] = inbox[c]
    BY <1>1, <1>2, <1>3 DEF Unborn, Flags
  <2> QED BY <1>1, <1>2, <1>3, <2>1 DEF Unborn, Starting, Inert, Passive, NotedOf, Flags
<1>5. Stranger(c)' /\ Probe(c)' /\ Starting(c)'
  BY <1>1, <1>2, <1>3 DEF Stranger, Probe, Starting, Flags
<1>6. CASE InForce(c)
  <2>1. /\ Holding(c)'
        /\ Thaws(c) => Thaws(c)'
        /\ Apart(inbox[c], {"drain"}, Orders) => Apart(inbox'[c], {"drain"}, Orders)
        /\ Msgs(inbox'[c]) \cup {"ack"} = Msgs(inbox[c]) \cup {"ack"} /\ "ack" \notin Orders
    <3>1. "ack" \notin Orders
      BY DEF Orders, Resumes
    <3>2. CASE inbox'[c] = inbox[c]
      BY <1>1, <1>2, <1>3, <3>1, <3>2 DEF Holding, Recovered, Passive, Thaws, InForce, Flags
    <3>3. CASE inbox'[c] = Append(inbox[c], "ack")
      BY <1>2, <1>3, <1>6, <3>1, <3>3, Appended
    <3> QED BY <3>2, <3>3
  <2>2. Drained(c) => Drained(c)'
    BY <1>3, <2>1 DEF Drained, Flags
  <2>3. (Owes(c)' => Owes(c)) /\ (Told(c)' => Told(c))
    BY <1>1, <1>3, <2>1 DEF Owes, Told, Flags, Orders
  <2>4. Draining(c)'
    BY <1>1, <1>2, <1>3, <1>6, <2>1, <2>2, <2>3 DEF Draining, Flags
  <2>5. Unasked(c) => Unasked(c)'
    BY <1>1, <1>3, <2>1, <2>3 DEF Unasked, Flags, Orders, Resumes
  <2>6. core'[c].idle /\ task["transition"].pc = "awaitIdle" => Drained(c) /\ ~Told(c)'
    <3>1. CASE m = "idle"
      BY <1>1, <1>2, <1>6, <3>1 DEF Draining, Told
    <3>2. CASE m # "idle"
      BY <1>1, <1>2, <1>6, <2>3, <3>2 DEF Drains, NotedOf
    <3> QED BY <3>1, <3>2
  <2>7. Drains(c)'
    BY <1>2, <1>6, <2>2, <2>3, <2>5, <2>6 DEF Drains
  <2>8. Reaches(c)'
    <3>1. CASE m = "startup"
      <4>1. Inert(c)
        BY <1>1, <1>2, <1>6, <3>1 DEF Starting, InForce, Alive, Inv, Startup, Starts
      <4> QED BY <2>1, <4>1 DEF Inert, Passive, Request, Thaws, Reaches
    <3>2. CASE m # "startup"
      BY <1>2, <1>6, <2>1, <3>2 DEF Reaches
    <3> QED BY <3>1, <3>2
  <2> QED BY <1>4, <1>5, <2>1, <2>4, <2>7, <2>8 DEF Sound
<1>7. CASE ~InForce(c)
  BY <1>1, <1>3, <1>4, <1>5, <1>7 DEF Sound, Draining, Drains, Holding, Reaches, InForce, Flags
<1> QED BY <1>6, <1>7

\* A core that asks for something has told of its idleness, if at all, before.
LEMMA Asking ==
  ASSUME TypeInv, Inv, NEW c \in Core, c = current, Handle(c), InForce(c),
         Head(events[c]) \in Request, task["transition"].pc = "done"
  PROVE  ~Owes(c) /\ ~Told(c)
<1> DEFINE m == Head(events[c])
<1>1. /\ m \in Msgs(events[c]) /\ Msgs(events[c]) = {m} \cup Msgs(events'[c])
      /\ \A A, B : Apart(events[c], A, B) => (m \in A => Msgs(events'[c]) \cap B = {})
  BY Heard
<1> HIDE DEF m
<1>2. Owes(c) \/ Told(c) => Unasked(c)
  BY DEF Inv, Sound, Drains
<1>3. Unasked(c) => ~Owes(c) /\ "idle" \notin Msgs(events'[c])
  BY <1>1 DEF Unasked, m
<1> QED BY <1>1, <1>2, <1>3 DEF Told, Request, m

\* Such a core has begun, and startup is over.
LEMMA Asks ==
  ASSUME TypeInv, Inv, NEW c \in Core, c = current, Handle(c), Head(events[c]) \in Request
  PROVE  /\ core[c].life \notin {"none", "boot"} /\ ~(Msgs(events[c]) \subseteq Early)
         /\ task["startup"].pc \notin Starts
<1>1. Head(events[c]) \in Msgs(events[c]) /\ Request \cap Early = {} /\ "startup" \notin Request
  BY Heard DEF Request, Early
<1> QED BY <1>1 DEF Inv, Sound, Unborn, Starting, Startup

LEMMA RequestStep ==
  ASSUME TypeInv, Inv, OwnInv, NEW c \in Core, c = current, Handle(c),
         Head(events[c]) \in Request, task["transition"].pc = "done",
         task'["startup"] = task["startup"], task'["transition"].pc \in {"validate", "drain"},
         task'["transition"].old = NoCore, UNCHANGED <<inbox, routing>>
  PROVE  Inv'
<1> DEFINE m == Head(events[c])
<1>1. /\ m \in Msgs(events[c]) /\ Msgs(events[c]) = {m} \cup Msgs(events'[c])
      /\ \A A, B : Apart(events[c], A, B) => Apart(events'[c], A, B)
      /\ NotedOf(core[c], m, TRUE, core'[c]) /\ UNCHANGED current
      /\ \A d \in Core \ {c} : Same(d)
  <2>1. /\ m \in Msgs(events[c]) /\ Msgs(events[c]) = {m} \cup Msgs(events'[c])
        /\ \A A, B : Apart(events[c], A, B) => Apart(events'[c], A, B)
        /\ NotedOf(core[c], m, TRUE, core'[c])
    BY Heard
  <2>2. \A d \in Core \ {c} : core'[d] = core[d] /\ events'[d] = events[d]
    BY Heard
  <2>3. UNCHANGED current
    BY DEF Handle
  <2> QED BY <2>1, <2>2, <2>3 DEF Same
<1> HIDE DEF m
<1>2. /\ core[c].life \notin {"none", "boot"} /\ task["startup"].pc \notin Starts
      /\ Flags(core[c], core'[c])
  BY <1>1, Asks DEF NotedOf
<1>3. Unborn(c) /\ Probe(c) /\ Starting(c) /\ Draining(c) /\ Holding(c) /\ Reaches(c)
  BY DEF Inv, Sound
<1>4. Unborn(c)' /\ Stranger(c)' /\ Probe(c)' /\ Starting(c)'
  BY <1>1, <1>2, <1>3 DEF Unborn, Stranger, Probe, Starting, Flags
<1>5. Draining(c)' /\ Drains(c)'
  <2>1. CASE InForce(c)
    <3>1. ~Owes(c) /\ ~Told(c)
      BY <2>1, Asking
    <3>2. ~Owes(c)' /\ ~Told(c)'
      BY <1>1, <1>2, <3>1 DEF Owes, Told, Flags
    <3> QED BY <1>1, <1>2, <1>3, <2>1, <3>2 DEF Draining, Drains, HoldsOld, Flags
  <2>2. CASE ~InForce(c)
    BY <1>1, <1>2, <2>2 DEF Draining, Drains, InForce, Flags
  <2> QED BY <2>1, <2>2
<1>6. Holding(c)' /\ Reaches(c)'
  BY <1>1, <1>2, <1>3 DEF Holding, Recovered, Passive, Reaches, Thaws, InForce, Flags
<1>7. \A d \in Core : Sound(d)'
  BY <1>1, <1>4, <1>5, <1>6, Untouched DEF Inv, Sound
<1>8. Startup' /\ Locals' /\ InputRestored'
  BY <1>2 DEF Startup, Starts, Locals, UsesOld, HoldsOld, RecoveryPC, Activating, InputRestored,
              TransitionPending
<1>9. Children'
  BY StartupQuiet DEF Children, Task, AwaitsOwner, Core, NoCore
<1> QED BY <1>7, <1>8, <1>9 DEF Inv

LEMMA ResumeQueueStep ==
  ASSUME TypeInv, Inv, NEW c \in Core, c = current, Handle(c), Head(events[c]) = "resume",
         task["transition"].pc = "done", Resume(c), UNCHANGED <<task, exitCode>>
  PROVE  Inv'
<1> DEFINE m == Head(events[c])
<1>1. /\ Msgs(events[c]) = {m} \cup Msgs(events'[c])
      /\ NotedOf(core[c], m, TRUE, core'[c]) /\ UNCHANGED current
      /\ \A d \in Core \ {c} : core'[d] = core[d] /\ events'[d] = events[d]
  BY Heard DEF Handle
<1>2. Flags(core[c], core'[c])
  BY <1>1 DEF NotedOf
<1> HIDE DEF m
<1>3. \A d \in Core \ {c} : Same(d)
  BY <1>1, Resumes1 DEF Same
<1>4. /\ core[c].life \notin {"none", "boot"} /\ ~(Msgs(events[c]) \subseteq Early)
  BY Asks DEF Request
<1>5. Unborn(c) /\ Probe(c) /\ Starting(c) /\ Holding(c) /\ Sound(c)
  BY DEF Inv, Sound
<1>6. Sound(c)'
  <2>1. CASE core[c].life \in Alive
    <3>1. InForce(c) /\ core[c].life = "up" /\ core[c].kind # "probe"
      BY <1>4, <1>5, <2>1 DEF InForce, Alive, Probe
    <3>2. ~Owes(c) /\ ~Told(c)
      BY <3>1, Asking DEF Request
    <3>3. inbox'[c] = Append(inbox[c], "continue") /\ inbox[c] \in Seq(Control)
      BY <2>1, Resumes1, Typed
    <3>4. "activate" \notin Msgs(inbox[c]) /\ (core[c].held => ~core[c].busy /\ core[c].draining)
      BY <1>5, <3>1, <3>2, <3>3, Unowed
    <3>5. Starting(c)'
      BY <1>1, <1>2, <1>5 DEF Starting, Flags
    <3> QED BY <1>1, <1>2, <3>1, <3>2, <3>3, <3>4, <3>5, Continues DEF HoldsOld
  <2>2. CASE core[c].life \notin Alive
    <3>1. core[c].life \in {"gone", "dead"}
      BY <1>4, <2>2, Typed DEF CoreRecord, Life, Alive
    <3> QED BY <1>1, <1>2, <1>5, <3>1, Ending DEF Unborn, Probe, Flags
  <2> QED BY <2>1, <2>2
<1>7. \A d \in Core : Keeps(d) /\ Sound(d)'
  BY <1>1, <1>3, <1>4, <1>6, HandleKeeps, SameKeeps, Untouched DEF Inv
<1> QED BY <1>1, <1>7, Resumes1, AllKept DEF Running

LEMMA HeardStep ==
  ASSUME TypeInv, Inv, NEW c \in Core, c = current, Handle(c), NEW m, m = Head(events[c]),
         UNCHANGED task, \A d \in Core \ {c} : inbox'[d] = inbox[d],
         inbox'[c] = inbox[c] \/ (m = "dispatch" /\ inbox'[c] = Append(inbox[c], "ack")),
         routing' <=> routing \/ m = "startup"
  PROVE  Inv'
<1>1. m \in Msgs(events[c]) /\ UNCHANGED current /\ Running
      /\ \A d \in Core \ {c} : Same(d)
  <2>1. m \in Msgs(events[c])
    BY Heard
  <2>2. \A d \in Core \ {c} : core'[d] = core[d] /\ events'[d] = events[d]
    BY Heard
  <2>3. UNCHANGED current /\ Running
    BY DEF Handle
  <2> QED BY <2>1, <2>2, <2>3 DEF Same
<1>2. m = "dispatch" => ~(Msgs(events[c]) \subseteq Early)
  BY <1>1 DEF Early
<1>3. Sound(c)'
  BY HeardSound
<1>4. \A d \in Core : Keeps(d) /\ Sound(d)'
  BY <1>1, <1>2, <1>3, HandleKeeps, SameKeeps, Untouched DEF Inv
<1> QED BY <1>1, <1>4, AllKept

LEMMA HandleStep ==
  ASSUME TypeInv, Inv, OwnInv, NEW c \in Core, Handle(c)
  PROVE  Inv'
<1>1. PICK m : m = Head(events[c])
  OBVIOUS
<1>2. CASE c # current
  BY <1>2, HandleOther
<1>3. CASE c = current /\ m = "resume" /\ ResumeQueue
  <2>1. CASE TransitionPending
    <3>1. UNCHANGED <<inbox, routing, task>>
      BY <1>3, <2>1 DEF ResumeQueue
    <3> QED BY <1>1, <1>3, <3>1, HeardStep
  <2>2. CASE ~TransitionPending
    <3>1. Resume(c) /\ UNCHANGED <<task, exitCode>> /\ task["transition"].pc = "done"
      BY <1>3, <2>2 DEF ResumeQueue, TransitionPending
    <3> QED BY <1>1, <1>3, <3>1, ResumeQueueStep
  <2> QED BY <2>1, <2>2
<1>4. CASE c = current /\ m # "resume" /\ RequestEvent(m)
  <2>1. routing' <=> routing \/ m = "startup"
    <3>1. routing' = (routing \/ m = "startup")
      BY <1>4 DEF RequestEvent
    <3> QED BY <3>1
  <2>2. /\ m # "dispatch" => UNCHANGED inbox
        /\ \A d \in Core \ {c} : inbox'[d] = inbox[d]
        /\ inbox'[c] = inbox[c] \/ (m = "dispatch" /\ inbox'[c] = Append(inbox[c], "ack"))
    <3>1. m # "dispatch" => UNCHANGED inbox
      BY <1>4 DEF RequestEvent
    <3>2. CASE m = "dispatch" /\ inbox' = Post(inbox, c, <<"ack">>)
      <4>1. "ack" \in Control
        BY DEF Control
      <4> QED BY <3>1, <3>2, <4>1, Posted
    <3>3. m = "dispatch" => inbox' = inbox \/ inbox' = Post(inbox, c, <<"ack">>)
      BY <1>4 DEF RequestEvent
    <3> QED BY <3>1, <3>2, <3>3
  <2>3. CASE UNCHANGED task
    BY <1>1, <1>4, <2>1, <2>2, <2>3, HeardStep
  <2>4. CASE task' # task
    <3>1. /\ ~TransitionPending /\ m \in {"update", "recover"}
          /\ m = "update" => task' = Goto("transition", "validate")
          /\ m = "recover" => \E r \in {previous, Initial} :
                 task' = [task EXCEPT !["transition"].pc = "drain", !["transition"].target = r]
      BY <1>4, <2>4 DEF RequestEvent
    <3>2. task["transition"].pc = "done" /\ task["transition"].old = NoCore /\ m \in Request
      BY <3>1 DEF TransitionPending, Inv, Locals, Request
    <3>3. /\ task'["startup"] = task["startup"] /\ task'["transition"].pc \in {"validate", "drain"}
          /\ task'["transition"].old = NoCore
      <4>1. CASE m = "update"
        BY <3>1, <3>2, <4>1, PlannedMove DEF PC
      <4>2. CASE m = "recover"
        BY <3>1, <3>2, <4>2, Typed DEF Tasks, TaskRecord, Task
      <4> QED BY <3>1, <4>1, <4>2
    <3>4. UNCHANGED <<inbox, routing>>
      <4>1. m \notin {"dispatch", "startup"}
        BY <3>1
      <4>2. UNCHANGED inbox
        BY <2>2, <4>1
      <4>3. routing \in BOOLEAN /\ routing' = (routing \/ m = "startup")
        BY <1>4, TypeParts DEF RequestEvent, TypeInv
      <4>4. (m = "startup") = FALSE
        BY <4>1
      <4>5. UNCHANGED routing
        BY <4>3, <4>4
      <4> QED BY <4>2, <4>5
    <3> QED BY <1>1, <1>4, <3>2, <3>3, <3>4, RequestStep
  <2> QED BY <2>3, <2>4
<1>5. c # current \/ (m = "resume" /\ ResumeQueue) \/ (m # "resume" /\ RequestEvent(m))
  BY <1>1, Zenon DEF Handle
<1> QED BY <1>2, <1>3, <1>4, <1>5

------------------------------------------------------------------------------
(* The invariant and what follows from it                                   *)

LEMMA PlannedSteps ==
  ASSUME TypeInv, Inv, OwnInv, TransitionStep
  PROVE  Inv'
  BY ValidateStep, DrainStep, IdleSeenStep, CaptureSeenStep, RecordStep, ProbeLaunchStep,
     ProbeReadyStep, RetireStep, ExitedStep, ReplaceStep, ReplaceReadyStep, ActivatedStep,
     RestartStep, RestartReadyStep, RejectedStep
     DEF TransitionStep

LEMMA StartupSteps ==
  ASSUME TypeInv, Inv, OwnInv, StartupStep
  PROVE  Inv'
  BY StartLaunchStep, StartReadyStep, StartedStep DEF StartupStep

LEMMA StepSound ==
  ASSUME MenuDuringStartup = FALSE
  PROVE  TypeInv /\ OwnInv /\ Inv /\ [Next]_vars => Inv'
<1> SUFFICES ASSUME TypeInv, OwnInv, Inv, [Next]_vars PROVE Inv'
  OBVIOUS
<1>1. CASE UNCHANGED vars
  <2>1. ASSUME NEW d \in Core PROVE Keeps(d) /\ Sound(d)'
    BY <1>1, SameKeeps, SameSound DEF Inv, Same, vars
  <2> QED BY <1>1, <2>1, AllKept DEF vars, Running
<1>2. CASE StartupStep \/ TransitionStep
  BY <1>2, StartupSteps, PlannedSteps
<1>3. CASE \E t \in Task : ForceStep(t)
  BY <1>3, ForceSteps
<1>4. CASE MenuStep
  <2>1. (OpenMenu \/ Escape \/ MenuQuit) \/ \E r \in {previous, Initial} : Emergency(r)
    BY <1>4 DEF MenuStep
  <2>2. CASE OpenMenu \/ Escape \/ MenuQuit
    BY <2>2, MenuOnlyStep
  <2>3. ASSUME NEW r \in {previous, Initial}, Emergency(r) PROVE Inv'
    BY <2>3, EmergencyStep, Zenon
  <2> QED BY <2>1, <2>2, <2>3
<1>5. CASE TypeInput \/ CrashDetected \/ Shutdown
  BY <1>5, TypeInputStep, CrashDetectedStep, ShutdownStep
<1>6. CASE \E c \in Core : Handle(c) \/ CoreStep(c)
  BY <1>6, HandleStep, CoreSound
<1> QED BY <1>1, <1>2, <1>3, <1>4, <1>5, <1>6 DEF Next

\* What the invariant says of a core that is captured and of one that is typed to.
LEMMA CaptureFollows ==
  ASSUME TypeInv, Inv
  PROVE  CaptureIsComplete
<1>1. CapturedCoreIsQuiet
  <2> SUFFICES ASSUME task["transition"].pc \in Captured, core[task["transition"].old].life = "up"
               PROVE  ~core[task["transition"].old].busy /\ core[task["transition"].old].draining
    BY DEF CapturedCoreIsQuiet
  <2>1. task["transition"].pc \in HoldsOld \ {"awaitIdle"}
    BY DEF Captured, HoldsOld
  <2>2. PICK c \in Core : c = current /\ task["transition"].old = c
    BY <2>1, PlannedOldCurrent DEF UsesOld
  <2> QED BY <2>1, <2>2 DEF Inv, Sound, Drains, InForce, Drained
<1>2. InputReachesCore
  BY ThawsEnough, TypeParts DEF TypeInv, InputReachesCore, Live, Inv, Sound, Reaches, InForce
<1> QED BY <1>1, <1>2 DEF CaptureIsComplete

\* What it says of the release that runs.
LEMMA ReleaseFollows ==
  ASSUME Inv
  PROVE  ReleaseIsTested
<1>1. ProbedBeforeActivation
  BY DEF ProbedBeforeActivation, Inv, Locals, Activating, Tested
<1>2. RejectedKeepsRelease
  BY DEF RejectedKeepsRelease, Inv, Locals
<1> QED BY <1>1, <1>2 DEF ReleaseIsTested

\* What it says of a recovered core.
LEMMA RecoveryFollows ==
  ASSUME TypeInv, Inv
  PROVE  RecoveryIsUsable
<1>1. ASSUME NEW c \in Core, core[c].held PROVE ~core[c].busy
  <2>1. Sound(c) /\ core[c].life \in Life
    BY Typed DEF Inv, CoreRecord
  <2>2. CASE core[c].life \in {"none", "boot", "gone", "dead"}
    BY <1>1, <2>1, <2>2 DEF Sound, Unborn, Absent, Inert, Passive
  <2>3. CASE core[c].life = "up"
    BY <1>1, <2>1, <2>3, CurrentOnly DEF Sound, Holding, InForce
  <2> QED BY <2>1, <2>2, <2>3 DEF Life
<1> QED BY <1>1 DEF RecoveryIsUsable, RecoveredQueueHeld, Inv

\* The invariant holds in every state the supervisor reaches.
LEMMA AlwaysSound ==
  ASSUME MenuDuringStartup = FALSE
  PROVE  Spec => [](TypeInv /\ Inv)
<1>1. TypeInv /\ OwnInv /\ [Next]_vars => OwnInv'
  BY StepOwn, Zenon
<1>2. TypeInv /\ OwnInv /\ Inv /\ [Next]_vars => Inv'
  BY StepSound, Zenon
<1> QED BY <1>1, <1>2, InitType, StepType, InitOwn, InitSound, PTL DEF Spec

\* What is captured from a core that is to be replaced is complete: from its
\* capture until it has gone or is resumed the core drains and runs nothing, and
\* nothing is typed into a core that is frozen (the order of drain, idle, capture
\* and routing in _drain, and of continue and routing in _resume), if the
\* recovery menu is used only after startup.
THEOREM CaptureComplete ==
  ASSUME MenuDuringStartup = FALSE
  PROVE  Spec => []CaptureIsComplete
<1>1. TypeInv /\ Inv => CaptureIsComplete
  BY CaptureFollows
<1>2. Spec => [](TypeInv /\ Inv)
  BY AlwaysSound, Zenon
<1> QED BY <1>1, <1>2, PTL

\* What runs after an update restored the session in a probe or is the release
\* that ran before, whatever step failed (_activate, _restart_previous and the
\* handlers of _candidate), if the recovery menu is used only after startup.
THEOREM ReleaseTested ==
  ASSUME MenuDuringStartup = FALSE
  PROVE  Spec => []ReleaseIsTested
<1>1. Inv => ReleaseIsTested
  BY ReleaseFollows
<1>2. Spec => [](TypeInv /\ Inv)
  BY AlwaysSound, Zenon
<1> QED BY <1>1, <1>2, PTL

\* Between transitions input is routed to the core that runs, and a recovered
\* core starts no work before it is told to continue (_resume in every way out
\* of a transition, and activate before drain in _restore_recovery), if the
\* recovery menu is used only after startup.
THEOREM RecoveryUsable ==
  ASSUME MenuDuringStartup = FALSE
  PROVE  Spec => []RecoveryIsUsable
<1>1. TypeInv /\ Inv => RecoveryIsUsable
  BY RecoveryFollows
<1>2. Spec => [](TypeInv /\ Inv)
  BY AlwaysSound, Zenon
<1> QED BY <1>1, <1>2, PTL
==============================================================================
