---------------------------- MODULE GoalLoopProofs ----------------------------
(* Proofs about goal mode and the calls it makes, for every amount of output, *)
(* every number of goals, requests and messages: a call is whole, and the goal *)
(* is ended by its judge alone and stored as it is.                            *)
EXTENDS GoalLoop, TLAPS

------------------------------------------------------------------------------
(* A command and who runs it                                                *)

\* The program begins when the loop starts it, and by the time the readers are
\* collected nobody of its group is left, but for those that could not be killed.
CommandInv ==
  /\ caller = "none" <=> loop = "none"
  /\ caller = "dead" <=> loop = "dead"
  /\ CallOver => loop = "done"
  /\ loop \in {"none", "start"} => leader = "none" /\ ~members /\ ~outsider /\ written = 0
  /\ loop \in {"read", "done"} => leader # "running" /\ (members => spared)
  /\ loop = "done" => spared \/ (~outsider /\ captured = written)
  /\ verdict = "exited" => leader = "exited"
  /\ verdict = "timedout" => late
  /\ caller = "result" => verdict \in {"exited", "timedout"}

\* A command that is under way has an owner; only the death of its owner breaks
\* it off.
Owned ==
  /\ caller \in {"joining", "interrupted"} => host = "command" \/ worker = "command"
  /\ loop = "dead" => severed
  /\ host = "command" => worker = "none" /\ kind = "command"
  /\ worker = "command" => kind = "plugin_command" /\ caller \notin {"none", "dead"}
  /\ severed => kind \in {"plugin_command", "command"} /\ worker \in {"gone", "none"}

\* What is known of a call before its worker has ended.
Fresh ==
  /\ host = "idle" => kind = "none" /\ caller = "none" /\ ~severed
  /\ host \in {"idle", "over"} => worker = "none"
  /\ host \in {"idle", "over", "command", "exchange"} => primary = "none"
  /\ host \in {"idle", "command", "exchange", "stop", "grace", "kill", "check"} =>
       answer = "none" /\ ~kept
  /\ host \in {"check", "return"} => ~Alive
  /\ host = "check" => kind = "conversation" /\ primary = "answered"
  /\ host = "return" /\ answer = "answered" /\ kind # "command" => primary = "answered"
  /\ kept <=> (answer = "answered" /\ kind = "conversation")

\* A worker that ends by itself with the code of success was not cancelled.
Meant ==
  /\ worker \in {"none", "boot", "read", "work", "close"} => ~cancelled
  /\ worker \notin {"leave", "gone"} => code = "none"
  /\ worker = "close" => kind = "conversation"
  /\ worker = "command" /\ cancelled => caller \in {"interrupted", "raised"}
  /\ code = "ok" => ~cancelled /\ ~severed /\ (kind = "plugin_command" => caller = "result")
  /\ primary = "answered" => worker = "gone" /\ code = "ok"

RequestInv == RequestTypeOK /\ CommandInv /\ Owned /\ Fresh /\ Meant

------------------------------------------------------------------------------
(* The loop                                                                 *)

\* The stages at which an answer is held, and those at which one is awaited.
Holding == {"look", "review", "judge", "rejudge", "complete", "incomplete", "finish"}
Awaiting == {"send", "end"}
Answering == Holding \cup Awaiting \cup {"failed", "resend", "continue", "again"}

\* The number of an answer is new when it comes, and it is neither shown nor
\* sent back before the loop has decided.
Answers ==
  /\ draft <= requests
  /\ rejected \subseteq 0..requests
  /\ turn \in Awaiting => requests \notin rejected
  /\ turn \in Holding => draft \notin rejected
  /\ \A n \in DOMAIN shown :
       /\ shown[n] \subseteq 0..requests
       /\ turn \in Awaiting => requests \notin shown[n]
       /\ turn \in Holding => draft \notin shown[n]
       /\ n > messages => shown[n] = {}
  /\ turn \in Answering => messages \in DOMAIN shown /\ shown[messages] = {}
  /\ turn = "complete" => reviewed \in judged

\* Where the threads stand.
Places ==
  /\ live <=> turn \in Awaiting
  /\ saving["turn"] # "none" => turn \in {"end", "after", "continue"}
  /\ saving["lane"] # "none" <=> lane = "save"

\* The goal was completed and its end is not saved yet.
Pending == turn = "after" \/ (turn = "finish" /\ reviewed \in completed)

\* At most one thread saves, and what it writes is the goal; a turn goes back to
\* the goal that was stored.
Stored ==
  /\ lane # "idle" => saving["turn"] = "none"
  /\ live /\ lane = "idle" => rollback = goal
  /\ lane = "idle" /\ ~Pending => saved = goal
  /\ lane = "idle" /\ ~Pending /\ saving["turn"] = "none" => memory = goal
  /\ \A t \in Thread :
       t = "turn" \/ ~Pending =>
         /\ saving[t] \in {"read", "cleared"} => seen[t] = goal
         /\ saving[t] = "done" => memory = goal

GoalInv == TypeOK /\ JudgeDecides /\ Answers /\ Places /\ (Up /\ ~raced => Stored)
Inv == RequestInv /\ GoalInv

------------------------------------------------------------------------------
(* Calls: one lemma per action, one step per part of the invariant.          *)

CallKeeps == UNCHANGED <<hostVars, workerVars, frames, severed>>

USE OutputAssumption, GoalAssumption
USE DEF commandVars, programVars, hostVars, workerVars, requestVars, Grouped, CallOver, Alive,
        CallKeeps

LEMMA FramesTyped ==
  ASSUME NEW s \in Seq(Frame)
  PROVE  /\ \A f \in Frame : Append(s, f) \in Seq(Frame)
         /\ s # <<>> => Head(s) \in Frame /\ Tail(s) \in Seq(Frame)
  OBVIOUS

LEMMA CallStutters == RequestInv /\ UNCHANGED requestVars => RequestInv'
  BY DEF RequestInv, RequestTypeOK, CommandTypeOK, CommandInv, Owned, Fresh, Meant

LEMMA RequestIsSound ==
  ASSUME RequestInv, NEW k \in {"chat", "conversation", "plugin_command"},
         Request(k), kind \in {"none", "chat"}
  PROVE  RequestInv'
<1>t. CommandTypeOK'
  <2>1. {members, outsider, spared, late}' \subseteq BOOLEAN
    BY DEF RequestInv, RequestTypeOK, CommandTypeOK, Request
  <2> QED BY <2>1 DEF RequestInv, RequestTypeOK, CommandTypeOK, Request
<1>u. {asked, sent, kept, cancelled, severed}' \subseteq BOOLEAN
  BY DEF RequestInv, RequestTypeOK, CommandTypeOK, Request
<1>1. RequestTypeOK'
  BY <1>t, <1>u DEF RequestInv, RequestTypeOK, CommandTypeOK, Request
<1>2. CommandInv'
  BY DEF RequestInv, RequestTypeOK, CommandTypeOK, CommandInv, Request
<1>3. Owned'
  BY DEF RequestInv, RequestTypeOK, CommandTypeOK, CommandInv, Owned, Fresh, Meant,
         Request
<1>4. Fresh'
  BY DEF RequestInv, RequestTypeOK, CommandTypeOK, Owned, Fresh, Meant, Request
<1>5. Meant'
  BY DEF RequestInv, RequestTypeOK, CommandTypeOK, CommandInv, Owned, Fresh, Meant,
         Request
<1> QED BY <1>1, <1>2, <1>3, <1>4, <1>5 DEF RequestInv

LEMMA RequestCommandIsSound ==
  ASSUME RequestInv, RequestCommand
  PROVE  RequestInv'
<1>1. RequestTypeOK'
  BY DEF RequestInv, RequestTypeOK, CommandTypeOK, RequestCommand, RunCommand
<1>2. CommandInv'
  BY DEF RequestInv, RequestTypeOK, CommandTypeOK, CommandInv, RequestCommand,
         RunCommand
<1>3. Owned'
  BY DEF RequestInv, RequestTypeOK, CommandTypeOK, CommandInv, Owned, Fresh, Meant,
         RequestCommand, RunCommand
<1>4. Fresh'
  BY DEF RequestInv, RequestTypeOK, CommandTypeOK, Owned, Fresh, Meant,
         RequestCommand, RunCommand
<1>5. Meant'
  BY DEF RequestInv, RequestTypeOK, CommandTypeOK, CommandInv, Owned, Fresh, Meant,
         RequestCommand, RunCommand
<1> QED BY <1>1, <1>2, <1>3, <1>4, <1>5 DEF RequestInv

LEMMA CancelIsSound ==
  ASSUME RequestInv, Cancel
  PROVE  RequestInv'
<1>1. RequestTypeOK'
  BY DEF RequestInv, RequestTypeOK, CommandTypeOK, Cancel
<1>2. CommandInv'
  BY DEF RequestInv, RequestTypeOK, CommandTypeOK, CommandInv, Cancel
<1>3. Owned'
  BY DEF RequestInv, RequestTypeOK, CommandTypeOK, CommandInv, Owned, Fresh, Meant,
         Cancel
<1>4. Fresh'
  BY DEF RequestInv, RequestTypeOK, CommandTypeOK, Owned, Fresh, Meant, Cancel
<1>5. Meant'
  BY DEF RequestInv, RequestTypeOK, CommandTypeOK, CommandInv, Owned, Fresh, Meant,
         Cancel
<1> QED BY <1>1, <1>2, <1>3, <1>4, <1>5 DEF RequestInv

LEMMA WriteInputIsSound ==
  ASSUME RequestInv, WriteInput
  PROVE  RequestInv'
<1>1. RequestTypeOK'
  BY DEF RequestInv, RequestTypeOK, CommandTypeOK, WriteInput
<1>2. CommandInv'
  BY DEF RequestInv, RequestTypeOK, CommandTypeOK, CommandInv, WriteInput
<1>3. Owned'
  BY DEF RequestInv, RequestTypeOK, CommandTypeOK, CommandInv, Owned, Fresh, Meant,
         WriteInput
<1>4. Fresh'
  BY DEF RequestInv, RequestTypeOK, CommandTypeOK, Owned, Fresh, Meant, WriteInput
<1>5. Meant'
  BY DEF RequestInv, RequestTypeOK, CommandTypeOK, CommandInv, Owned, Fresh, Meant,
         WriteInput
<1> QED BY <1>1, <1>2, <1>3, <1>4, <1>5 DEF RequestInv

LEMMA ReadFrameIsSound ==
  ASSUME RequestInv, ReadFrame
  PROVE  RequestInv'
<1>0. taken' \in Seq(Frame) /\ frames' \in Seq(Frame)
  BY FramesTyped DEF RequestInv, RequestTypeOK, ReadFrame
<1>1. RequestTypeOK'
  BY <1>0 DEF RequestInv, RequestTypeOK, CommandTypeOK, ReadFrame
<1>2. CommandInv'
  BY DEF RequestInv, RequestTypeOK, CommandTypeOK, CommandInv, ReadFrame
<1>3. Owned'
  BY DEF RequestInv, RequestTypeOK, CommandTypeOK, CommandInv, Owned, Fresh, Meant,
         ReadFrame
<1>4. Fresh'
  BY DEF RequestInv, RequestTypeOK, CommandTypeOK, Owned, Fresh, Meant, ReadFrame
<1>5. Meant'
  BY DEF RequestInv, RequestTypeOK, CommandTypeOK, CommandInv, Owned, Fresh, Meant,
         ReadFrame
<1> QED BY <1>1, <1>2, <1>3, <1>4, <1>5 DEF RequestInv

LEMMA ExchangeRaisesIsSound ==
  ASSUME RequestInv, ExchangeRaises
  PROVE  RequestInv'
<1>1. RequestTypeOK'
  BY DEF RequestInv, RequestTypeOK, CommandTypeOK, ExchangeRaises, LeaveExchange,
         Exchanged
<1>2. CommandInv'
  BY DEF RequestInv, RequestTypeOK, CommandTypeOK, CommandInv, ExchangeRaises,
         LeaveExchange, Exchanged
<1>3. Owned'
  BY DEF RequestInv, RequestTypeOK, CommandTypeOK, CommandInv, Owned, Fresh, Meant,
         ExchangeRaises, LeaveExchange, Exchanged
<1>4. Fresh'
  BY DEF RequestInv, RequestTypeOK, CommandTypeOK, Owned, Fresh, Meant,
         ExchangeRaises, LeaveExchange, Exchanged
<1>5. Meant'
  BY DEF RequestInv, RequestTypeOK, CommandTypeOK, CommandInv, Owned, Fresh, Meant,
         ExchangeRaises, LeaveExchange, Exchanged
<1> QED BY <1>1, <1>2, <1>3, <1>4, <1>5 DEF RequestInv

LEMMA ExchangeEndsIsSound ==
  ASSUME RequestInv, ExchangeEnds
  PROVE  RequestInv'
<1>1. RequestTypeOK'
  BY DEF RequestInv, RequestTypeOK, CommandTypeOK, ExchangeEnds, LeaveExchange,
         Exchanged, Complete
<1>2. CommandInv'
  BY DEF RequestInv, RequestTypeOK, CommandTypeOK, CommandInv, ExchangeEnds,
         LeaveExchange, Exchanged, Complete
<1>3. Owned'
  BY DEF RequestInv, RequestTypeOK, CommandTypeOK, CommandInv, Owned, Fresh, Meant,
         ExchangeEnds, LeaveExchange, Exchanged, Complete
<1>4. Fresh'
  BY DEF RequestInv, RequestTypeOK, CommandTypeOK, Owned, Fresh, Meant, ExchangeEnds,
         LeaveExchange, Exchanged, Complete
<1>5. Meant'
  BY DEF RequestInv, RequestTypeOK, CommandTypeOK, CommandInv, Owned, Fresh, Meant,
         ExchangeEnds, LeaveExchange, Exchanged, Complete
<1> QED BY <1>1, <1>2, <1>3, <1>4, <1>5 DEF RequestInv

LEMMA TerminateIsSound ==
  ASSUME RequestInv, Terminate
  PROVE  RequestInv'
<1>1. RequestTypeOK'
  BY DEF RequestInv, RequestTypeOK, CommandTypeOK, Terminate
<1>2. CommandInv'
  BY DEF RequestInv, RequestTypeOK, CommandTypeOK, CommandInv, Terminate
<1>3. Owned'
  BY DEF RequestInv, RequestTypeOK, CommandTypeOK, CommandInv, Owned, Fresh, Meant,
         Terminate
<1>4. Fresh'
  BY DEF RequestInv, RequestTypeOK, CommandTypeOK, Owned, Fresh, Meant, Terminate
<1>5. Meant'
  BY DEF RequestInv, RequestTypeOK, CommandTypeOK, CommandInv, Owned, Fresh, Meant,
         Terminate
<1> QED BY <1>1, <1>2, <1>3, <1>4, <1>5 DEF RequestInv

LEMMA GraceEndsIsSound ==
  ASSUME RequestInv, GraceEnds
  PROVE  RequestInv'
<1>1. RequestTypeOK'
  BY DEF RequestInv, RequestTypeOK, CommandTypeOK, GraceEnds
<1>2. CommandInv'
  BY DEF RequestInv, RequestTypeOK, CommandTypeOK, CommandInv, GraceEnds
<1>3. Owned'
  BY DEF RequestInv, RequestTypeOK, CommandTypeOK, CommandInv, Owned, Fresh, Meant,
         GraceEnds
<1>4. Fresh'
  BY DEF RequestInv, RequestTypeOK, CommandTypeOK, Owned, Fresh, Meant, GraceEnds
<1>5. Meant'
  BY DEF RequestInv, RequestTypeOK, CommandTypeOK, CommandInv, Owned, Fresh, Meant,
         GraceEnds
<1> QED BY <1>1, <1>2, <1>3, <1>4, <1>5 DEF RequestInv

LEMMA KillWorkerIsSound ==
  ASSUME RequestInv, KillWorker
  PROVE  RequestInv'
<1>t. CommandTypeOK'
  <2>1. {members, outsider, spared, late}' \subseteq BOOLEAN
    BY DEF RequestInv, RequestTypeOK, CommandTypeOK, KillWorker, WorkerDies, Abandoned
  <2> QED BY <2>1 DEF RequestInv, RequestTypeOK, CommandTypeOK, KillWorker, WorkerDies, Abandoned
<1>u. {asked, sent, kept, cancelled, severed}' \subseteq BOOLEAN
  BY DEF RequestInv, RequestTypeOK, CommandTypeOK, KillWorker, WorkerDies, Abandoned
<1>1. RequestTypeOK'
  BY <1>t, <1>u DEF RequestInv, RequestTypeOK, CommandTypeOK, KillWorker, WorkerDies,
         Abandoned
<1>2. CommandInv'
  BY DEF RequestInv, RequestTypeOK, CommandTypeOK, CommandInv, KillWorker, WorkerDies,
         Abandoned
<1>3. Owned'
  BY DEF RequestInv, RequestTypeOK, CommandTypeOK, CommandInv, Owned, Fresh, Meant,
         KillWorker, WorkerDies, Abandoned
<1>4. Fresh'
  BY DEF RequestInv, RequestTypeOK, CommandTypeOK, Owned, Fresh, Meant, KillWorker,
         WorkerDies, Abandoned
<1>5. Meant'
  BY DEF RequestInv, RequestTypeOK, CommandTypeOK, CommandInv, Owned, Fresh, Meant,
         KillWorker, WorkerDies, Abandoned
<1> QED BY <1>1, <1>2, <1>3, <1>4, <1>5 DEF RequestInv

LEMMA KeepSnapshotIsSound ==
  ASSUME RequestInv, KeepSnapshot
  PROVE  RequestInv'
<1>k. kept' \in BOOLEAN /\ (kept' <=> answer' = "answered" /\ kind = "conversation")
  <2>1. asked \in BOOLEAN /\ kept = FALSE /\ kind = "conversation"
    BY DEF RequestInv, RequestTypeOK, Fresh, KeepSnapshot
  <2>2. CASE kept' = ~asked /\ answer' = IF asked THEN "cancelled" ELSE "answered"
    <3>1. CASE asked = TRUE
      BY <2>1, <2>2, <3>1
    <3>2. CASE asked = FALSE
      BY <2>1, <2>2, <3>2
    <3> QED BY <2>1, <3>1, <3>2
  <2>3. CASE kept' = kept /\ answer' = "failed"
    BY <2>1, <2>3
  <2> QED BY <2>2, <2>3 DEF KeepSnapshot
<1>u. {asked, sent, kept, cancelled, severed}' \subseteq BOOLEAN
  BY <1>k DEF RequestInv, RequestTypeOK, KeepSnapshot
<1>1. RequestTypeOK'
  BY <1>u DEF RequestInv, RequestTypeOK, CommandTypeOK, KeepSnapshot
<1>2. CommandInv'
  BY DEF RequestInv, RequestTypeOK, CommandTypeOK, CommandInv, KeepSnapshot
<1>3. Owned'
  BY DEF RequestInv, RequestTypeOK, CommandTypeOK, CommandInv, Owned, Fresh, Meant,
         KeepSnapshot
<1>4. Fresh'
  BY <1>k DEF RequestInv, RequestTypeOK, CommandTypeOK, Owned, Fresh, Meant, KeepSnapshot
<1>5. Meant'
  BY DEF RequestInv, RequestTypeOK, CommandTypeOK, CommandInv, Owned, Fresh, Meant,
         KeepSnapshot
<1> QED BY <1>1, <1>2, <1>3, <1>4, <1>5 DEF RequestInv

LEMMA CommandReturnsIsSound ==
  ASSUME RequestInv, CommandReturns
  PROVE  RequestInv'
<1>1. RequestTypeOK'
  BY DEF RequestInv, RequestTypeOK, CommandTypeOK, CommandReturns
<1>2. CommandInv'
  BY DEF RequestInv, RequestTypeOK, CommandTypeOK, CommandInv, CommandReturns
<1>3. Owned'
  BY DEF RequestInv, RequestTypeOK, CommandTypeOK, CommandInv, Owned, Fresh, Meant,
         CommandReturns
<1>4. Fresh'
  BY DEF RequestInv, RequestTypeOK, CommandTypeOK, Owned, Fresh, Meant, CommandReturns
<1>5. Meant'
  BY DEF RequestInv, RequestTypeOK, CommandTypeOK, CommandInv, Owned, Fresh, Meant,
         CommandReturns
<1> QED BY <1>1, <1>2, <1>3, <1>4, <1>5 DEF RequestInv

LEMMA ReturnIsSound ==
  ASSUME RequestInv, Return
  PROVE  RequestInv'
<1>t. CommandTypeOK'
  <2>1. {members, outsider, spared, late}' \subseteq BOOLEAN
    BY DEF RequestInv, RequestTypeOK, CommandTypeOK, Return
  <2> QED BY <2>1 DEF RequestInv, RequestTypeOK, CommandTypeOK, Return
<1>u. {asked, sent, kept, cancelled, severed}' \subseteq BOOLEAN
  BY DEF RequestInv, RequestTypeOK, CommandTypeOK, Return
<1>1. RequestTypeOK'
  BY <1>t, <1>u DEF RequestInv, RequestTypeOK, CommandTypeOK, Return
<1>2. CommandInv'
  BY DEF RequestInv, RequestTypeOK, CommandTypeOK, CommandInv, Return
<1>3. Owned'
  BY DEF RequestInv, RequestTypeOK, CommandTypeOK, CommandInv, Owned, Fresh, Meant,
         Return
<1>4. Fresh'
  BY DEF RequestInv, RequestTypeOK, CommandTypeOK, Owned, Fresh, Meant, Return
<1>5. Meant'
  BY DEF RequestInv, RequestTypeOK, CommandTypeOK, CommandInv, Owned, Fresh, Meant,
         Return
<1> QED BY <1>1, <1>2, <1>3, <1>4, <1>5 DEF RequestInv

LEMMA HostDiesIsSound ==
  ASSUME RequestInv, HostDies
  PROVE  RequestInv'
<1>1. RequestTypeOK'
  BY DEF RequestInv, RequestTypeOK, CommandTypeOK, HostDies, Abandoned
<1>2. CommandInv'
  BY DEF RequestInv, RequestTypeOK, CommandTypeOK, CommandInv, HostDies, Abandoned
<1>3. Owned'
  <2>1. CASE host = "command"
    BY <2>1 DEF RequestInv, CommandInv, Owned, HostDies, Abandoned
  <2>2. CASE host # "command"
    BY <2>2 DEF RequestInv, Owned, Fresh, Meant, HostDies, Abandoned
  <2> QED BY <2>1, <2>2
<1>4. Fresh'
  BY DEF RequestInv, RequestTypeOK, CommandTypeOK, Owned, Fresh, Meant, HostDies,
         Abandoned
<1>5. Meant'
  BY DEF RequestInv, RequestTypeOK, CommandTypeOK, CommandInv, Owned, Fresh, Meant,
         HostDies, Abandoned
<1> QED BY <1>1, <1>2, <1>3, <1>4, <1>5 DEF RequestInv

LEMMA BootIsSound ==
  ASSUME RequestInv, Boot
  PROVE  RequestInv'
<1>1. RequestTypeOK'
  BY DEF RequestInv, RequestTypeOK, CommandTypeOK, Boot
<1>2. CommandInv'
  BY DEF RequestInv, RequestTypeOK, CommandTypeOK, CommandInv, Boot
<1>3. Owned'
  BY DEF RequestInv, RequestTypeOK, CommandTypeOK, CommandInv, Owned, Fresh, Meant,
         Boot
<1>4. Fresh'
  BY DEF RequestInv, RequestTypeOK, CommandTypeOK, Owned, Fresh, Meant, Boot
<1>5. Meant'
  BY DEF RequestInv, RequestTypeOK, CommandTypeOK, CommandInv, Owned, Fresh, Meant,
         Boot
<1> QED BY <1>1, <1>2, <1>3, <1>4, <1>5 DEF RequestInv

LEMMA ReadRequestIsSound ==
  ASSUME RequestInv, ReadRequest
  PROVE  RequestInv'
<1>0. taken' \in Seq(Frame) /\ frames' \in Seq(Frame)
  BY FramesTyped DEF RequestInv, RequestTypeOK, ReadRequest, Frame
<1>1. RequestTypeOK'
  BY <1>0 DEF RequestInv, RequestTypeOK, CommandTypeOK, ReadRequest
<1>2. CommandInv'
  BY DEF RequestInv, RequestTypeOK, CommandTypeOK, CommandInv, ReadRequest
<1>3. Owned'
  BY DEF RequestInv, RequestTypeOK, CommandTypeOK, CommandInv, Owned, Fresh, Meant,
         ReadRequest
<1>4. Fresh'
  BY DEF RequestInv, RequestTypeOK, CommandTypeOK, Owned, Fresh, Meant, ReadRequest
<1>5. Meant'
  BY DEF RequestInv, RequestTypeOK, CommandTypeOK, CommandInv, Owned, Fresh, Meant,
         ReadRequest
<1> QED BY <1>1, <1>2, <1>3, <1>4, <1>5 DEF RequestInv

LEMMA SayFinalIsSound ==
  ASSUME RequestInv, SayFinal
  PROVE  RequestInv'
<1>0. taken' \in Seq(Frame) /\ frames' \in Seq(Frame)
  BY FramesTyped DEF RequestInv, RequestTypeOK, SayFinal, Says, Frame
<1>1. RequestTypeOK'
  BY <1>0 DEF RequestInv, RequestTypeOK, CommandTypeOK, SayFinal, Says
<1>2. CommandInv'
  BY DEF RequestInv, RequestTypeOK, CommandTypeOK, CommandInv, SayFinal, Says
<1>3. Owned'
  BY DEF RequestInv, RequestTypeOK, CommandTypeOK, CommandInv, Owned, Fresh, Meant,
         SayFinal, Says
<1>4. Fresh'
  BY DEF RequestInv, RequestTypeOK, CommandTypeOK, Owned, Fresh, Meant, SayFinal, Says
<1>5. Meant'
  BY DEF RequestInv, RequestTypeOK, CommandTypeOK, CommandInv, Owned, Fresh, Meant,
         SayFinal, Says
<1> QED BY <1>1, <1>2, <1>3, <1>4, <1>5 DEF RequestInv

LEMMA SayErrorIsSound ==
  ASSUME RequestInv, SayError
  PROVE  RequestInv'
<1>0. taken' \in Seq(Frame) /\ frames' \in Seq(Frame)
  BY FramesTyped DEF RequestInv, RequestTypeOK, SayError, Says, Frame
<1>1. RequestTypeOK'
  BY <1>0 DEF RequestInv, RequestTypeOK, CommandTypeOK, SayError, Says
<1>2. CommandInv'
  BY DEF RequestInv, RequestTypeOK, CommandTypeOK, CommandInv, SayError, Says
<1>3. Owned'
  BY DEF RequestInv, RequestTypeOK, CommandTypeOK, CommandInv, Owned, Fresh, Meant,
         SayError, Says
<1>4. Fresh'
  BY DEF RequestInv, RequestTypeOK, CommandTypeOK, Owned, Fresh, Meant, SayError, Says
<1>5. Meant'
  BY DEF RequestInv, RequestTypeOK, CommandTypeOK, CommandInv, Owned, Fresh, Meant,
         SayError, Says
<1> QED BY <1>1, <1>2, <1>3, <1>4, <1>5 DEF RequestInv

LEMMA ExportSnapshotIsSound ==
  ASSUME RequestInv, ExportSnapshot
  PROVE  RequestInv'
<1>0. taken' \in Seq(Frame) /\ frames' \in Seq(Frame)
  BY FramesTyped DEF RequestInv, RequestTypeOK, ExportSnapshot, Says, Frame
<1>1. RequestTypeOK'
  BY <1>0 DEF RequestInv, RequestTypeOK, CommandTypeOK, ExportSnapshot, Says
<1>2. CommandInv'
  BY DEF RequestInv, RequestTypeOK, CommandTypeOK, CommandInv, ExportSnapshot, Says
<1>3. Owned'
  BY DEF RequestInv, RequestTypeOK, CommandTypeOK, CommandInv, Owned, Fresh, Meant,
         ExportSnapshot, Says
<1>4. Fresh'
  BY DEF RequestInv, RequestTypeOK, CommandTypeOK, Owned, Fresh, Meant,
         ExportSnapshot, Says
<1>5. Meant'
  BY DEF RequestInv, RequestTypeOK, CommandTypeOK, CommandInv, Owned, Fresh, Meant,
         ExportSnapshot, Says
<1> QED BY <1>1, <1>2, <1>3, <1>4, <1>5 DEF RequestInv

LEMMA PluginCommandIsSound ==
  ASSUME RequestInv, PluginCommand
  PROVE  RequestInv'
<1>1. RequestTypeOK'
  BY DEF RequestInv, RequestTypeOK, CommandTypeOK, PluginCommand, RunCommand
<1>2. CommandInv'
  BY DEF RequestInv, RequestTypeOK, CommandTypeOK, CommandInv, PluginCommand,
         RunCommand
<1>3. Owned'
  BY DEF RequestInv, RequestTypeOK, CommandTypeOK, CommandInv, Owned, Fresh, Meant,
         PluginCommand, RunCommand
<1>4. Fresh'
  BY DEF RequestInv, RequestTypeOK, CommandTypeOK, Owned, Fresh, Meant, PluginCommand,
         RunCommand
<1>5. Meant'
  BY DEF RequestInv, RequestTypeOK, CommandTypeOK, CommandInv, Owned, Fresh, Meant,
         PluginCommand, RunCommand
<1> QED BY <1>1, <1>2, <1>3, <1>4, <1>5 DEF RequestInv

LEMMA HandleSignalIsSound ==
  ASSUME RequestInv, HandleSignal
  PROVE  RequestInv'
<1>1. RequestTypeOK'
  BY DEF RequestInv, RequestTypeOK, CommandTypeOK, HandleSignal, Interrupt
<1>2. CommandInv'
  BY DEF RequestInv, RequestTypeOK, CommandTypeOK, CommandInv, HandleSignal, Interrupt
<1>3. Owned'
  BY DEF RequestInv, RequestTypeOK, CommandTypeOK, CommandInv, Owned, Fresh, Meant,
         HandleSignal, Interrupt
<1>4. Fresh'
  BY DEF RequestInv, RequestTypeOK, CommandTypeOK, Owned, Fresh, Meant, HandleSignal,
         Interrupt
<1>5. Meant'
  BY DEF RequestInv, RequestTypeOK, CommandTypeOK, CommandInv, Owned, Fresh, Meant,
         HandleSignal, Interrupt
<1> QED BY <1>1, <1>2, <1>3, <1>4, <1>5 DEF RequestInv

LEMMA UnwindIsSound ==
  ASSUME RequestInv, Unwind
  PROVE  RequestInv'
<1>1. RequestTypeOK'
  BY DEF RequestInv, RequestTypeOK, CommandTypeOK, Unwind
<1>2. CommandInv'
  BY DEF RequestInv, RequestTypeOK, CommandTypeOK, CommandInv, Unwind
<1>3. Owned'
  BY DEF RequestInv, RequestTypeOK, CommandTypeOK, CommandInv, Owned, Fresh, Meant,
         Unwind
<1>4. Fresh'
  BY DEF RequestInv, RequestTypeOK, CommandTypeOK, Owned, Fresh, Meant, Unwind
<1>5. Meant'
  BY DEF RequestInv, RequestTypeOK, CommandTypeOK, CommandInv, Owned, Fresh, Meant,
         Unwind
<1> QED BY <1>1, <1>2, <1>3, <1>4, <1>5 DEF RequestInv

LEMMA ExitIsSound ==
  ASSUME RequestInv, Exit
  PROVE  RequestInv'
<1>1. RequestTypeOK'
  BY DEF RequestInv, RequestTypeOK, CommandTypeOK, Exit
<1>2. CommandInv'
  BY DEF RequestInv, RequestTypeOK, CommandTypeOK, CommandInv, Exit
<1>3. Owned'
  BY DEF RequestInv, RequestTypeOK, CommandTypeOK, CommandInv, Owned, Fresh, Meant,
         Exit
<1>4. Fresh'
  BY DEF RequestInv, RequestTypeOK, CommandTypeOK, Owned, Fresh, Meant, Exit
<1>5. Meant'
  BY DEF RequestInv, RequestTypeOK, CommandTypeOK, CommandInv, Owned, Fresh, Meant,
         Exit
<1> QED BY <1>1, <1>2, <1>3, <1>4, <1>5 DEF RequestInv

LEMMA CrashIsSound ==
  ASSUME RequestInv, Crash
  PROVE  RequestInv'
<1>1. RequestTypeOK'
  BY DEF RequestInv, RequestTypeOK, CommandTypeOK, Crash, WorkerDies, Abandoned
<1>2. CommandInv'
  BY DEF RequestInv, RequestTypeOK, CommandTypeOK, CommandInv, Crash, WorkerDies,
         Abandoned
<1>3. Owned'
  BY DEF RequestInv, RequestTypeOK, CommandTypeOK, CommandInv, Owned, Fresh, Meant,
         Crash, WorkerDies, Abandoned
<1>4. Fresh'
  BY DEF RequestInv, RequestTypeOK, CommandTypeOK, Owned, Fresh, Meant, Crash,
         WorkerDies, Abandoned
<1>5. Meant'
  BY DEF RequestInv, RequestTypeOK, CommandTypeOK, CommandInv, Owned, Fresh, Meant,
         Crash, WorkerDies, Abandoned
<1> QED BY <1>1, <1>2, <1>3, <1>4, <1>5 DEF RequestInv

LEMMA ParentExitedIsSound ==
  ASSUME RequestInv, ParentExited
  PROVE  RequestInv'
<1>1. RequestTypeOK'
  BY DEF RequestInv, RequestTypeOK, CommandTypeOK, ParentExited
<1>2. CommandInv'
  BY DEF RequestInv, RequestTypeOK, CommandTypeOK, CommandInv, ParentExited
<1>3. Owned'
  BY DEF RequestInv, RequestTypeOK, CommandTypeOK, CommandInv, Owned, Fresh, Meant,
         ParentExited
<1>4. Fresh'
  BY DEF RequestInv, RequestTypeOK, CommandTypeOK, Owned, Fresh, Meant, ParentExited
<1>5. Meant'
  BY DEF RequestInv, RequestTypeOK, CommandTypeOK, CommandInv, Owned, Fresh, Meant,
         ParentExited
<1> QED BY <1>1, <1>2, <1>3, <1>4, <1>5 DEF RequestInv

LEMMA ExitByWatcherIsSound ==
  ASSUME RequestInv, ExitByWatcher
  PROVE  RequestInv'
<1>1. RequestTypeOK'
  BY DEF RequestInv, RequestTypeOK, CommandTypeOK, ExitByWatcher, WorkerDies,
         Abandoned
<1>2. CommandInv'
  BY DEF RequestInv, RequestTypeOK, CommandTypeOK, CommandInv, ExitByWatcher,
         WorkerDies, Abandoned
<1>3. Owned'
  BY DEF RequestInv, RequestTypeOK, CommandTypeOK, CommandInv, Owned, Fresh, Meant,
         ExitByWatcher, WorkerDies, Abandoned
<1>4. Fresh'
  BY DEF RequestInv, RequestTypeOK, CommandTypeOK, Owned, Fresh, Meant, ExitByWatcher,
         WorkerDies, Abandoned
<1>5. Meant'
  BY DEF RequestInv, RequestTypeOK, CommandTypeOK, CommandInv, Owned, Fresh, Meant,
         ExitByWatcher, WorkerDies, Abandoned
<1> QED BY <1>1, <1>2, <1>3, <1>4, <1>5 DEF RequestInv

LEMMA SpawnIsSound ==
  ASSUME RequestInv, RunsCommand, SpawnCommand, CallKeeps
  PROVE  RequestInv'
<1>1. RequestTypeOK'
  BY DEF RequestInv, RequestTypeOK, CommandTypeOK, RunsCommand, SpawnCommand
<1>2. CommandInv'
  BY DEF RequestInv, RequestTypeOK, CommandTypeOK, CommandInv, RunsCommand,
         SpawnCommand
<1>3. Owned'
  BY DEF RequestInv, RequestTypeOK, CommandTypeOK, CommandInv, Owned, Fresh, Meant,
         RunsCommand, SpawnCommand
<1>4. Fresh'
  BY DEF RequestInv, RequestTypeOK, CommandTypeOK, Owned, Fresh, Meant, RunsCommand,
         SpawnCommand
<1>5. Meant'
  BY DEF RequestInv, RequestTypeOK, CommandTypeOK, CommandInv, Owned, Fresh, Meant,
         RunsCommand, SpawnCommand
<1> QED BY <1>1, <1>2, <1>3, <1>4, <1>5 DEF RequestInv

LEMMA PollIsSound ==
  ASSUME RequestInv, RunsCommand, Poll(CheckRaises), CallKeeps
  PROVE  RequestInv'
<1>1. RequestTypeOK'
  BY DEF RequestInv, RequestTypeOK, CommandTypeOK, RunsCommand, Poll, Stopped
<1>2. CommandInv'
  BY DEF RequestInv, RequestTypeOK, CommandTypeOK, CommandInv, RunsCommand, Poll,
         Stopped
<1>3. Owned'
  BY DEF RequestInv, RequestTypeOK, CommandTypeOK, CommandInv, Owned, Fresh, Meant,
         RunsCommand, Poll, Stopped
<1>4. Fresh'
  BY DEF RequestInv, RequestTypeOK, CommandTypeOK, Owned, Fresh, Meant, RunsCommand,
         Poll, Stopped
<1>5. Meant'
  BY DEF RequestInv, RequestTypeOK, CommandTypeOK, CommandInv, Owned, Fresh, Meant,
         RunsCommand, Poll, Stopped
<1> QED BY <1>1, <1>2, <1>3, <1>4, <1>5 DEF RequestInv

LEMMA KillGroupIsSound ==
  ASSUME RequestInv, RunsCommand, KillGroup, CallKeeps
  PROVE  RequestInv'
<1>t. CommandTypeOK'
  <2>1. {members, outsider, spared, late}' \subseteq BOOLEAN
    BY DEF RequestInv, RequestTypeOK, CommandTypeOK, RunsCommand, KillGroup
  <2> QED BY <2>1 DEF RequestInv, RequestTypeOK, CommandTypeOK, RunsCommand, KillGroup
<1>u. {asked, sent, kept, cancelled, severed}' \subseteq BOOLEAN
  BY DEF RequestInv, RequestTypeOK, CommandTypeOK, RunsCommand, KillGroup
<1>1. RequestTypeOK'
  BY <1>t, <1>u DEF RequestInv, RequestTypeOK, CommandTypeOK, RunsCommand, KillGroup
<1>2. CommandInv'
  BY DEF RequestInv, RequestTypeOK, CommandTypeOK, CommandInv, RunsCommand, KillGroup
<1>3. Owned'
  BY DEF RequestInv, RequestTypeOK, CommandTypeOK, CommandInv, Owned, Fresh, Meant,
         RunsCommand, KillGroup
<1>4. Fresh'
  BY DEF RequestInv, RequestTypeOK, CommandTypeOK, Owned, Fresh, Meant, RunsCommand,
         KillGroup
<1>5. Meant'
  BY DEF RequestInv, RequestTypeOK, CommandTypeOK, CommandInv, Owned, Fresh, Meant,
         RunsCommand, KillGroup
<1> QED BY <1>1, <1>2, <1>3, <1>4, <1>5 DEF RequestInv

LEMMA DrainIsSound ==
  ASSUME RequestInv, RunsCommand, DrainStream, CallKeeps
  PROVE  RequestInv'
<1>1. RequestTypeOK'
  BY DEF RequestInv, RequestTypeOK, CommandTypeOK, RunsCommand, DrainStream
<1>2. CommandInv'
  BY DEF RequestInv, RequestTypeOK, CommandTypeOK, CommandInv, RunsCommand,
         DrainStream
<1>3. Owned'
  BY DEF RequestInv, RequestTypeOK, CommandTypeOK, CommandInv, Owned, Fresh, Meant,
         RunsCommand, DrainStream
<1>4. Fresh'
  BY DEF RequestInv, RequestTypeOK, CommandTypeOK, Owned, Fresh, Meant, RunsCommand,
         DrainStream
<1>5. Meant'
  BY DEF RequestInv, RequestTypeOK, CommandTypeOK, CommandInv, Owned, Fresh, Meant,
         RunsCommand, DrainStream
<1> QED BY <1>1, <1>2, <1>3, <1>4, <1>5 DEF RequestInv

LEMMA CollectIsSound ==
  ASSUME RequestInv, RunsCommand, CollectReaders, CallKeeps
  PROVE  RequestInv'
<1>1. RequestTypeOK'
  BY DEF RequestInv, RequestTypeOK, CommandTypeOK, RunsCommand, CollectReaders
<1>2. CommandInv'
  BY DEF RequestInv, RequestTypeOK, CommandTypeOK, CommandInv, RunsCommand,
         CollectReaders
<1>3. Owned'
  BY DEF RequestInv, RequestTypeOK, CommandTypeOK, CommandInv, Owned, Fresh, Meant,
         RunsCommand, CollectReaders
<1>4. Fresh'
  BY DEF RequestInv, RequestTypeOK, CommandTypeOK, Owned, Fresh, Meant, RunsCommand,
         CollectReaders
<1>5. Meant'
  BY DEF RequestInv, RequestTypeOK, CommandTypeOK, CommandInv, Owned, Fresh, Meant,
         RunsCommand, CollectReaders
<1> QED BY <1>1, <1>2, <1>3, <1>4, <1>5 DEF RequestInv

LEMMA DeadlineIsSound ==
  ASSUME RequestInv, RunsCommand, DeadlinePasses, CallKeeps
  PROVE  RequestInv'
<1>1. RequestTypeOK'
  BY DEF RequestInv, RequestTypeOK, CommandTypeOK, RunsCommand, DeadlinePasses
<1>2. CommandInv'
  BY DEF RequestInv, RequestTypeOK, CommandTypeOK, CommandInv, RunsCommand,
         DeadlinePasses
<1>3. Owned'
  BY DEF RequestInv, RequestTypeOK, CommandTypeOK, CommandInv, Owned, Fresh, Meant,
         RunsCommand, DeadlinePasses
<1>4. Fresh'
  BY DEF RequestInv, RequestTypeOK, CommandTypeOK, Owned, Fresh, Meant, RunsCommand,
         DeadlinePasses
<1>5. Meant'
  BY DEF RequestInv, RequestTypeOK, CommandTypeOK, CommandInv, Owned, Fresh, Meant,
         RunsCommand, DeadlinePasses
<1> QED BY <1>1, <1>2, <1>3, <1>4, <1>5 DEF RequestInv

LEMMA JoinIsSound ==
  ASSUME RequestInv, RunsCommand, JoinCommand, CallKeeps
  PROVE  RequestInv'
<1>1. RequestTypeOK'
  BY DEF RequestInv, RequestTypeOK, CommandTypeOK, RunsCommand, JoinCommand
<1>2. CommandInv'
  BY DEF RequestInv, RequestTypeOK, CommandTypeOK, CommandInv, RunsCommand,
         JoinCommand
<1>3. Owned'
  BY DEF RequestInv, RequestTypeOK, CommandTypeOK, CommandInv, Owned, Fresh, Meant,
         RunsCommand, JoinCommand
<1>4. Fresh'
  BY DEF RequestInv, RequestTypeOK, CommandTypeOK, Owned, Fresh, Meant, RunsCommand,
         JoinCommand
<1>5. Meant'
  BY DEF RequestInv, RequestTypeOK, CommandTypeOK, CommandInv, Owned, Fresh, Meant,
         RunsCommand, JoinCommand
<1> QED BY <1>1, <1>2, <1>3, <1>4, <1>5 DEF RequestInv

LEMMA ForksIsSound ==
  ASSUME RequestInv, Forks, CallKeeps
  PROVE  RequestInv'
<1>1. RequestTypeOK'
  BY DEF RequestInv, RequestTypeOK, CommandTypeOK, Forks
<1>2. CommandInv'
  BY DEF RequestInv, RequestTypeOK, CommandTypeOK, CommandInv, Forks
<1>3. Owned'
  BY DEF RequestInv, RequestTypeOK, CommandTypeOK, CommandInv, Owned, Fresh, Meant,
         Forks
<1>4. Fresh'
  BY DEF RequestInv, RequestTypeOK, CommandTypeOK, Owned, Fresh, Meant, Forks
<1>5. Meant'
  BY DEF RequestInv, RequestTypeOK, CommandTypeOK, CommandInv, Owned, Fresh, Meant,
         Forks
<1> QED BY <1>1, <1>2, <1>3, <1>4, <1>5 DEF RequestInv

LEMMA EscapesIsSound ==
  ASSUME RequestInv, Escapes, CallKeeps
  PROVE  RequestInv'
<1>1. RequestTypeOK'
  BY DEF RequestInv, RequestTypeOK, CommandTypeOK, Escapes
<1>2. CommandInv'
  BY DEF RequestInv, RequestTypeOK, CommandTypeOK, CommandInv, Escapes
<1>3. Owned'
  BY DEF RequestInv, RequestTypeOK, CommandTypeOK, CommandInv, Owned, Fresh, Meant,
         Escapes
<1>4. Fresh'
  BY DEF RequestInv, RequestTypeOK, CommandTypeOK, Owned, Fresh, Meant, Escapes
<1>5. Meant'
  BY DEF RequestInv, RequestTypeOK, CommandTypeOK, CommandInv, Owned, Fresh, Meant,
         Escapes
<1> QED BY <1>1, <1>2, <1>3, <1>4, <1>5 DEF RequestInv

LEMMA WritesIsSound ==
  ASSUME RequestInv, Writes, CallKeeps
  PROVE  RequestInv'
<1>1. RequestTypeOK'
  BY DEF RequestInv, RequestTypeOK, CommandTypeOK, Writes
<1>2. CommandInv'
  BY DEF RequestInv, RequestTypeOK, CommandTypeOK, CommandInv, Writes
<1>3. Owned'
  BY DEF RequestInv, RequestTypeOK, CommandTypeOK, CommandInv, Owned, Fresh, Meant,
         Writes
<1>4. Fresh'
  BY DEF RequestInv, RequestTypeOK, CommandTypeOK, Owned, Fresh, Meant, Writes
<1>5. Meant'
  BY DEF RequestInv, RequestTypeOK, CommandTypeOK, CommandInv, Owned, Fresh, Meant,
         Writes
<1> QED BY <1>1, <1>2, <1>3, <1>4, <1>5 DEF RequestInv

LEMMA EndsIsSound ==
  ASSUME RequestInv, Ends, CallKeeps
  PROVE  RequestInv'
<1>t. CommandTypeOK'
  <2>1. {members, outsider, spared, late}' \subseteq BOOLEAN
    BY DEF RequestInv, RequestTypeOK, CommandTypeOK, Ends
  <2> QED BY <2>1 DEF RequestInv, RequestTypeOK, CommandTypeOK, Ends
<1>u. {asked, sent, kept, cancelled, severed}' \subseteq BOOLEAN
  BY DEF RequestInv, RequestTypeOK, CommandTypeOK, Ends
<1>1. RequestTypeOK'
  BY <1>t, <1>u DEF RequestInv, RequestTypeOK, CommandTypeOK, Ends
<1>2. CommandInv'
  BY DEF RequestInv, RequestTypeOK, CommandTypeOK, CommandInv, Ends
<1>3. Owned'
  BY DEF RequestInv, RequestTypeOK, CommandTypeOK, CommandInv, Owned, Fresh, Meant,
         Ends
<1>4. Fresh'
  BY DEF RequestInv, RequestTypeOK, CommandTypeOK, Owned, Fresh, Meant, Ends
<1>5. Meant'
  BY DEF RequestInv, RequestTypeOK, CommandTypeOK, CommandInv, Owned, Fresh, Meant,
         Ends
<1> QED BY <1>1, <1>2, <1>3, <1>4, <1>5 DEF RequestInv

LEMMA OtherCallIsSound ==
  ASSUME RequestInv, OtherCall
  PROVE  RequestInv'
<1>1. host = "idle" /\ kind = "none"
  BY DEF RequestInv, Fresh, OtherCall
<1> QED BY <1>1, RequestIsSound, RequestCommandIsSound DEF OtherCall

LEMMA CallStepIsSound ==
  ASSUME RequestInv,
         \/ OtherCall \/ HostStep \/ WorkerStep \/ Watch \/ OwnerStep \/ ProgramStep
         \/ Cancel
  PROVE  RequestInv'
<1>1. CASE OtherCall  BY <1>1, OtherCallIsSound
<1>2. CASE HostStep
  BY <1>2, WriteInputIsSound, ReadFrameIsSound, ExchangeRaisesIsSound, ExchangeEndsIsSound,
     TerminateIsSound, GraceEndsIsSound, KillWorkerIsSound, KeepSnapshotIsSound,
     CommandReturnsIsSound, ReturnIsSound DEF HostStep
<1>3. CASE WorkerStep
  BY <1>3, BootIsSound, ReadRequestIsSound, SayFinalIsSound, SayErrorIsSound,
     ExportSnapshotIsSound, PluginCommandIsSound, HandleSignalIsSound, UnwindIsSound,
     ExitIsSound, CrashIsSound DEF WorkerStep
<1>4. CASE Watch  BY <1>4, ParentExitedIsSound, ExitByWatcherIsSound DEF Watch
<1>5. CASE OwnerStep
  BY <1>5, SpawnIsSound, PollIsSound, KillGroupIsSound, DrainIsSound, CollectIsSound,
     DeadlineIsSound, JoinIsSound DEF OwnerStep, LoopStep
<1>6. CASE ProgramStep
  BY <1>6, ForksIsSound, EscapesIsSound, WritesIsSound, EndsIsSound DEF ProgramStep, Program
<1>7. CASE Cancel  BY <1>7, CancelIsSound
<1> QED BY <1>1, <1>2, <1>3, <1>4, <1>5, <1>6, <1>7

------------------------------------------------------------------------------
(* The loop                                                                 *)

USE DEF goalVars, stateVars, turnVars, saveVars, bounds, ghosts, loopVars, Thread

\* What is outside the loop does not bring a host up.
LEMMA GoalStutters ==
  ASSUME GoalInv, UNCHANGED loopVars, Up' => Up
  PROVE  GoalInv'
<1>1. TypeOK'  BY DEF GoalInv, TypeOK, Goal
<1>2. JudgeDecides'  BY DEF GoalInv, JudgeDecides
<1>3. Answers'  BY DEF GoalInv, Answers, Holding, Awaiting, Answering
<1>4. Places'  BY DEF GoalInv, Places, Awaiting
<1>5. (Up /\ ~raced => Stored)'  BY DEF GoalInv, Stored, Pending
<1> QED BY <1>1, <1>2, <1>3, <1>4, <1>5 DEF GoalInv

LEMMA MessageIsSound ==
  ASSUME RequestInv, GoalInv, Message
  PROVE  GoalInv'
<1>1. TypeOK'
  <2>1. requests' \in 0..MaxRequest /\ messages' \in 0..MaxMessage
    BY DEF GoalInv, TypeOK, Message, Up, Send, Ask, Request
  <2> QED
    BY <2>1 DEF GoalInv, TypeOK, Message, Up, Send, Ask, Request
<1>2. JudgeDecides'
  BY DEF GoalInv, TypeOK, Goal, JudgeDecides, Answers, Holding, Awaiting, Answering,
         Message, Up, Send, Ask, Request
<1>3. Answers'
  <2>1. /\ requests \in Nat /\ requests' = requests + 1 /\ turn' \in {"send", "judge"}
        /\ UNCHANGED <<shown, rejected, draft>>
        /\ turn' = "judge" => UNCHANGED messages /\ turn \in Holding
    BY DEF GoalInv, TypeOK, Holding, Message, Up, Send, Ask, Request
  <2>2. /\ draft' <= requests' /\ rejected' \subseteq 0..requests' /\ requests' \notin rejected'
        /\ \A n \in DOMAIN shown' :
             shown'[n] \subseteq 0..requests' /\ requests' \notin shown'[n]
    BY <2>1 DEF GoalInv, TypeOK, Answers
  <2>3. \A n \in DOMAIN shown' : n > messages' => shown'[n] = {}
    BY <2>1 DEF GoalInv, TypeOK, Answers, Message, Up, Send, Ask, Request
  <2>4. messages' \in DOMAIN shown' /\ shown'[messages'] = {}
    BY <2>1 DEF GoalInv, TypeOK, Answers, Answering, Holding, Message, Up, Send, Ask,
           Request
  <2> QED
    BY <2>1, <2>2, <2>3, <2>4 DEF GoalInv, Answers, Awaiting, Holding
<1>4. Places'
  BY DEF GoalInv, TypeOK, Places, Awaiting, Message, Up, Send, Ask, Request
<1>5. (Up /\ ~raced => Stored)'
  BY DEF GoalInv, TypeOK, Places, Answers, Stored, Pending, Awaiting, Up, Message, Up,
         Send, Ask, Request
<1> QED BY <1>1, <1>2, <1>3, <1>4, <1>5 DEF GoalInv

LEMMA AbortIsSound ==
  ASSUME RequestInv, GoalInv, NEW pc \in {"idle", "failed"}, Up, turn \in Awaiting, Abort(pc)
  PROVE  GoalInv'
<1>1. TypeOK'
  BY DEF GoalInv, TypeOK, Goal, Abort
<1>2. JudgeDecides'
  BY DEF GoalInv, TypeOK, Goal, JudgeDecides, Answers, Holding, Awaiting, Answering,
         Abort
<1>3. Answers'
  BY DEF GoalInv, TypeOK, Goal, Answers, Holding, Awaiting, Answering, Abort
<1>4. Places'
  BY DEF GoalInv, TypeOK, Places, Awaiting, Abort
<1>5. (Up /\ ~raced => Stored)'
  BY DEF GoalInv, TypeOK, Places, Answers, Stored, Pending, Awaiting, Up, Abort
<1> QED BY <1>1, <1>2, <1>3, <1>4, <1>5 DEF GoalInv

LEMMA SendAnsweredIsSound ==
  ASSUME RequestInv, GoalInv, Sent, turn' = "end",
         saving' = [saving EXCEPT !["turn"] = "due"], Both("turn"),
         UNCHANGED <<requestVars, goalVars, stateVars, reviewed, draft, lane, seen, bounds,
                     ghosts>>
  PROVE  GoalInv'
<1>1. TypeOK'
  BY DEF GoalInv, TypeOK, Goal, Sent, Both
<1>2. JudgeDecides'
  BY DEF GoalInv, TypeOK, Goal, JudgeDecides, Answers, Holding, Awaiting, Answering,
         Sent, Both
<1>3. Answers'
  BY DEF GoalInv, TypeOK, Goal, Answers, Holding, Awaiting, Answering, Sent, Both
<1>4. Places'
  BY DEF GoalInv, TypeOK, Places, Awaiting, Sent, Both
<1>5. (Up /\ ~raced => Stored)'
  BY DEF GoalInv, TypeOK, Places, Answers, Stored, Pending, Awaiting, Up, Sent, Both
<1> QED BY <1>1, <1>2, <1>3, <1>4, <1>5 DEF GoalInv

LEMMA SendFailedIsSound ==
  ASSUME RequestInv, GoalInv, SendFailed
  PROVE  GoalInv'
<1>1. TypeOK'
  BY DEF GoalInv, TypeOK, Goal, SendFailed
<1>2. JudgeDecides'
  BY DEF GoalInv, TypeOK, Goal, JudgeDecides, Answers, Holding, Awaiting, Answering,
         SendFailed
<1>3. Answers'
  BY DEF GoalInv, TypeOK, Goal, Answers, Holding, Awaiting, Answering, SendFailed
<1>4. Places'
  BY DEF GoalInv, TypeOK, Places, Awaiting, SendFailed
<1>5. (Up /\ ~raced => Stored)'
  BY DEF GoalInv, TypeOK, Places, Answers, Stored, Pending, Awaiting, Up, SendFailed
<1> QED BY <1>1, <1>2, <1>3, <1>4, <1>5 DEF GoalInv

LEMMA CommittedIsSound ==
  ASSUME RequestInv, GoalInv, Up, turn = "end", saving["turn"] = "done",
         saved' = memory, live' = FALSE, saving' = [saving EXCEPT !["turn"] = "none"],
         turn' = "look", draft' = requests,
         UNCHANGED <<requestVars, goalVars, memory, rollback, reviewed, lane, seen, bounds,
                     ghosts, raced>>
  PROVE  GoalInv'
<1>1. TypeOK'
  BY DEF GoalInv, TypeOK, Goal, Up
<1>2. JudgeDecides'
  BY DEF GoalInv, TypeOK, Goal, JudgeDecides, Answers, Holding, Awaiting, Answering,
         Up
<1>3. Answers'
  BY DEF GoalInv, TypeOK, Goal, Answers, Holding, Awaiting, Answering, Up
<1>4. Places'
  BY DEF GoalInv, TypeOK, Places, Awaiting, Up
<1>5. (Up /\ ~raced => Stored)'
  BY DEF GoalInv, TypeOK, Places, Answers, Stored, Pending, Awaiting, Up, Up
<1> QED BY <1>1, <1>2, <1>3, <1>4, <1>5 DEF GoalInv

LEMMA RaisesIsSound ==
  ASSUME RequestInv, GoalInv, Raises
  PROVE  GoalInv'
<1>1. TypeOK'
  BY DEF GoalInv, TypeOK, Goal, Raises, Unsaved
<1>2. JudgeDecides'
  BY DEF GoalInv, TypeOK, Goal, JudgeDecides, Answers, Holding, Awaiting, Answering,
         Raises, Unsaved
<1>3. Answers'
  BY DEF GoalInv, TypeOK, Goal, Answers, Holding, Awaiting, Answering, Raises, Unsaved
<1>4. Places'
  BY DEF GoalInv, TypeOK, Places, Awaiting, Raises, Unsaved
<1>5. (Up /\ ~raced => Stored)'
  BY DEF GoalInv, TypeOK, Places, Answers, Stored, Pending, Awaiting, Up, Raises,
         Unsaved
<1> QED BY <1>1, <1>2, <1>3, <1>4, <1>5 DEF GoalInv

LEMMA LookIsSound ==
  ASSUME RequestInv, GoalInv, Look
  PROVE  GoalInv'
<1>1. TypeOK'
  BY DEF GoalInv, TypeOK, Goal, Look
<1>2. JudgeDecides'
  BY DEF GoalInv, TypeOK, Goal, JudgeDecides, Answers, Holding, Awaiting, Answering,
         Look
<1>3. Answers'
  BY DEF GoalInv, TypeOK, Goal, Answers, Holding, Awaiting, Answering, Look
<1>4. Places'
  BY DEF GoalInv, TypeOK, Places, Awaiting, Look
<1>5. (Up /\ ~raced => Stored)'
  BY DEF GoalInv, TypeOK, Places, Answers, Stored, Pending, Awaiting, Up, Look
<1> QED BY <1>1, <1>2, <1>3, <1>4, <1>5 DEF GoalInv

LEMMA ReviewIsSound ==
  ASSUME RequestInv, GoalInv, Review
  PROVE  GoalInv'
<1>1. TypeOK'
  <2>1. requests' \in 0..MaxRequest /\ messages' \in 0..MaxMessage
    BY DEF GoalInv, TypeOK, Review, Up, Ask, Request
  <2> QED
    BY <2>1 DEF GoalInv, TypeOK, Review, Up, Ask, Request
<1>2. JudgeDecides'
  BY DEF GoalInv, TypeOK, Goal, JudgeDecides, Answers, Holding, Awaiting, Answering,
         Review, Up, Ask, Request
<1>3. Answers'
  <2>1. /\ requests \in Nat /\ requests' = requests + 1 /\ turn' \in {"send", "judge"}
        /\ UNCHANGED <<shown, rejected, draft>>
        /\ turn' = "judge" => UNCHANGED messages /\ turn \in Holding
    BY DEF GoalInv, TypeOK, Holding, Review, Up, Ask, Request
  <2>2. /\ draft' <= requests' /\ rejected' \subseteq 0..requests' /\ requests' \notin rejected'
        /\ \A n \in DOMAIN shown' :
             shown'[n] \subseteq 0..requests' /\ requests' \notin shown'[n]
    BY <2>1 DEF GoalInv, TypeOK, Answers
  <2>3. \A n \in DOMAIN shown' : n > messages' => shown'[n] = {}
    BY <2>1 DEF GoalInv, TypeOK, Answers, Review, Up, Ask, Request
  <2>4. messages' \in DOMAIN shown' /\ shown'[messages'] = {}
    BY <2>1 DEF GoalInv, TypeOK, Answers, Answering, Holding, Review, Up, Ask, Request
  <2> QED
    BY <2>1, <2>2, <2>3, <2>4 DEF GoalInv, Answers, Awaiting, Holding
<1>4. Places'
  BY DEF GoalInv, TypeOK, Places, Awaiting, Review, Up, Ask, Request
<1>5. (Up /\ ~raced => Stored)'
  BY DEF GoalInv, TypeOK, Places, Answers, Stored, Pending, Awaiting, Up, Review, Up,
         Ask, Request
<1> QED BY <1>1, <1>2, <1>3, <1>4, <1>5 DEF GoalInv

LEMMA DecidesIsSound ==
  ASSUME RequestInv, GoalInv, Decides
  PROVE  GoalInv'
<1>1. TypeOK'
  BY DEF GoalInv, TypeOK, Goal, Decides, Judged
<1>2. JudgeDecides'
  BY DEF GoalInv, TypeOK, Goal, JudgeDecides, Answers, Holding, Awaiting, Answering,
         Decides, Judged
<1>3. Answers'
  BY DEF GoalInv, TypeOK, Goal, Answers, Holding, Awaiting, Answering, Decides, Judged
<1>4. Places'
  BY DEF GoalInv, TypeOK, Places, Awaiting, Decides, Judged
<1>5. (Up /\ ~raced => Stored)'
  BY DEF GoalInv, TypeOK, Places, Answers, Stored, Pending, Awaiting, Up, Decides,
         Judged
<1> QED BY <1>1, <1>2, <1>3, <1>4, <1>5 DEF GoalInv

LEMMA JudgeFailsIsSound ==
  ASSUME RequestInv, GoalInv, JudgeFails
  PROVE  GoalInv'
<1>1. TypeOK'
  BY DEF GoalInv, TypeOK, Goal, JudgeFails, Judged, Goes
<1>2. JudgeDecides'
  BY DEF GoalInv, TypeOK, Goal, JudgeDecides, Answers, Holding, Awaiting, Answering,
         JudgeFails, Judged, Goes
<1>3. Answers'
  BY DEF GoalInv, TypeOK, Goal, Answers, Holding, Awaiting, Answering, JudgeFails,
         Judged, Goes
<1>4. Places'
  BY DEF GoalInv, TypeOK, Places, Awaiting, JudgeFails, Judged, Goes
<1>5. (Up /\ ~raced => Stored)'
  BY DEF GoalInv, TypeOK, Places, Answers, Stored, Pending, Awaiting, Up, JudgeFails,
         Judged, Goes
<1> QED BY <1>1, <1>2, <1>3, <1>4, <1>5 DEF GoalInv

LEMMA ResendIsSound ==
  ASSUME RequestInv, GoalInv, Up, turn = "resend", Send, UNCHANGED messages
  PROVE  GoalInv'
<1>1. TypeOK'
  <2>1. requests' \in 0..MaxRequest /\ messages' \in 0..MaxMessage
    BY DEF GoalInv, TypeOK, Up, Send, Ask, Request
  <2> QED
    BY <2>1 DEF GoalInv, TypeOK, Up, Send, Ask, Request
<1>2. JudgeDecides'
  BY DEF GoalInv, TypeOK, Goal, JudgeDecides, Answers, Holding, Awaiting, Answering,
         Up, Send, Ask, Request
<1>3. Answers'
  <2>1. /\ requests \in Nat /\ requests' = requests + 1 /\ turn' \in {"send", "judge"}
        /\ UNCHANGED <<shown, rejected, draft>>
        /\ turn' = "judge" => UNCHANGED messages /\ turn \in Holding
    BY DEF GoalInv, TypeOK, Holding, Up, Send, Ask, Request
  <2>2. /\ draft' <= requests' /\ rejected' \subseteq 0..requests' /\ requests' \notin rejected'
        /\ \A n \in DOMAIN shown' :
             shown'[n] \subseteq 0..requests' /\ requests' \notin shown'[n]
    BY <2>1 DEF GoalInv, TypeOK, Answers
  <2>3. \A n \in DOMAIN shown' : n > messages' => shown'[n] = {}
    BY <2>1 DEF GoalInv, TypeOK, Answers, Up, Send, Ask, Request
  <2>4. messages' \in DOMAIN shown' /\ shown'[messages'] = {}
    BY <2>1 DEF GoalInv, TypeOK, Answers, Answering, Holding, Up, Send, Ask, Request
  <2> QED
    BY <2>1, <2>2, <2>3, <2>4 DEF GoalInv, Answers, Awaiting, Holding
<1>4. Places'
  BY DEF GoalInv, TypeOK, Places, Awaiting, Up, Send, Ask, Request
<1>5. (Up /\ ~raced => Stored)'
  BY DEF GoalInv, TypeOK, Places, Answers, Stored, Pending, Awaiting, Up, Up, Send,
         Ask, Request
<1> QED BY <1>1, <1>2, <1>3, <1>4, <1>5 DEF GoalInv

LEMMA RejudgeIsSound ==
  ASSUME RequestInv, GoalInv, Up, turn = "rejudge", Ask("judge"),
         UNCHANGED <<goalVars, stateVars, reviewed, draft, lane, saveVars, messages, ghosts,
                     raced>>
  PROVE  GoalInv'
<1>1. TypeOK'
  <2>1. requests' \in 0..MaxRequest /\ messages' \in 0..MaxMessage
    BY DEF GoalInv, TypeOK, Up, Ask, Request
  <2> QED
    BY <2>1 DEF GoalInv, TypeOK, Up, Ask, Request
<1>2. JudgeDecides'
  BY DEF GoalInv, TypeOK, Goal, JudgeDecides, Answers, Holding, Awaiting, Answering,
         Up, Ask, Request
<1>3. Answers'
  <2>1. /\ requests \in Nat /\ requests' = requests + 1 /\ turn' \in {"send", "judge"}
        /\ UNCHANGED <<shown, rejected, draft>>
        /\ turn' = "judge" => UNCHANGED messages /\ turn \in Holding
    BY DEF GoalInv, TypeOK, Holding, Up, Ask, Request
  <2>2. /\ draft' <= requests' /\ rejected' \subseteq 0..requests' /\ requests' \notin rejected'
        /\ \A n \in DOMAIN shown' :
             shown'[n] \subseteq 0..requests' /\ requests' \notin shown'[n]
    BY <2>1 DEF GoalInv, TypeOK, Answers
  <2>3. \A n \in DOMAIN shown' : n > messages' => shown'[n] = {}
    BY <2>1 DEF GoalInv, TypeOK, Answers, Up, Ask, Request
  <2>4. messages' \in DOMAIN shown' /\ shown'[messages'] = {}
    BY <2>1 DEF GoalInv, TypeOK, Answers, Answering, Holding, Up, Ask, Request
  <2> QED
    BY <2>1, <2>2, <2>3, <2>4 DEF GoalInv, Answers, Awaiting, Holding
<1>4. Places'
  BY DEF GoalInv, TypeOK, Places, Awaiting, Up, Ask, Request
<1>5. (Up /\ ~raced => Stored)'
  BY DEF GoalInv, TypeOK, Places, Answers, Stored, Pending, Awaiting, Up, Up, Ask,
         Request
<1> QED BY <1>1, <1>2, <1>3, <1>4, <1>5 DEF GoalInv

LEMMA RetryGoneIsSound ==
  ASSUME RequestInv, GoalInv, Up, NEW pc \in {"idle", "look"},
         turn \in {"resend", "rejudge"}, turn = "resend" => pc = "idle", Goes(pc)
  PROVE  GoalInv'
<1>1. TypeOK'
  BY DEF GoalInv, TypeOK, Goal, Up, Goes
<1>2. JudgeDecides'
  BY DEF GoalInv, TypeOK, Goal, JudgeDecides, Answers, Holding, Awaiting, Answering,
         Up, Goes
<1>3. Answers'
  BY DEF GoalInv, TypeOK, Goal, Answers, Holding, Awaiting, Answering, Up, Goes
<1>4. Places'
  BY DEF GoalInv, TypeOK, Places, Awaiting, Up, Goes
<1>5. (Up /\ ~raced => Stored)'
  BY DEF GoalInv, TypeOK, Places, Answers, Stored, Pending, Awaiting, Up, Up, Goes
<1> QED BY <1>1, <1>2, <1>3, <1>4, <1>5 DEF GoalInv

LEMMA AcceptStandsIsSound ==
  ASSUME RequestInv, GoalInv, Up, turn \in {"complete", "incomplete"},
         goal = 0, turn' = "finish",
         UNCHANGED <<goal, completed, rejected, saving, raced>>,
         UNCHANGED <<requestVars, revision, stateVars, reviewed, draft, lane, seen, bounds,
                     judged, shown>>
  PROVE  GoalInv'
<1>1. TypeOK'
  BY DEF GoalInv, TypeOK, Goal, Up
<1>2. JudgeDecides'
  BY DEF GoalInv, TypeOK, Goal, JudgeDecides, Answers, Holding, Awaiting, Answering,
         Up
<1>3. Answers'
  BY DEF GoalInv, TypeOK, Goal, Answers, Holding, Awaiting, Answering, Up
<1>4. Places'
  BY DEF GoalInv, TypeOK, Places, Awaiting, Up
<1>5. (Up /\ ~raced => Stored)'
  BY DEF GoalInv, TypeOK, Places, Answers, Stored, Pending, Awaiting, Up, Up
<1> QED BY <1>1, <1>2, <1>3, <1>4, <1>5 DEF GoalInv

LEMMA AcceptLooksIsSound ==
  ASSUME RequestInv, GoalInv, Up, turn \in {"complete", "incomplete"},
         goal # 0, turn' = "look",
         UNCHANGED <<goal, completed, rejected, saving, raced>>,
         UNCHANGED <<requestVars, revision, stateVars, reviewed, draft, lane, seen, bounds,
                     judged, shown>>
  PROVE  GoalInv'
<1>1. TypeOK'
  BY DEF GoalInv, TypeOK, Goal, Up
<1>2. JudgeDecides'
  BY DEF GoalInv, TypeOK, Goal, JudgeDecides, Answers, Holding, Awaiting, Answering,
         Up
<1>3. Answers'
  BY DEF GoalInv, TypeOK, Goal, Answers, Holding, Awaiting, Answering, Up
<1>4. Places'
  BY DEF GoalInv, TypeOK, Places, Awaiting, Up
<1>5. (Up /\ ~raced => Stored)'
  BY DEF GoalInv, TypeOK, Places, Answers, Stored, Pending, Awaiting, Up, Up
<1> QED BY <1>1, <1>2, <1>3, <1>4, <1>5 DEF GoalInv

LEMMA AcceptEndsIsSound ==
  ASSUME RequestInv, GoalInv, Up, turn \in {"complete", "incomplete"},
         goal = reviewed, goal # 0, turn = "complete",
         turn' = "finish", goal' = 0, completed' = completed \cup {goal},
         UNCHANGED <<rejected, saving, raced>>,
         UNCHANGED <<requestVars, revision, stateVars, reviewed, draft, lane, seen, bounds,
                     judged, shown>>
  PROVE  GoalInv'
<1>1. TypeOK'
  <2>1. {goal, revision, memory, saved, rollback, reviewed}' \subseteq Goal
    BY DEF GoalInv, TypeOK, Goal
  <2>2. completed' \subseteq Goal
    BY DEF GoalInv, TypeOK
  <2> QED BY <2>1, <2>2 DEF GoalInv, TypeOK
<1>2. JudgeDecides'
  BY DEF GoalInv, TypeOK, Goal, JudgeDecides, Answers, Holding, Awaiting, Answering,
         Up
<1>3. Answers'
  BY DEF GoalInv, TypeOK, Goal, Answers, Holding, Awaiting, Answering, Up
<1>4. Places'
  BY DEF GoalInv, TypeOK, Places, Awaiting, Up
<1>5. (Up /\ ~raced => Stored)'
  BY DEF GoalInv, TypeOK, Places, Answers, Stored, Pending, Awaiting, Up, Up
<1> QED BY <1>1, <1>2, <1>3, <1>4, <1>5 DEF GoalInv

LEMMA AcceptContinuesIsSound ==
  ASSUME RequestInv, GoalInv, Up, turn \in {"complete", "incomplete"},
         turn = "incomplete", turn' = "continue",
         rejected' = rejected \cup {draft},
         saving' = [saving EXCEPT !["turn"] = "due"], Both("turn"),
         UNCHANGED <<goal, completed>>,
         UNCHANGED <<requestVars, revision, stateVars, reviewed, draft, lane, seen, bounds,
                     judged, shown>>
  PROVE  GoalInv'
<1>1. TypeOK'
  BY DEF GoalInv, TypeOK, Goal, Both, Up
<1>2. JudgeDecides'
  BY DEF GoalInv, TypeOK, Goal, JudgeDecides, Answers, Holding, Awaiting, Answering,
         Both, Up
<1>3. Answers'
  BY DEF GoalInv, TypeOK, Goal, Answers, Holding, Awaiting, Answering, Both, Up
<1>4. Places'
  BY DEF GoalInv, TypeOK, Places, Awaiting, Both, Up
<1>5. (Up /\ ~raced => Stored)'
  BY DEF GoalInv, TypeOK, Places, Answers, Stored, Pending, Awaiting, Up, Both, Up
<1> QED BY <1>1, <1>2, <1>3, <1>4, <1>5 DEF GoalInv

LEMMA FinishIsSound ==
  ASSUME RequestInv, GoalInv, Finish
  PROVE  GoalInv'
<1>1. TypeOK'
  BY DEF GoalInv, TypeOK, Goal, Finish, Both, Unsaved
<1>2. JudgeDecides'
  BY DEF GoalInv, TypeOK, Goal, JudgeDecides, Answers, Holding, Awaiting, Answering,
         Finish, Both, Unsaved
<1>3. Answers'
  BY DEF GoalInv, TypeOK, Goal, Answers, Holding, Awaiting, Answering, Finish, Both,
         Unsaved
<1>4. Places'
  BY DEF GoalInv, TypeOK, Places, Awaiting, Finish, Both, Unsaved
<1>5. (Up /\ ~raced => Stored)'
  BY DEF GoalInv, TypeOK, Places, Answers, Stored, Pending, Awaiting, Up, Finish,
         Both, Unsaved
<1> QED BY <1>1, <1>2, <1>3, <1>4, <1>5 DEF GoalInv

LEMMA CheckpointsIsSound ==
  ASSUME RequestInv, GoalInv, Checkpoints
  PROVE  GoalInv'
<1>1. TypeOK'
  BY DEF GoalInv, TypeOK, Goal, Checkpoints
<1>2. JudgeDecides'
  BY DEF GoalInv, TypeOK, Goal, JudgeDecides, Answers, Holding, Awaiting, Answering,
         Checkpoints
<1>3. Answers'
  BY DEF GoalInv, TypeOK, Goal, Answers, Holding, Awaiting, Answering, Checkpoints
<1>4. Places'
  BY DEF GoalInv, TypeOK, Places, Awaiting, Checkpoints
<1>5. (Up /\ ~raced => Stored)'
  BY DEF GoalInv, TypeOK, Places, Answers, Stored, Pending, Awaiting, Up, Checkpoints
<1> QED BY <1>1, <1>2, <1>3, <1>4, <1>5 DEF GoalInv

LEMMA ContinueIsSound ==
  ASSUME RequestInv, GoalInv, Continue
  PROVE  GoalInv'
<1>1. TypeOK'
  <2>1. requests' \in 0..MaxRequest /\ messages' \in 0..MaxMessage
    BY DEF GoalInv, TypeOK, Continue, Up, Send, Ask, Request
  <2> QED
    BY <2>1 DEF GoalInv, TypeOK, Continue, Up, Send, Ask, Request
<1>2. JudgeDecides'
  BY DEF GoalInv, TypeOK, Goal, JudgeDecides, Answers, Holding, Awaiting, Answering,
         Continue, Up, Send, Ask, Request
<1>3. Answers'
  <2>1. /\ requests \in Nat /\ requests' = requests + 1 /\ turn' \in {"send", "judge"}
        /\ UNCHANGED <<shown, rejected, draft>>
        /\ turn' = "judge" => UNCHANGED messages /\ turn \in Holding
    BY DEF GoalInv, TypeOK, Holding, Continue, Up, Send, Ask, Request
  <2>2. /\ draft' <= requests' /\ rejected' \subseteq 0..requests' /\ requests' \notin rejected'
        /\ \A n \in DOMAIN shown' :
             shown'[n] \subseteq 0..requests' /\ requests' \notin shown'[n]
    BY <2>1 DEF GoalInv, TypeOK, Answers
  <2>3. \A n \in DOMAIN shown' : n > messages' => shown'[n] = {}
    BY <2>1 DEF GoalInv, TypeOK, Answers, Continue, Up, Send, Ask, Request
  <2>4. messages' \in DOMAIN shown' /\ shown'[messages'] = {}
    BY <2>1 DEF GoalInv, TypeOK, Answers, Answering, Holding, Continue, Up, Send, Ask,
           Request
  <2> QED
    BY <2>1, <2>2, <2>3, <2>4 DEF GoalInv, Answers, Awaiting, Holding
<1>4. Places'
  BY DEF GoalInv, TypeOK, Places, Awaiting, Continue, Up, Send, Ask, Request
<1>5. (Up /\ ~raced => Stored)'
  BY DEF GoalInv, TypeOK, Places, Answers, Stored, Pending, Awaiting, Up, Continue,
         Up, Send, Ask, Request
<1> QED BY <1>1, <1>2, <1>3, <1>4, <1>5 DEF GoalInv

LEMMA SaveIsSound ==
  ASSUME RequestInv, GoalInv, NEW t \in Thread, Save(t)
  PROVE  GoalInv'
<1>1. TypeOK'
  BY DEF GoalInv, TypeOK, Goal, Save, SaveReads, SaveClears, SaveWrites
<1>2. JudgeDecides'
  BY DEF GoalInv, TypeOK, Goal, JudgeDecides, Answers, Holding, Awaiting, Answering,
         Save, SaveReads, SaveClears, SaveWrites
<1>3. Answers'
  BY DEF GoalInv, TypeOK, Goal, Answers, Holding, Awaiting, Answering, Save,
         SaveReads, SaveClears, SaveWrites
<1>4. Places'
  BY DEF GoalInv, TypeOK, Places, Awaiting, Save, SaveReads, SaveClears, SaveWrites
<1>5. (Up /\ ~raced => Stored)'
  BY DEF GoalInv, TypeOK, Places, Answers, Stored, Pending, Awaiting, Up, Save,
         SaveReads, SaveClears, SaveWrites
<1> QED BY <1>1, <1>2, <1>3, <1>4, <1>5 DEF GoalInv

LEMMA ApplyIsSound ==
  ASSUME RequestInv, GoalInv, NEW s \in {0, revision + 1}, Apply(s)
  PROVE  GoalInv'
<1>1. TypeOK'
  <2>1. {goal, revision, memory, saved, rollback, reviewed}' \subseteq Goal
    BY DEF GoalInv, TypeOK, Goal, Apply
  <2>2. {live, raced}' \subseteq BOOLEAN
    BY DEF GoalInv, TypeOK, Apply, Both
  <2> QED BY <2>1, <2>2 DEF GoalInv, TypeOK, Goal, Apply
<1>2. JudgeDecides'
  BY DEF GoalInv, TypeOK, Goal, JudgeDecides, Answers, Holding, Awaiting, Answering,
         Apply, Both
<1>3. Answers'
  BY DEF GoalInv, TypeOK, Goal, Answers, Holding, Awaiting, Answering, Apply, Both
<1>4. Places'
  BY DEF GoalInv, TypeOK, Places, Awaiting, Apply, Both
<1>5. (Up /\ ~raced => Stored)'
  BY DEF GoalInv, TypeOK, Places, Answers, Stored, Pending, Awaiting, Up, Apply, Both
<1> QED BY <1>1, <1>2, <1>3, <1>4, <1>5 DEF GoalInv

LEMMA CheckpointIsSound ==
  ASSUME RequestInv, GoalInv, Checkpoint
  PROVE  GoalInv'
<1>1. TypeOK'
  BY DEF GoalInv, TypeOK, Goal, Checkpoint
<1>2. JudgeDecides'
  BY DEF GoalInv, TypeOK, Goal, JudgeDecides, Answers, Holding, Awaiting, Answering,
         Checkpoint
<1>3. Answers'
  BY DEF GoalInv, TypeOK, Goal, Answers, Holding, Awaiting, Answering, Checkpoint
<1>4. Places'
  BY DEF GoalInv, TypeOK, Places, Awaiting, Checkpoint
<1>5. (Up /\ ~raced => Stored)'
  BY DEF GoalInv, TypeOK, Places, Answers, Stored, Pending, Awaiting, Up, Checkpoint
<1> QED BY <1>1, <1>2, <1>3, <1>4, <1>5 DEF GoalInv

LEMMA JobEndsIsSound ==
  ASSUME RequestInv, GoalInv, JobEnds
  PROVE  GoalInv'
<1>1. TypeOK'
  BY DEF GoalInv, TypeOK, Goal, JobEnds
<1>2. JudgeDecides'
  BY DEF GoalInv, TypeOK, Goal, JudgeDecides, Answers, Holding, Awaiting, Answering,
         JobEnds
<1>3. Answers'
  BY DEF GoalInv, TypeOK, Goal, Answers, Holding, Awaiting, Answering, JobEnds
<1>4. Places'
  BY DEF GoalInv, TypeOK, Places, Awaiting, JobEnds
<1>5. (Up /\ ~raced => Stored)'
  BY DEF GoalInv, TypeOK, Places, Answers, Stored, Pending, Awaiting, Up, JobEnds
<1> QED BY <1>1, <1>2, <1>3, <1>4, <1>5 DEF GoalInv

LEMMA GoalStepIsSound ==
  ASSUME RequestInv, GoalInv, Message \/ TurnStep \/ LaneStep \/ JobEnds
  PROVE  GoalInv'
<1>1. CASE SendEnds
  BY <1>1, AbortIsSound, SendAnsweredIsSound DEF SendEnds, Sent, Awaiting
<1>2. CASE Commit
  BY <1>2, AbortIsSound, CommittedIsSound DEF Commit, Awaiting
<1>3. CASE Retry
  BY <1>3, ResendIsSound, RejudgeIsSound, RetryGoneIsSound DEF Retry
<1>4. CASE Accept
  BY <1>4, AcceptStandsIsSound, AcceptLooksIsSound, AcceptEndsIsSound,
     AcceptContinuesIsSound DEF Accept
<1>5. CASE TurnStep
  BY <1>1, <1>2, <1>3, <1>4, <1>5, SendFailedIsSound, RaisesIsSound, LookIsSound,
     ReviewIsSound, DecidesIsSound, JudgeFailsIsSound, FinishIsSound, CheckpointsIsSound,
     ContinueIsSound, SaveIsSound DEF TurnStep
<1>6. CASE LaneStep
  BY <1>6, ApplyIsSound, SaveIsSound, CheckpointIsSound DEF LaneStep, SetGoal, ClearGoal
<1> QED BY <1>5, <1>6, MessageIsSound, JobEndsIsSound

\* The calls of the loop are requests to a model.
LEMMA LoopCalls ==
  ASSUME RequestInv, Message \/ TurnStep \/ LaneStep \/ JobEnds
  PROVE  RequestInv'
<1>1. CASE UNCHANGED requestVars  BY <1>1, CallStutters
<1>2. CASE Up /\ Request("chat")  BY <1>2, RequestIsSound DEF Up
<1>3. CASE JobEnds
  <2>1. {asked, sent, kept, cancelled, severed}' \subseteq BOOLEAN
    BY <1>3 DEF JobEnds, RequestInv, RequestTypeOK
  <2>2. RequestTypeOK'
    BY <1>3, <2>1 DEF JobEnds, RequestInv, RequestTypeOK, CommandTypeOK
  <2> QED BY <1>3, <2>2 DEF JobEnds, RequestInv, CommandInv, Owned, Fresh, Meant
<1>4. CASE Message
  BY <1>2, <1>4 DEF Message, Send, Ask
<1>5. CASE LaneStep
  BY <1>1, <1>5 DEF LaneStep, SetGoal, ClearGoal, Apply, Save, Checkpoint
<1>6. CASE TurnStep
  <2>1. CASE SendEnds  BY <1>1, <2>1 DEF SendEnds, Abort
  <2>2. CASE SendFailed \/ Commit \/ Raises \/ Look
    BY <1>1, <2>2 DEF SendFailed, Commit, Abort, Raises, Look
  <2>3. CASE Review  BY <1>2, <2>3 DEF Review, Ask
  <2>4. CASE Decides \/ JudgeFails  BY <1>1, <2>4 DEF Decides, JudgeFails, Goes
  <2>5. CASE Retry  BY <1>1, <1>2, <2>5 DEF Retry, Goes, Send, Ask
  <2>6. CASE Accept \/ Finish \/ Checkpoints
    BY <1>1, <2>6 DEF Accept, Finish, Checkpoints
  <2>7. CASE Continue  BY <1>2, <2>7 DEF Continue, Send, Ask
  <2>8. CASE Save("turn")  BY <1>1, <2>8 DEF Save
  <2> QED BY <1>6, <2>1, <2>2, <2>3, <2>4, <2>5, <2>6, <2>7, <2>8 DEF TurnStep
<1> QED BY <1>3, <1>4, <1>5, <1>6

\* No step but a new process brings a host up, and no other call becomes a request.
LEMMA OutsideStaysOut ==
  ASSUME RequestInv, Outside, Up'
  PROVE  Up
<1>1. CASE OtherCall
  BY <1>1 DEF OtherCall, Request, RequestCommand, RequestInv, Fresh, Up
<1>2. CASE HostStep
  BY <1>2 DEF HostStep, WriteInput, ReadFrame, ExchangeRaises, ExchangeEnds, LeaveExchange,
              Terminate, GraceEnds, KillWorker, KeepSnapshot, CommandReturns, Return, Up
<1>3. CASE WorkerStep
  BY <1>3 DEF WorkerStep, Boot, ReadRequest, SayFinal, SayError, ExportSnapshot,
              PluginCommand, HandleSignal, Unwind, Exit, Crash, Up
<1>4. CASE Watch  BY <1>4 DEF Watch, ParentExited, ExitByWatcher, Up
<1>5. CASE OwnerStep \/ ProgramStep  BY <1>5 DEF OwnerStep, ProgramStep, Up
<1>6. CASE Cancel  BY <1>6 DEF Cancel, Up
<1> QED BY <1>1, <1>2, <1>3, <1>4, <1>5, <1>6 DEF Outside

LEMMA InvInit == Init => Inv
<1> SUFFICES ASSUME Init PROVE Inv
  OBVIOUS
<1>1. RequestTypeOK
  <2>1. CommandTypeOK
    <3>1. {members, outsider, spared, late} \subseteq BOOLEAN
      BY DEF Init, RequestInit, CommandInit
    <3> QED BY <3>1 DEF Init, RequestInit, CommandInit, CommandTypeOK
  <2>2. {asked, sent, kept, cancelled, severed} \subseteq BOOLEAN
    BY DEF Init, RequestInit
  <2> QED BY <2>1, <2>2 DEF Init, RequestInit, RequestTypeOK
<1>2. RequestInv
  BY <1>1 DEF Init, RequestInit, CommandInit, RequestInv, CommandInv, Owned, Fresh, Meant
<1>3. TypeOK
  <2>1. {goal, revision, memory, saved, rollback, reviewed} \subseteq Goal
    BY DEF Init, Goal
  <2>2. {live, raced} \subseteq BOOLEAN
    BY DEF Init
  <2>3. seen \in [Thread -> Goal]
    BY DEF Init, Goal
  <2> QED BY <2>1, <2>2, <2>3 DEF Init, TypeOK
<1>4. JudgeDecides /\ Answers /\ Places /\ Stored
  BY DEF Init, JudgeDecides, Answers, Holding, Awaiting, Answering, Places, Stored, Pending
<1> QED BY <1>2, <1>3, <1>4 DEF Inv, GoalInv

LEMMA InvNext == Inv /\ [Next]_vars => Inv'
<1> SUFFICES ASSUME Inv, [Next]_vars PROVE Inv'
  OBVIOUS
<1>0. RequestInv /\ GoalInv
  BY DEF Inv
<1>1. CASE Message \/ TurnStep \/ LaneStep \/ JobEnds
  BY <1>0, <1>1, LoopCalls, GoalStepIsSound DEF Inv
<1>2. CASE Outside
  <2>1. RequestInv'
    BY <1>0, <1>2, CallStepIsSound DEF Outside
  <2>2. GoalInv'
    BY <1>0, <1>2, OutsideStaysOut, GoalStutters DEF Outside
  <2> QED BY <2>1, <2>2 DEF Inv
<1>3. CASE Dies
  <2>1. RequestInv'
    BY <1>0, <1>3, HostDiesIsSound DEF Dies
  <2>2. TypeOK' /\ ~Up'
    <3>1. {goal, revision, memory, saved, rollback, reviewed}' \subseteq Goal
      BY <1>0, <1>3 DEF Dies, LoopReset, GoalInv, TypeOK, Goal
    <3>2. {live, raced}' \subseteq BOOLEAN
      BY <1>3 DEF Dies, LoopReset
    <3>3. seen' \in [Thread -> Goal]
      BY <1>3 DEF Dies, LoopReset, Goal
    <3>4. ~Up'
      BY <1>3 DEF Dies, HostDies, Up
    <3> QED BY <1>3, <3>1, <3>2, <3>3, <3>4 DEF Dies, LoopReset, TypeOK
  <2>3. JudgeDecides' /\ Answers' /\ Places'
    BY <1>3 DEF Dies, LoopReset, JudgeDecides, Answers, Holding, Awaiting, Answering, Places
  <2> QED BY <2>1, <2>2, <2>3 DEF Inv, GoalInv
<1>4. CASE UNCHANGED vars
  <2>1. RequestInv'
    BY <1>0, <1>4, CallStutters DEF vars
  <2>2. Up' = Up /\ UNCHANGED loopVars
    BY <1>4 DEF vars, Up
  <2> QED BY <1>0, <2>1, <2>2, GoalStutters DEF Inv
<1> QED BY <1>1, <1>2, <1>3, <1>4 DEF Next

LEMMA InvHolds == Spec => []Inv
  BY InvInit, InvNext, PTL DEF Spec

\* A call is whole, for any output of a command and any number of requests
\* (run_command, run_child, ProcessConversation.run): the caller goes on only when
\* no process of the command's group is left and all its output is taken, no worker
\* outlives its request, and an answer is the final record of a worker that ended
\* by itself, whose command was neither cancelled nor broken off. Of the processes
\* of a command nothing is said when the process that ran it was killed (`severed`)
\* or killpg raised (`spared`).
THEOREM CallsAreWhole == Spec => []CallIsWhole
<1>1. ASSUME RequestInv PROVE CallIsWhole
  <2>1. NothingOutlives
    BY <1>1 DEF RequestInv, RequestTypeOK, CommandTypeOK, CommandInv, Owned, Fresh, Meant,
                NothingOutlives
  <2>2. AnswerIsMeant
    BY <1>1 DEF RequestInv, RequestTypeOK, CommandTypeOK, CommandInv, Owned, Fresh, Meant,
                AnswerIsMeant
  <2> QED BY <1>1, <2>1, <2>2 DEF RequestInv, CallIsWhole
<1>2. Inv => CallIsWhole
  BY <1>1 DEF Inv
<1> QED BY <1>2, InvHolds, PTL

\* The goal is kept, for any number of goals, requests and messages: a goal is ended
\* by a judge of that very goal alone, an answer the judge sent back is never shown,
\* a message gets one answer at most, and when nothing is under way the goal of the
\* loop is that of the session's state and of its journal (filtered_event,
\* accept_decision, _GoalHooks.save), outside the interleavings named in
\* GoalIsStored.
THEOREM GoalsAreKept == Spec => []GoalIsKept
<1>1. GoalInv => GoalIsKept
  BY DEF GoalInv, GoalIsKept, GoalIsStored, Quiet, Stored, Pending
<1>2. Inv => GoalIsKept
  BY <1>1 DEF Inv
<1> QED BY <1>2, InvHolds, PTL
==============================================================================
