--------------------------- MODULE SessionJournal ---------------------------
(***************************************************************************)
(* The append-only journal of a session (raychat/storage.py) on a file     *)
(* with three layers: what a power loss leaves (disk), what a killed       *)
(* process leaves (cache), and what only Python's stream holds (buffer).   *)
(* Every operation runs under the store's mutex, so operations do not      *)
(* overlap; what interleaves with their steps is failure, a kill and a     *)
(* power loss.  `pc` is the next call on the stream.                       *)
(***************************************************************************)
EXTENDS Naturals, Sequences, FiniteSets, FiniteSetsExt

CONSTANTS MaxId,     \* bound: records ever made, the header not counted
          MaxTurn,   \* bound: turns ever begun
          MaxFaults, \* bound: calls on the stream that fail
          MaxStops,  \* bound: kills and power losses
          MaxHarm    \* bound: both together

ASSUME BoundsAssumption ==
  MaxId \in Nat \ {0} /\ {MaxTurn, MaxFaults, MaxStops, MaxHarm} \subseteq Nat

VARIABLES
  rec,        \* the records made so far, by id; a record never changes
  nextId,     \* the id the next record gets
  disk,       \* the part of the file that is known to be durable
  cache,      \* the file as every process sees it
  buffer,     \* records in the stream's write buffer
  entries,    \* SessionStore.entries
  head,       \* SessionStore.head
  committed,  \* SessionStore.committed
  failed,     \* SessionStore.failed
  pc,         \* the next call on the stream
  op,         \* the frame of the operation under way
  turn,       \* the open turn of the session, 0 when there is none
  broken,     \* an operation of the open turn raised: only its abort is left
  begun,      \* turns begun so far
  told,       \* history: what the caller of each record was told
  faults,     \* bounded counts of failed calls and of stops
  stops

file == <<disk, cache, buffer>>
memory == <<entries, head, committed, failed>>
client == <<turn, broken, begun>>
bounds == <<faults, stops>>
vars == <<rec, nextId, file, memory, pc, op, client, told, bounds>>

-----------------------------------------------------------------------------
(* Records and files.  The header is record 0 and stands for "no entry".   *)

Root == 0
Ids == 0..MaxId
Durable == {"turn_commit", "state", "select"}
Kinds == Durable \cup {"session", "message"}

Record == [kind : Kinds, parent : Ids, target : Ids, turn : 0..MaxTurn]
Header == [kind |-> "session", parent |-> Root, target |-> Root, turn |-> 0]

\* A file is a sequence of complete lines, perhaps followed by part of one.  A
\* record written behind such a part completes a line nobody can read.
Malformed == MaxId + 1
Lines == Ids \cup {Malformed}
File == [ids : Seq(Lines), torn : BOOLEAN]
Empty == [ids |-> <<>>, torn |-> FALSE]
Elements(s) == {s[i] : i \in DOMAIN s}

\* The stream's buffer written out: it completes the line it was torn from.
Flushed(f, b) == IF b = <<>> THEN f ELSE [ids |-> f.ids \o b, torn |-> FALSE]

\* Every line _load accepts: the header first, parents and targets before.
Loads(f) ==
  /\ f.ids = <<>> => ~f.torn
  /\ \A i \in DOMAIN f.ids :
       LET before == {f.ids[j] : j \in 1..(i - 1)}
           r == rec[f.ids[i]]
       IN IF i = 1 THEN f.ids[i] = Root
          ELSE /\ f.ids[i] \notin before \cup {Malformed}
               /\ r.parent \in before
               /\ r.kind = "select" =>
                    /\ r.target \in before
                    /\ rec[r.target].kind \in {"turn_commit", "state", "session"}

\* The selection _load finds in a file: its last turn, state or select record.
Selection(f) ==
  LET at == {i \in DOMAIN f.ids : rec[f.ids[i]].kind \in Durable}
      last == f.ids[Max(at)]
  IN IF at = {} THEN Root
     ELSE IF rec[last].kind = "select" THEN rec[last].target ELSE last

\* The files a power loss may leave: unsynced lines survive in part.
Between(f, g) ==
  LET long == IF Len(f.ids) > Len(g.ids) THEN f ELSE g
      short == IF Len(f.ids) > Len(g.ids) THEN g ELSE f
  IN {f, g} \cup
     {[ids |-> SubSeq(long.ids, 1, n), torn |-> t] :
        n \in Len(short.ids)..(Len(long.ids) - 1), t \in BOOLEAN}

\* Every file a reopening may meet, whatever stops the process now.
MayFind == Between(disk, cache) \cup Between(disk, Flushed(cache, buffer))

\* The branch snapshot() walks from an entry to the start of the session.
Branch(id) ==
  LET up[i \in Ids] ==
        IF i = Root THEN {Root} ELSE {i} \cup up[rec[i].parent]
  IN up[id]

-----------------------------------------------------------------------------
(* Frames of an operation                                                  *)

NoOp == [kind |-> "none", id |-> Root, previous |-> Root, offset |-> Empty]
OpRecord == [kind : Kinds \cup {"none"}, id : Ids, previous : Ids, offset : File]

\* Nothing is open: no stream, no entry tree, no turn.
Closed ==
  /\ pc' = "closed"
  /\ op' = NoOp
  /\ entries' = {}
  /\ head' = Root
  /\ committed' = Root
  /\ failed' = FALSE
  /\ turn' = 0
  /\ broken' = FALSE
  /\ UNCHANGED <<rec, nextId, begun, told>>

\* A call on the stream fails, or the process stops, one more time.
MayHarm == faults + stops < MaxHarm
Fault == MayHarm /\ faults < MaxFaults /\ faults' = faults + 1 /\ UNCHANGED stops
Stop == MayHarm /\ stops < MaxStops /\ stops' = stops + 1 /\ UNCHANGED faults

\* The operation returns to its caller.
Return == pc' = "idle" /\ op' = NoOp

Init ==
  /\ rec = [i \in Lines |-> Header]
  /\ nextId = 1
  /\ disk = Empty
  /\ cache = Empty
  /\ buffer = <<>>
  /\ entries = {}
  /\ head = Root
  /\ committed = Root
  /\ failed = FALSE
  /\ pc = "closed"
  /\ op = NoOp
  /\ turn = 0
  /\ broken = FALSE
  /\ begun = 0
  /\ told = [i \in Ids |-> "nothing"]
  /\ faults = 0
  /\ stops = 0

-----------------------------------------------------------------------------
(* Opening: a new journal gets its header, a torn tail is cut off          *)

\* The end of _load: the tree, and head at the selection found.
Opened(f) ==
  /\ entries' = Elements(f.ids) \ {Root}
  /\ committed' = Selection(f)
  /\ head' = committed'
  /\ failed' = FALSE
  /\ Return

OpenNew ==
  /\ pc = "closed"
  /\ cache = Empty
  /\ buffer' = <<Root>>
  /\ pc' = "flush"
  /\ op' = [NoOp EXCEPT !.kind = "session"]
  /\ UNCHANGED <<rec, nextId, disk, cache, memory, client, told, bounds>>

OpenSaved ==
  /\ pc = "closed"
  /\ cache # Empty
  /\ Loads(cache)
  /\ IF cache.torn THEN pc' = "trim" /\ UNCHANGED <<memory, op>>
                   ELSE Opened(cache)
  /\ UNCHANGED <<rec, nextId, file, client, told, bounds>>

\* "Session header is incomplete.": the journal is never opened again.
OpenRefused ==
  /\ pc = "closed"
  /\ ~Loads(cache)
  /\ UNCHANGED vars

Trim ==
  /\ pc = "trim"
  /\ cache' = [cache EXCEPT !.torn = FALSE]
  /\ pc' = "trimsync"
  /\ UNCHANGED <<rec, nextId, disk, buffer, memory, op, client, told, bounds>>

TrimSync ==
  /\ pc = "trimsync"
  /\ disk' = cache
  /\ Opened(cache)
  /\ UNCHANGED <<rec, nextId, cache, buffer, client, told, bounds>>

TrimFails ==
  /\ pc \in {"trim", "trimsync"}
  /\ Fault
  /\ Closed
  /\ UNCHANGED file

-----------------------------------------------------------------------------
(* One record: _write puts it in the buffer, flushes and syncs it          *)

\* The record is made, and the stream has taken it.
Write(kind, parent, target, owner) ==
  /\ nextId <= MaxId
  /\ rec' = [rec EXCEPT ![nextId] = [kind |-> kind, parent |-> parent,
                                     target |-> target, turn |-> owner]]
  /\ nextId' = nextId + 1
  /\ buffer' = <<IF cache.torn THEN Malformed ELSE nextId>>
  /\ op' = [kind |-> kind, id |-> nextId, previous |-> head, offset |-> cache]
  /\ pc' = "flush"
  /\ UNCHANGED <<told, bounds>>

AppendMessage ==
  /\ pc = "idle"
  /\ turn # 0
  /\ ~broken
  /\ ~failed
  /\ Write("message", head, Root, turn)
  /\ UNCHANGED <<disk, cache, memory, client>>

\* A failed store takes no record: the turn is over but for its abort.
AppendRefused ==
  /\ pc = "idle"
  /\ turn # 0
  /\ ~broken
  /\ failed
  /\ broken' = TRUE
  /\ UNCHANGED <<rec, nextId, file, memory, pc, op, turn, begun, told, bounds>>

\* The flush is under way: a kill now leaves part of the line in the file.
PartlyFlushed ==
  /\ pc = "flush"
  /\ ~cache.torn
  /\ cache' = [cache EXCEPT !.torn = TRUE]
  /\ UNCHANGED <<rec, nextId, disk, buffer, memory, pc, op, client, told, bounds>>

FlushedAll ==
  /\ pc = "flush"
  /\ cache' = Flushed(cache, buffer)
  /\ buffer' = <<>>
  /\ pc' = "fsync"
  /\ UNCHANGED <<rec, nextId, disk, memory, op, client, told, bounds>>

Tell(answer) == told' = [told EXCEPT ![op.id] = answer]

\* Mutant of Synced: the head is the id after the new record's.
SyncedNext ==
  /\ pc = "fsync"
  /\ disk' = cache
  /\ IF op.kind = "session" THEN UNCHANGED <<entries, head>>
     ELSE entries' = entries \cup {op.id} /\ head' = nextId
  /\ \/ op.kind = "message" /\ Return /\ Tell("returned")
     \/ op.kind # "message" /\ pc' = "sync" /\ UNCHANGED <<op, told>>
  /\ UNCHANGED <<rec, nextId, cache, buffer, committed, failed, client, bounds>>

\* Mutant of Synced: the record is flushed but not synced.
SyncedNot ==
  /\ pc = "fsync"
  /\ disk' = disk
  /\ IF op.kind = "session" THEN UNCHANGED <<entries, head>>
     ELSE entries' = entries \cup {op.id} /\ head' = op.id
  /\ \/ op.kind = "message" /\ Return /\ Tell("returned")
     \/ op.kind # "message" /\ pc' = "sync" /\ UNCHANGED <<op, told>>
  /\ UNCHANGED <<rec, nextId, cache, buffer, committed, failed, client, bounds>>

\* The record is durable: a message is part of the working branch, a selection
\* is synced once more, and a header is all of a new journal.
Synced ==
  /\ pc = "fsync"
  /\ disk' = cache
  /\ IF op.kind = "session" THEN UNCHANGED <<entries, head>>
     ELSE entries' = entries \cup {op.id} /\ head' = op.id
  /\ \/ op.kind = "message" /\ Return /\ Tell("returned")
     \/ op.kind # "message" /\ pc' = "sync" /\ UNCHANGED <<op, told>>
  /\ UNCHANGED <<rec, nextId, cache, buffer, committed, failed, client, bounds>>

\* What an accepted selection leaves in memory.
Selected ==
  CASE op.kind = "turn_commit" -> committed' = op.id /\ head' = op.id
    [] op.kind = "state" ->
         /\ committed' = op.id
         /\ head' = IF op.previous # committed THEN op.previous ELSE op.id
    [] op.kind = "select" ->
         committed' = rec[op.id].target /\ head' = rec[op.id].target

SyncedAgain ==
  /\ pc = "sync"
  /\ disk' = cache
  /\ \/ op.kind = "session" /\ Opened(cache)
     \/ op.kind # "session" /\ Selected /\ Return /\ UNCHANGED <<entries, failed>>
  /\ turn' = IF op.kind = "turn_commit" THEN 0 ELSE turn
  /\ Tell("returned")
  /\ UNCHANGED <<rec, nextId, cache, buffer, broken, begun, bounds>>

-----------------------------------------------------------------------------
(* Failure: the latch, and the removal of a selection that was attempted   *)

\* Mutant of Raise: the head stays where the attempt had put it.
RaiseKeepsHead ==
  /\ pc' = CASE op.kind = "session" -> "closing"
             [] op.kind = "message" -> "idle"
             [] OTHER -> "seek"
  /\ op' = IF op.kind = "message" THEN NoOp ELSE op
  /\ head' = head
  /\ entries' = IF op.kind \in Durable THEN entries \ {op.id} ELSE entries
  /\ broken' = (broken \/ op.kind \in {"message", "turn_commit"})
  /\ IF op.kind = "session" THEN UNCHANGED told ELSE Tell("raised")
  /\ UNCHANGED <<rec, nextId, committed, turn, begun>>

\* The error reaches the caller, through the cleanup of a durable append.
Raise ==
  /\ pc' = CASE op.kind = "session" -> "closing"
             [] op.kind = "message" -> "idle"
             [] OTHER -> "seek"
  /\ op' = IF op.kind = "message" THEN NoOp ELSE op
  /\ head' = IF op.kind \in Durable THEN op.previous ELSE head
  /\ entries' = IF op.kind \in Durable THEN entries \ {op.id} ELSE entries
  /\ broken' = (broken \/ op.kind \in {"message", "turn_commit"})
  /\ IF op.kind = "session" THEN UNCHANGED told ELSE Tell("raised")
  /\ UNCHANGED <<rec, nextId, committed, turn, begun>>

\* Mutant of FlushFails: the store does not remember that it failed.
FlushUnlatched ==
  /\ pc = "flush"
  /\ Fault
  /\ failed' = failed
  /\ cache' \in {cache, [cache EXCEPT !.torn = TRUE]}
  /\ buffer' \in {buffer, <<>>}
  /\ Raise
  /\ UNCHANGED disk

\* Python keeps the rest of a small line for a later flush and drops the rest
\* of a large one, which it writes past the buffer.
FlushFails ==
  /\ pc = "flush"
  /\ Fault
  /\ failed' = TRUE
  /\ cache' \in {cache, [cache EXCEPT !.torn = TRUE]}
  /\ buffer' \in {buffer, <<>>}
  /\ Raise
  /\ UNCHANGED disk

SyncFails ==
  /\ pc \in {"fsync", "sync"}
  /\ Fault
  /\ failed' = TRUE
  /\ Raise
  /\ UNCHANGED file

\* Cleanup: seek(offset) writes the buffer out first, then truncate and sync.
Seek ==
  /\ pc = "seek"
  /\ cache' = Flushed(cache, buffer)
  /\ buffer' = <<>>
  /\ pc' = "truncate"
  /\ UNCHANGED <<rec, nextId, disk, memory, op, client, told, bounds>>

\* Mutant of Truncate: the attempted record stays.
TruncateNot ==
  /\ pc = "truncate"
  /\ cache' = cache
  /\ pc' = "cleansync"
  /\ UNCHANGED <<rec, nextId, disk, buffer, memory, op, client, told, bounds>>

\* Mutant of Truncate: the record before the attempted one goes too.
TruncateTooMuch ==
  /\ pc = "truncate"
  /\ cache' = [op.offset EXCEPT !.ids = SubSeq(@, 1, Len(@) - 1)]
  /\ pc' = "cleansync"
  /\ UNCHANGED <<rec, nextId, disk, buffer, memory, op, client, told, bounds>>

Truncate ==
  /\ pc = "truncate"
  /\ cache' = op.offset
  /\ pc' = "cleansync"
  /\ UNCHANGED <<rec, nextId, disk, buffer, memory, op, client, told, bounds>>

Cleaned ==
  /\ pc = "cleansync"
  /\ disk' = cache
  /\ Return
  /\ UNCHANGED <<rec, nextId, cache, buffer, memory, client, told, bounds>>

CleanupFails ==
  /\ pc \in {"seek", "truncate", "cleansync"}
  /\ Fault
  /\ failed' = TRUE
  /\ cache' \in {cache} \cup
       (IF buffer = <<>> THEN {} ELSE {[cache EXCEPT !.torn = TRUE]})
  /\ Return
  /\ UNCHANGED <<rec, nextId, disk, buffer, entries, head, committed, client, told>>

-----------------------------------------------------------------------------
(* Selections                                                              *)

\* A durable append of a working store: head is its parent while it runs.
\* A state that cannot be serialised raises before the stream takes anything.
DurableAppend(kind, parent, target) ==
  /\ ~failed
  /\ \/ /\ Write(kind, parent, target, turn)
        /\ head' = parent
        /\ UNCHANGED <<disk, cache, entries, committed, failed, client>>
     \/ /\ kind # "select"
        /\ pc' = "seek"
        /\ op' = [kind |-> kind, id |-> Root, previous |-> head, offset |-> cache]
        /\ broken' = (broken \/ kind = "turn_commit")
        /\ UNCHANGED <<rec, nextId, file, memory, turn, begun, told, bounds>>

\* A failed store first writes its buffer out, by seeking to the end of the file,
\* then refuses the record and removes what follows that end, which is nothing.
DurableRefused(kind) ==
  /\ failed
  /\ broken' = (broken \/ kind = "turn_commit")
  /\ \/ /\ cache' = Flushed(cache, buffer)
        /\ buffer' = <<>>
        /\ op' = [kind |-> kind, id |-> Root, previous |-> head, offset |-> cache']
        /\ pc' = "seek"
        /\ UNCHANGED bounds
     \/ /\ buffer # <<>>
        /\ Fault
        /\ cache' \in {cache, [cache EXCEPT !.torn = TRUE]}
        /\ UNCHANGED <<buffer, op, pc>>
  /\ UNCHANGED <<rec, nextId, disk, memory, turn, begun, told>>

Commit ==
  /\ pc = "idle"
  /\ turn # 0
  /\ ~broken
  /\ \/ DurableAppend("turn_commit", head, Root)
     \/ DurableRefused("turn_commit")

\* A command saves its plugin's state, whether a turn is open or not.
Checkpoint ==
  /\ pc = "idle"
  /\ \/ DurableAppend("state", committed, Root)
     \/ DurableRefused("state")

Fork ==
  /\ pc = "idle"
  /\ turn = 0
  /\ \E entry \in entries :
       /\ rec[entry].kind = "turn_commit"
       /\ \/ DurableAppend("select", entry, entry)
          \/ DurableRefused("select")

-----------------------------------------------------------------------------
(* The session's turns                                                     *)

BeginTurn ==
  /\ pc = "idle"
  /\ turn = 0
  /\ begun < MaxTurn
  /\ begun' = begun + 1
  /\ turn' = begun + 1
  /\ broken' = FALSE
  /\ UNCHANGED <<rec, nextId, file, memory, pc, op, told, bounds>>

\* Mutant of Abort: the working branch keeps the turn's messages.
AbortKeepsHead ==
  /\ pc = "idle"
  /\ turn # 0
  /\ head' = head
  /\ turn' = 0
  /\ broken' = FALSE
  /\ UNCHANGED <<rec, nextId, file, entries, committed, failed, pc, op, begun, told, bounds>>

\* _finish_turn of a turn that was not committed.
Abort ==
  /\ pc = "idle"
  /\ turn # 0
  /\ head' = committed
  /\ turn' = 0
  /\ broken' = FALSE
  /\ UNCHANGED <<rec, nextId, file, entries, committed, failed, pc, op, begun, told, bounds>>

-----------------------------------------------------------------------------
(* Closing and crashing                                                    *)

Close ==
  /\ pc = "idle"
  /\ turn = 0
  /\ pc' = "closing"
  /\ UNCHANGED <<rec, nextId, file, memory, op, client, told, bounds>>

\* stream.close() writes the buffer out; whether it can or not, it closes.
CloseStream ==
  /\ pc = "closing"
  /\ \/ cache' = Flushed(cache, buffer) /\ UNCHANGED bounds
     \/ /\ buffer # <<>>
        /\ Fault
        /\ cache' \in {cache, [cache EXCEPT !.torn = TRUE]}
  /\ buffer' = <<>>
  /\ Closed
  /\ UNCHANGED disk

\* The process is killed: what its stream held is gone.
Kill ==
  /\ pc # "closed"
  /\ Stop
  /\ buffer' = <<>>
  /\ Closed
  /\ UNCHANGED <<disk, cache>>

PowerLoss ==
  /\ Stop
  /\ cache' \in Between(disk, cache)
  /\ disk' = cache'
  /\ buffer' = <<>>
  /\ Closed

-----------------------------------------------------------------------------
Load == OpenNew \/ OpenSaved \/ OpenRefused \/ Trim \/ TrimSync \/ TrimFails

Step ==
  \/ PartlyFlushed \/ FlushedAll \/ Synced \/ SyncedAgain
  \/ FlushFails \/ SyncFails
  \/ Seek \/ Truncate \/ Cleaned \/ CleanupFails
  \/ CloseStream

Call ==
  \/ BeginTurn \/ AppendMessage \/ AppendRefused \/ Commit \/ Abort
  \/ Checkpoint \/ Fork \/ Close

Next == Load \/ Step \/ Call \/ Kill \/ PowerLoss

Spec == Init /\ [][Next]_vars

-----------------------------------------------------------------------------
(* Properties                                                              *)

\* Types of the state.
TypeOK ==
  /\ rec \in [Lines -> Record]
  /\ nextId \in 1..(MaxId + 1)
  /\ disk \in File /\ cache \in File
  /\ buffer \in {<<>>} \cup {<<i>> : i \in Lines}
  /\ entries \subseteq Ids
  /\ head \in Ids /\ committed \in Ids
  /\ failed \in BOOLEAN
  /\ pc \in {"closed", "trim", "trimsync", "idle", "flush", "fsync", "sync",
             "seek", "truncate", "cleansync", "closing"}
  /\ op \in OpRecord
  /\ turn \in 0..MaxTurn /\ broken \in BOOLEAN /\ begun \in 0..MaxTurn
  /\ told \in [Ids -> {"nothing", "returned", "raised"}]
  /\ faults \in 0..MaxFaults /\ stops \in 0..MaxStops

\* A journal whose header is durable loads again, whatever stopped its last writer
\* and at whatever step: _load never meets a broken parent chain, a duplicate
\* or a selected branch that is not in the file.
AlwaysLoads ==
  disk.ids # <<>> => \A f \in MayFind : Loads(f) /\ f.ids # <<>>

\* Whatever a reopening selects, its history holds whole turns: a turn whose
\* commit is on the branch with every message it recorded, or nothing of it
\* (snapshot over the branches commit, checkpoint, fork and abort build).
WholeTurns ==
  \A f \in MayFind : Loads(f) =>
    LET branch == Branch(Selection(f))
    IN \A i \in branch : rec[i].kind = "message" =>
         /\ \E c \in branch : rec[c].kind = "turn_commit" /\ rec[c].turn = rec[i].turn
         /\ \A j \in Ids : rec[j].kind = "message" /\ rec[j].turn = rec[i].turn
                             => j \in branch

\* Between operations, a store that has not failed mirrors its file: the same
\* records, the same selection, nothing pending and no torn line, so the next
\* record lands where the tree in memory says.
MemoryMirrorsFile ==
  pc = "idle" /\ ~failed =>
    /\ buffer = <<>> /\ ~cache.torn
    /\ entries = Elements(cache.ids) \ {Root}
    /\ committed = Selection(cache)

\* The file can be read back at every step, and what memory makes of it is true.
FileIsSound == TypeOK /\ AlwaysLoads /\ MemoryMirrorsFile

\* The working branch is the selected one and the messages of the open turn: a
\* checkpoint or a failed selection in the midst of a turn neither detaches its
\* messages nor adopts those of an aborted one.
WorkingBranch ==
  pc = "idle" =>
    \A i \in Branch(head) \ Branch(committed) :
      i \in entries /\ rec[i].kind = "message" /\ rec[i].turn = turn

\* No half of a turn is ever selected, on disk or by what memory will select next.
TurnsAreWhole == WholeTurns /\ WorkingBranch

\* What an operation returned to its caller is in every file a reopening may find:
\* neither the removal of a later attempt nor a power loss takes it away.
ReturnedIsKept ==
  \A f \in MayFind : {i \in Ids : told[i] = "returned"} \subseteq Elements(f.ids)

\* "A failed write/sync can leave a complete record behind. Remove only this
\* attempted append so reopening keeps the previous selection." (storage.py)
ReopenKeepsSelection == pc = "idle" => told[committed] # "raised"

\* The selections a reopening may find.
Candidates == {Selection(f) : f \in MayFind}

\* Once the removal of an attempted selection succeeds, no reopening finds
\* anything but the selection the store still reports.
RemovalIsComplete ==
  [][pc = "cleansync" /\ pc' = "idle" /\ faults' = faults /\ op.id # Root
       => Candidates' = {committed'}]_vars

\* What the caller was told is what a reopening finds: a record it was given is
\* kept, a selection that was taken back is gone.
OutcomeHolds == []ReturnedIsKept /\ RemovalIsComplete

\* The store implements DurableSelection.  A selection is an entry or, before the
\* first one, the header; the candidates are what any reopening may find.
Selections == Ids

Offering == op.kind \in Durable /\ pc \notin {"idle", "closing"}

Phase ==
  IF pc \in {"closed", "trim", "trimsync"} \/ op.kind = "session" THEN "closed"
  ELSE IF failed THEN "refusing"
  ELSE IF Offering THEN "offering" ELSE "open"

\* What the operation under way offers to select.
Offer ==
  IF Phase # "offering" THEN Root
  ELSE IF op.kind = "select" THEN rec[op.id].target ELSE op.id

Durability == INSTANCE DurableSelection WITH
  Nothing <- Root,
  phase <- Phase,
  selected <- IF Phase = "closed" THEN Root ELSE committed,
  offered <- Offer,
  candidates <- Candidates

\* Every behaviour of the journal is one of DurableSelection: a selection is
\* accepted when it is certain, rejected when nothing of it is left, and in
\* every other case the store refuses until it is reopened.
ImplementsSelection == Durability!Spec
=============================================================================
