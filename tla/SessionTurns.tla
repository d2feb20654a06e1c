---------------------------- MODULE SessionTurns ----------------------------
(***************************************************************************)
(* A session's conversation and plugin state in memory (raychat/session.py)*)
(* against what its journal holds, while a turn, a command on the command  *)
(* lane and a navigation (fork, reset) of one chat interleave.  The        *)
(* session's state lock makes each of their critical sections one action.  *)
(*                                                                         *)
(* The store is what SessionJournal implements: a selection that an        *)
(* accepted operation replaces and a failed one leaves in doubt, after     *)
(* which the store refuses until it is reopened.  A reset opens another    *)
(* journal, and may fail at every step of it.                              *)
(***************************************************************************)
EXTENDS Naturals, Sequences, FiniteSets

CONSTANTS Owners,               \* plugins with state of their own
          MaxTurn,              \* bound: turns begun
          MaxMessage,           \* bound: messages of a conversation
          MaxVersion,           \* bound: changes of plugin state
          MaxFailures           \* bound: store operations and hooks that raise

ASSUME SessionAssumption ==
  MaxTurn \in Nat /\ MaxMessage \in Nat /\ MaxVersion \in Nat /\ MaxFailures \in Nat

VARIABLES
  history,     \* AgentSession._history: the turn of every message
  memory,      \* runtime.state: the version of every owner's state
  turn,        \* the frame of the turn under way
  cmd,         \* the frame of the command under way
  nav,         \* the frame of the fork or reset under way
  saved,       \* the snapshot the store has selected
  branch,      \* the history on the store's working branch
  commits,     \* the snapshots of completed turns in the store's tree
  candidates,  \* the snapshots a reopening may find
  failed,      \* SessionStore.failed, or its stream is closed
  clock,       \* versions made so far
  author,      \* history: the turn that made a version, 0 for a command
  begun,       \* turns begun so far
  failures,    \* store operations and hooks that raised so far
  accepted,    \* history: turns whose commit returned
  offered,     \* history: turns whose commit was attempted
  explicit,    \* history: versions a command of their owner saves
  kept,        \* history: the version of each owner its last save made durable
  stale,       \* history: a reset, or the undoing of a refused fork, failed
  unsaved,     \* history: owners whose command could not save its change
  disputed     \* history: an unsaved change met a navigation or a raising hook

session == <<history, memory>>
store == <<saved, branch, commits, candidates, failed>>
apart == <<stale, unsaved, disputed>>
ghosts == <<author, accepted, offered, explicit, kept, apart>>
vars == <<session, turn, cmd, nav, store, clock, begun, failures, ghosts>>

Turns == 1..MaxTurn
Versions == 1..MaxVersion
State == [Owners -> 0..MaxVersion]
NoState == [o \in Owners |-> 0]
Snapshot == [history : Seq(Turns), state : State]
NoSnapshot == [history |-> <<>>, state |-> NoState]
Elements(s) == {s[i] : i \in DOMAIN s}

\* The frame of turn(): `live` says that _rollback_state is not None, `owners`
\* is _checkpoint_owners.  `child` is the snapshot of an isolated child and, once
\* that is restored, what it replaced.
NoTurn == [pc |-> "none", id |-> 0, live |-> FALSE, start |-> <<>>,
           rollback |-> NoState, owners |-> {}, child |-> NoSnapshot]
NoCommand == [pc |-> "none", owner |-> "none", version |-> 0]

\* The frame of _fork: `previous` is its export, `replaced` what its restore_snapshot
\* puts back when a hook raises.
NoNavigation == [pc |-> "none", target |-> NoSnapshot, previous |-> NoSnapshot,
                 replaced |-> NoSnapshot]

Init ==
  /\ history = <<>> /\ memory = NoState
  /\ turn = NoTurn /\ cmd = NoCommand /\ nav = NoNavigation
  /\ saved = NoSnapshot /\ branch = <<>> /\ commits = {}
  /\ candidates = {NoSnapshot} /\ failed = FALSE
  /\ clock = 0 /\ begun = 0 /\ failures = 0
  /\ author = [v \in Versions |-> 0]
  /\ accepted = {} /\ offered = {} /\ explicit = {} /\ kept = NoState
  /\ stale = FALSE /\ unsaved = {} /\ disputed = FALSE

-----------------------------------------------------------------------------
(* The store                                                               *)

\* A store operation raises although the store is usable, or a hook raises.
Fail == failures < MaxFailures /\ failures' = failures + 1

\* An operation on the store returned: only its snapshot can be found again.
Accept(snapshot) ==
  /\ ~failed
  /\ saved' = snapshot
  /\ candidates' = {snapshot}
  /\ UNCHANGED <<failed, failures>>

\* It raised: as the store refuses; without writing, as its lock is held elsewhere; or
\* while it wrote: then the store refuses from now on, and what it tried may be found.
Refuse(snapshot) ==
  /\ \/ failed /\ UNCHANGED <<failed, candidates, failures>>
     \/ /\ ~failed
        /\ Fail
        /\ \/ UNCHANGED <<failed, candidates>>
           \/ /\ failed' = TRUE
              /\ candidates' \in {candidates, candidates \cup {snapshot}}
  /\ UNCHANGED saved

\* The completed turns that the store knows: none when a reset opened another journal
\* and failed then.
Tree == IF saved = NoSnapshot THEN {} ELSE commits

\* A new version of an owner's state, in the object `runtime.state` is now.
Change(owner, maker) ==
  /\ clock < MaxVersion
  /\ clock' = clock + 1
  /\ author' = [author EXCEPT ![clock'] = maker]

-----------------------------------------------------------------------------
(* Turns                                                                   *)

\* Mutant of BeginTurn: the identifier of the turn before is used again.
BeginTurnAgain ==
  /\ turn.pc = "none"
  /\ nav.pc = "none"
  /\ begun < MaxTurn
  /\ begun' = begun + 1
  /\ \E pc \in {"open", "launch"} :
       turn' = [pc |-> pc, id |-> begun, live |-> TRUE, start |-> history,
                rollback |-> memory, owners |-> {}, child |-> NoSnapshot]
  /\ UNCHANGED <<session, cmd, nav, store, clock, failures, ghosts>>

\* turn(): a local conversation, or one in an isolated child.
BeginTurn ==
  /\ turn.pc = "none"
  /\ nav.pc = "none"
  /\ begun < MaxTurn
  /\ begun' = begun + 1
  /\ \E pc \in {"open", "launch"} :
       turn' = [pc |-> pc, id |-> begun', live |-> TRUE, start |-> history,
                rollback |-> memory, owners |-> {}, child |-> NoSnapshot]
  /\ UNCHANGED <<session, cmd, nav, store, clock, failures, ghosts>>

\* _add_history: memory first, then the working branch.
Message ==
  /\ turn.pc = "open"
  /\ Len(history) < MaxMessage
  /\ history' = Append(history, turn.id)
  /\ \/ /\ ~failed
        /\ branch' = Append(branch, turn.id)
        /\ UNCHANGED <<turn, failed, failures>>
     \/ /\ \/ failed /\ UNCHANGED <<failed, failures>>
           \/ ~failed /\ Fail /\ failed' \in BOOLEAN
        /\ turn' = [turn EXCEPT !.pc = "failing"]
        /\ UNCHANGED branch
  /\ UNCHANGED <<memory, cmd, nav, saved, commits, candidates, clock, begun, ghosts>>

\* A tool of the turn changes its plugin's state.
TurnChange ==
  /\ turn.pc = "open"
  /\ \E o \in Owners :
       Change(o, turn.id) /\ memory' = [memory EXCEPT ![o] = clock']
  /\ UNCHANGED <<history, turn, cmd, nav, store, begun, failures, accepted, offered, explicit,
                 kept, apart>>

\* The isolated child starts from an export of the session.
StartChild ==
  /\ turn.pc = "launch"
  /\ turn' = [turn EXCEPT !.pc = "child",
                          !.child = [history |-> history, state |-> memory]]
  /\ UNCHANGED <<session, cmd, nav, store, clock, begun, failures, ghosts>>

ChildMessage ==
  /\ turn.pc = "child"
  /\ Len(turn.child.history) < MaxMessage
  /\ turn' = [turn EXCEPT !.child.history = Append(@, turn.id)]
  /\ UNCHANGED <<session, cmd, nav, store, clock, begun, failures, ghosts>>

ChildChange ==
  /\ turn.pc = "child"
  /\ \E o \in Owners :
       Change(o, turn.id) /\ turn' = [turn EXCEPT !.child.state[o] = clock']
  /\ UNCHANGED <<session, cmd, nav, store, begun, failures, accepted, offered, explicit, kept, apart>>

\* Mutant of Restore: the child's older copy of a saved state wins.
RestoreAll ==
  /\ turn.pc = "child"
  /\ history' = turn.child.history
  /\ memory' = turn.child.state
  /\ turn' = [turn EXCEPT !.pc = "restored",
                          !.child = [history |-> history, state |-> memory]]
  /\ UNCHANGED <<cmd, nav, store, clock, begun, failures, ghosts>>

\* complete_snapshot, first half: the child's snapshot replaces the session's, but
\* for what commands saved meanwhile.
Restore ==
  /\ turn.pc = "child"
  /\ history' = turn.child.history
  /\ memory' = [o \in Owners |-> IF o \in turn.owners THEN turn.rollback[o]
                                                      ELSE turn.child.state[o]]
  /\ turn' = [turn EXCEPT !.pc = "restored",
                          !.child = [history |-> history, state |-> memory]]
  /\ UNCHANGED <<cmd, nav, store, clock, begun, failures, ghosts>>

\* A restore hook raises: what was replaced comes back, without the change of a command
\* that did not save it yet.
RestoreFails ==
  /\ turn.pc = "restored"
  /\ Fail
  /\ history' = turn.child.history
  /\ memory' = turn.child.state
  /\ turn' = [turn EXCEPT !.pc = "failing"]
  /\ disputed' = (disputed \/ cmd.pc = "changed")
  /\ UNCHANGED <<cmd, nav, store, clock, begun, author, accepted, offered, explicit, kept,
                 stale, unsaved>>

\* What complete_snapshot appends to the working branch: the child's new messages.
ChildMessages ==
  IF turn.pc = "restored"
  THEN SubSeq(history, Len(turn.child.history) + 1, Len(history)) ELSE <<>>

\* commit_turn, after the second half of complete_snapshot for a child's turn.  The
\* store saves its working branch with the session's state.  Messages appended before
\* a refusal are not followed: Finish takes the branch back.
Commit ==
  LET messages == branch \o ChildMessages
      snapshot == [history |-> messages, state |-> memory]
  IN /\ turn.pc \in {"open", "restored"}
     /\ turn.id \in Elements(messages)
     /\ offered' = offered \cup {turn.id}
     /\ \/ /\ Accept(snapshot)
           /\ branch' = messages
           /\ commits' = Tree \cup {snapshot}
           /\ accepted' = accepted \cup {turn.id}
           /\ turn' = [turn EXCEPT !.pc = "committed", !.live = FALSE]
           /\ unsaved' = {}
        \/ /\ Refuse(snapshot)
           /\ turn' = [turn EXCEPT !.pc = "failing"]
           /\ UNCHANGED <<branch, commits, accepted, unsaved>>
     /\ UNCHANGED <<session, cmd, nav, clock, begun, author, explicit, kept, stale, disputed>>

\* Mutants of Finish: the working branch keeps the messages of the turn, or memory
\* keeps the state its tools made.
FinishKeepsBranch ==
  /\ turn.pc \notin {"none", "ending"}
  /\ IF turn.live
     THEN /\ history' = turn.start
          /\ memory' = turn.rollback
          /\ UNCHANGED branch
     ELSE UNCHANGED <<session, branch>>
  /\ turn' = [NoTurn EXCEPT !.pc = "ending"]
  /\ UNCHANGED <<cmd, nav, saved, commits, candidates, failed, clock, begun, failures, ghosts>>

FinishKeepsState ==
  /\ turn.pc \notin {"none", "ending"}
  /\ IF turn.live
     THEN /\ history' = turn.start
          /\ branch' = saved.history
          /\ UNCHANGED memory
     ELSE UNCHANGED <<session, branch>>
  /\ turn' = [NoTurn EXCEPT !.pc = "ending"]
  /\ UNCHANGED <<cmd, nav, saved, commits, candidates, failed, clock, begun, failures, ghosts>>

\* _finish_turn: a turn that did not commit, wherever it stopped, is undone.
Finish ==
  /\ turn.pc \notin {"none", "ending"}
  /\ IF turn.live
     THEN /\ history' = turn.start
          /\ memory' = turn.rollback
          /\ branch' = saved.history
     ELSE UNCHANGED <<session, branch>>
  /\ turn' = [NoTurn EXCEPT !.pc = "ending"]
  /\ UNCHANGED <<cmd, nav, saved, commits, candidates, failed, clock, begun, failures, ghosts>>

\* Abort hooks are over: the next turn may begin.
End ==
  /\ turn.pc = "ending"
  /\ turn' = NoTurn
  /\ UNCHANGED <<session, cmd, nav, store, clock, begun, failures, ghosts>>

-----------------------------------------------------------------------------
(* Commands                                                                *)

\* A command changes `ctx.state`, which is looked up in runtime.state.
CommandChange ==
  /\ cmd.pc = "none"
  /\ disputed' = (disputed \/ nav.pc # "none")
  /\ \E o \in Owners :
       /\ Change(o, 0)
       /\ memory' = [memory EXCEPT ![o] = clock']
       /\ cmd' = [pc |-> "changed", owner |-> o, version |-> clock']
  /\ UNCHANGED <<history, turn, nav, store, begun, failures, accepted, offered, explicit, kept,
                 stale, unsaved>>

\* Mutant of Checkpointed: everything in memory is saved with the owner's state.
CheckpointedAll(owner) == memory

\* The state checkpoint(owner) makes durable: of a turn under way, only what it
\* started from and what this owner has in memory now.
Checkpointed(owner) ==
  [IF turn.live THEN turn.rollback ELSE memory EXCEPT ![owner] = memory[owner]]

\* ctx.checkpoint() of the command.
Checkpoint ==
  LET owner == cmd.owner
      state == Checkpointed(owner)
      snapshot == [history |-> saved.history, state |-> state]
  IN /\ cmd.pc = "changed"
     /\ explicit' = explicit \cup {memory[owner]}
     /\ \/ /\ Accept(snapshot)
           /\ turn' = IF turn.live
                      THEN [turn EXCEPT !.rollback = state, !.owners = @ \cup {owner}]
                      ELSE turn
           /\ kept' = [kept EXCEPT ![owner] = IF @ < memory[owner] THEN memory[owner] ELSE @]
           /\ cmd' = [cmd EXCEPT !.pc = "saved"]
           /\ unsaved' = {}
        \/ /\ Refuse(snapshot)
           /\ cmd' = NoCommand
           /\ unsaved' = unsaved \cup {owner}
           /\ UNCHANGED <<turn, kept>>
     /\ UNCHANGED <<session, nav, branch, commits, clock, begun, author, accepted,
                    offered, stale, disputed>>

\* The command reports its result: the user may rely on what it saved.
CommandReturns ==
  /\ cmd.pc = "saved"
  /\ cmd' = NoCommand
  /\ UNCHANGED <<session, turn, nav, store, clock, begun, failures, ghosts>>

-----------------------------------------------------------------------------
(* Navigation, on the thread that also runs the turns                      *)

\* What a fork may not undercut, whether it succeeds or not: nobody saved more.
Older(s, t) == [o \in Owners |-> IF s[o] < t[o] THEN s[o] ELSE t[o]]

\* _fork reads the target from the store and exports the session.
ForkBegin ==
  /\ turn.pc = "none"
  /\ nav.pc = "none"
  /\ disputed' = (disputed \/ cmd.pc = "changed")
  /\ \E target \in Tree :
       nav' = [NoNavigation EXCEPT !.pc = "begun", !.target = target,
                 !.previous = [history |-> history, state |-> memory]]
  /\ UNCHANGED <<session, turn, cmd, store, clock, begun, failures, author, accepted, offered,
                 explicit, kept, stale, unsaved>>

\* It restores the target first, so that a failing hook changes nothing.
ForkRestore ==
  /\ nav.pc = "begun"
  /\ history' = nav.target.history
  /\ memory' = nav.target.state
  /\ nav' = [nav EXCEPT !.pc = "fork", !.replaced = [history |-> history, state |-> memory]]
  /\ UNCHANGED <<turn, cmd, store, clock, begun, failures, ghosts>>

\* A restore hook raises: what was replaced comes back, and the fork is over.
ForkFails ==
  /\ nav.pc = "fork"
  /\ Fail
  /\ history' = nav.replaced.history
  /\ memory' = nav.replaced.state
  /\ nav' = NoNavigation
  /\ UNCHANGED <<turn, cmd, store, clock, begun, ghosts>>

\* Then it selects the target, or restores what the session had.
ForkSelect ==
  /\ nav.pc = "fork"
  /\ kept' = Older(kept, nav.target.state)
  /\ \/ /\ Accept(nav.target)
        /\ branch' = nav.target.history
        /\ nav' = NoNavigation
        /\ stale' = FALSE
        /\ unsaved' = {}
        /\ UNCHANGED session
     \/ /\ Refuse(nav.target)
        /\ history' = nav.previous.history
        /\ memory' = nav.previous.state
        /\ nav' = [nav EXCEPT !.pc = "undo", !.replaced = [history |-> history, state |-> memory]]
        /\ UNCHANGED <<branch, stale, unsaved>>
  /\ UNCHANGED <<turn, cmd, commits, clock, begun, author, accepted, offered, explicit, disputed>>

\* The hooks of that restore return, or one raises and the session is at the target
\* again, which the store did not select.
ForkUndone ==
  /\ nav.pc = "undo"
  /\ \/ UNCHANGED <<session, stale, failures>>
     \/ /\ Fail
        /\ history' = nav.replaced.history
        /\ memory' = nav.replaced.state
        /\ stale' = TRUE
  /\ nav' = NoNavigation
  /\ UNCHANGED <<turn, cmd, store, clock, begun, author, accepted, offered, explicit, kept,
                 unsaved, disputed>>

\* reset() clears the session, then starts another journal.
ResetMemory ==
  /\ turn.pc = "none"
  /\ nav.pc = "none"
  /\ history' = <<>>
  /\ memory' = NoState
  /\ kept' = NoState
  /\ disputed' = FALSE
  /\ nav' = [NoNavigation EXCEPT !.pc = "reset"]
  /\ UNCHANGED <<turn, cmd, store, clock, begun, failures, author, accepted, offered, explicit, stale,
                 unsaved>>

\* new_session() has closed the old journal and opened the next.
ResetStore ==
  /\ nav.pc = "reset"
  /\ saved' = NoSnapshot
  /\ branch' = <<>>
  /\ commits' = {}
  /\ candidates' = {NoSnapshot}
  /\ failed' = FALSE
  /\ stale' = FALSE
  /\ unsaved' = {}
  /\ nav' = NoNavigation
  /\ UNCHANGED <<session, turn, cmd, clock, begun, failures, author, accepted, offered, explicit, kept,
                 disputed>>

\* It raised, and the session stays empty: before the old journal was closed, before the
\* next was open, or when the next was empty and its first record could not be written.
ResetFails ==
  /\ nav.pc = "reset"
  /\ Fail
  /\ \/ UNCHANGED <<saved, branch, candidates, failed>>
     \/ /\ failed' = TRUE
        /\ UNCHANGED <<saved, branch, candidates>>
     \/ /\ failed' = TRUE
        /\ saved' = NoSnapshot
        /\ branch' = <<>>
        /\ candidates' = candidates \cup {NoSnapshot}
  /\ stale' = TRUE
  /\ nav' = NoNavigation
  /\ UNCHANGED <<session, turn, cmd, commits, clock, begun, author, accepted, offered,
                 explicit, kept, unsaved, disputed>>

-----------------------------------------------------------------------------
\* The process ends at any step; the session is restored from a candidate.  Only the
\* store's next write makes sure that no other is found after another crash.
Crash ==
  /\ \E snapshot \in candidates :
       /\ history' = snapshot.history
       /\ memory' = snapshot.state
       /\ saved' = snapshot
       /\ branch' = snapshot.history
       /\ accepted' = accepted \cup (Elements(snapshot.history))
       /\ \/ /\ candidates' = {snapshot}
             /\ kept' = snapshot.state
             /\ disputed' = FALSE
          \/ UNCHANGED <<candidates, kept, disputed>>
  /\ failed' = FALSE /\ stale' = FALSE /\ unsaved' = {}
  /\ turn' = NoTurn /\ cmd' = NoCommand /\ nav' = NoNavigation
  /\ UNCHANGED <<commits, clock, begun, failures, author, offered, explicit>>

TurnStep ==
  \/ BeginTurn \/ Message \/ TurnChange \/ Commit \/ Finish \/ End
  \/ StartChild \/ ChildMessage \/ ChildChange \/ Restore \/ RestoreFails

CommandStep == CommandChange \/ Checkpoint \/ CommandReturns
NavigationStep ==
  \/ ForkBegin \/ ForkRestore \/ ForkFails \/ ForkSelect \/ ForkUndone
  \/ ResetMemory \/ ResetStore \/ ResetFails

Next == TurnStep \/ CommandStep \/ NavigationStep \/ Crash

Spec == Init /\ [][Next]_vars

-----------------------------------------------------------------------------
(* Properties                                                              *)

\* Types of the state.
TypeOK ==
  /\ history \in Seq(Turns) /\ memory \in State
  /\ turn.pc \in {"none", "open", "launch", "child", "restored", "failing",
                  "committed", "ending"}
  /\ turn.id \in 0..MaxTurn /\ turn.live \in BOOLEAN
  /\ turn.start \in Seq(Turns) /\ turn.rollback \in State
  /\ turn.owners \subseteq Owners /\ turn.child \in Snapshot
  /\ cmd.pc \in {"none", "changed", "saved"} /\ cmd.version \in 0..MaxVersion
  /\ nav.pc \in {"none", "begun", "fork", "undo", "reset"}
  /\ nav.target \in Snapshot /\ nav.previous \in Snapshot /\ nav.replaced \in Snapshot
  /\ saved \in Snapshot /\ branch \in Seq(Turns)
  /\ commits \subseteq Snapshot /\ candidates \subseteq Snapshot
  /\ failed \in BOOLEAN
  /\ clock \in 0..MaxVersion /\ begun \in 0..MaxTurn /\ failures \in 0..MaxFailures
  /\ explicit \subseteq 0..MaxVersion /\ kept \in State
  /\ stale \in BOOLEAN /\ unsaved \subseteq Owners /\ disputed \in BOOLEAN

Quiet == turn.pc = "none" /\ cmd.pc = "none" /\ nav.pc = "none"

\* When nothing is under way, the session and the store agree on conversation, working
\* branch and every plugin's state, after any mix of committed, cancelled and failed
\* turns, command checkpoints and forks, also when the store has failed: what the user
\* sees is what it selected.  The code breaks it in four cases, which are left out by
\* name: a reset whose new_session raised, or a refused fork whose undoing raised, until
\* the next reset, fork or restart that succeeds (`stale`); a plugin whose checkpoint
\* raised, until the next save (`unsaved`); and `disputed`, a command that changes its
\* state beside a navigation, or has not saved a change when a fork begins or the hook
\* that restores a child's snapshot raises, until the next reset or restart.
QuietMatchesStore ==
  Quiet /\ ~stale /\ ~disputed =>
    /\ history = saved.history
    /\ branch = saved.history
    /\ \A o \in Owners \ unsaved : memory[o] = saved.state[o]

\* A state that was made by a turn, or by nobody, or that its owner saved.
Admitted(state, turns) ==
  \A o \in Owners : LET v == state[o]
                    IN v = 0 \/ author[v] \in turns \cup {0} \/ v \in explicit

\* A checkpoint "does not commit that unfinished conversation or another plugin's
\* uncommitted state" (docs/PLUGINS.md): whatever a reopening finds, its messages
\* and plugin states come from turns that reached their commit.
CheckpointAdmitsNoTurn ==
  \A c \in candidates :
    Elements(c.history) \subseteq offered /\ Admitted(c.state, offered)

\* After a turn that did not commit, neither the conversation nor any plugin's
\* state holds anything of it, except what a plugin's own command saved.
AbortLeavesNothing ==
  turn.pc \in {"none", "ending"} /\ nav.pc = "none" =>
    Elements(history) \subseteq accepted /\ Admitted(memory, accepted)

\* Nothing of an unfinished or failed turn stays, in the journal or in memory.
UncommittedLeavesNothing == TypeOK /\ CheckpointAdmitsNoTurn /\ AbortLeavesNothing

\* A saved change outlives the turn it ran beside, whether that turn commits a
\* child's older copy, is cancelled or fails, and a crash at any step: no snapshot
\* a reopening finds, and no idle session, has an older version of that plugin, but
\* for the two cases that `disputed` names: a command that changes its state beside a
\* navigation, or has not saved a change when a fork begins or the hook that restores a
\* child's snapshot raises.
SavedChangeSurvives ==
  ~disputed => \A o \in Owners :
    /\ \A c \in candidates : c.state[o] >= kept[o]
    /\ Quiet => memory[o] >= kept[o]

\* "`ctx.checkpoint()` saves command-driven state changes when session storage is
\* enabled." (docs/PLUGINS.md): a checkpoint that returns has saved the change the
\* command made before it, or a later one.
CommandChangeSaved ==
  [][cmd.pc = "changed" /\ cmd'.pc = "saved"
       => saved'.state[cmd.owner] >= cmd.version]_vars
=============================================================================
