-------------------------- MODULE SessionTurnsProofs --------------------------
(* For every set of plugins and every bound: what a turn that did not       *)
(* commit did is nowhere, an idle session is what its journal holds unless  *)
(* it is stale, disputed or, for one plugin's state, unsaved, and           *)
(* what a command saved outlives the turn it ran beside. And of the batch   *)
(* that a turn may delegate: what its requests and its catalog report is    *)
(* true; and of the files that are replaced together: all of them or none.  *)
EXTENDS SessionTurns, Delegation, WorkspaceTransaction, SequenceTheorems, TLAPS

(* The versions made so far, and the snapshots of them.                     *)
Made == [Owners -> 0..clock]
Snap == [history : Seq(Turns), state : Made]

Place == {"none", "open", "launch", "child", "restored", "failing", "committed", "ending"}
Stage == {"none", "begun", "fork", "undo", "reset"}
TurnFrame == [pc : Place, id : 0..MaxTurn, live : BOOLEAN, start : Seq(Turns), rollback : Made,
              owners : SUBSET Owners, child : Snap]
CommandFrame == [pc : {"none", "changed", "saved"}, owner : Owners \cup {"none"}, version : 0..clock]
NavigationFrame == [pc : Stage, target : Snap, previous : Snap, replaced : Snap]

Counters == clock \in 0..MaxVersion /\ begun \in 0..MaxTurn /\ failures \in 0..MaxFailures
Flags == failed \in BOOLEAN /\ stale \in BOOLEAN /\ disputed \in BOOLEAN

SessionFits == history \in Seq(Turns) /\ memory \in Made
FramesFit == turn \in TurnFrame /\ cmd \in CommandFrame /\ nav \in NavigationFrame
StoreFits == saved \in Snap /\ branch \in Seq(Turns) /\ commits \subseteq Snap /\ candidates \subseteq Snap
GhostsFit ==
  /\ author \in [Versions -> 0..MaxTurn] /\ explicit \subseteq 0..MaxVersion /\ kept \in Made
  /\ accepted \subseteq offered /\ offered \subseteq Turns /\ unsaved \subseteq Owners
Types == Counters /\ Flags /\ SessionFits /\ FramesFit /\ StoreFits /\ GhostsFit

(* What the three frames exclude of each other, and where the working       *)
(* branch is: at the selection, but while a local turn appends to it.       *)
Frames ==
  /\ turn.live <=> turn.pc \in {"open", "launch", "child", "restored", "failing"}
  /\ turn.live => turn.id \in Turns
  /\ nav.pc # "none" => turn.pc = "none"
  /\ cmd.pc # "none" => cmd.owner \in Owners
  /\ turn.pc \notin {"open", "failing"} => branch = saved.history
  /\ nav.pc = "reset" => history = <<>>

(* Messages h and a state s that come from the turns T alone, or that       *)
(* commands saved: a are the authors of versions, e what commands saved.    *)
Admits(s, T, a, e) == \A o \in Owners : s[o] = 0 \/ a[s[o]] \in T \cup {0} \/ s[o] \in e
Clean(h, s, T, a, e) == Elements(h) \subseteq T /\ Admits(s, T, a, e)

(* A turn under way is seen in memory, in its child and on its branch only. *)
Owned ==
  /\ \A c \in candidates : /\ Elements(c.history) \subseteq offered
                            /\ Clean(c.history, c.state, accepted \cup Elements(c.history), author, explicit)
  /\ \A c \in commits : Clean(c.history, c.state, accepted, author, explicit)
  /\ Elements(saved.history) \subseteq accepted
  /\ ~turn.live => Clean(history, memory, accepted, author, explicit)
  /\ turn.live =>
       /\ Clean(turn.start, turn.rollback, accepted, author, explicit)
       /\ Clean(history, memory, accepted \cup {turn.id}, author, explicit)
       /\ Clean(turn.child.history, turn.child.state, accepted \cup {turn.id}, author, explicit)
       /\ Elements(branch) \subseteq accepted \cup {turn.id}
  /\ nav.pc \in {"begun", "fork", "undo"} =>
       /\ Clean(nav.target.history, nav.target.state, accepted, author, explicit)
       /\ Clean(nav.previous.history, nav.previous.state, accepted, author, explicit)
       /\ Clean(nav.replaced.history, nav.replaced.state, accepted, author, explicit)

(* No command changes what a navigation reads at one step and writes at     *)
(* another.                                                                 *)
Beside ==
  ~disputed =>
    /\ nav.pc \in {"begun", "fork", "undo"} => cmd.pc # "changed"
    /\ nav.pc = "reset" => memory = NoState
    /\ nav.pc = "begun" => history = nav.previous.history /\ memory = nav.previous.state
    /\ nav.pc = "fork" => /\ history = nav.target.history /\ memory = nav.target.state
                          /\ nav.replaced = nav.previous
    /\ nav.pc = "undo" => history = nav.previous.history /\ memory = nav.previous.state

(* What the session has without the turn under way is what the journal has, *)
(* but for changes that a command has still to save, or could not save.     *)
Start == IF turn.live THEN turn.start ELSE history
Base == IF turn.live THEN turn.rollback ELSE memory
Matches(s) == \A o \in Owners : s[o] = saved.state[o] \/ o \in unsaved \/ (cmd.pc = "changed" /\ o = cmd.owner)
Continues(s, t) == Len(s) <= Len(t) /\ \A i \in 1..Len(s) : t[i] = s[i]

Stored ==
  ~disputed /\ ~stale =>
    /\ nav.pc = "none" => Start = saved.history /\ Matches(Base)
    /\ nav.pc \in {"begun", "fork", "undo"} => nav.previous.history = saved.history /\ Matches(nav.previous.state)

(* What the turn appended is the same in memory and on its branch.          *)
Appends ==
  /\ ~disputed /\ ~stale /\ turn.pc = "open" => branch = history
  /\ turn.pc \in {"launch", "child"} => history = turn.start
  /\ turn.pc = "child" => Continues(turn.start, turn.child.history)
  /\ turn.pc = "restored" => turn.child.history = turn.start /\ Continues(turn.start, history)

(* Nothing that may become the session's state is older than what was saved. *)
Newer ==
  ~disputed =>
    \A o \in Owners :
      /\ \A c \in candidates : kept[o] <= c.state[o]
      /\ turn.pc # "failing" /\ nav.pc # "fork" => kept[o] <= memory[o]
      /\ cmd.pc = "changed" /\ o = cmd.owner => kept[o] <= memory[o]
      /\ turn.live => kept[o] <= turn.rollback[o]
      /\ turn.pc = "child" /\ o \notin turn.owners => kept[o] <= turn.child.state[o]
      /\ nav.pc \in {"begun", "fork", "undo"} => kept[o] <= nav.previous.state[o]
      /\ nav.pc \in {"fork", "undo"} => kept[o] <= nav.replaced.state[o]

Inv == Types /\ Frames /\ Owned /\ Beside /\ Stored /\ Appends /\ Newer

LEMMA Sizes == MaxTurn \in Nat /\ MaxMessage \in Nat /\ MaxVersion \in Nat /\ MaxFailures \in Nat
  BY SessionAssumption

LEMMA CleanGrows ==
  ASSUME NEW h, NEW s, NEW T, NEW T2, NEW a, NEW e, NEW e2, Clean(h, s, T, a, e), T \subseteq T2, e \subseteq e2
  PROVE  Clean(h, s, T2, a, e2)
  BY DEF Clean, Admits

LEMMA CleanEmpty == ASSUME NEW T, NEW a, NEW e PROVE Clean(<<>>, NoState, T, a, e) /\ Elements(<<>>) = {}
  BY DEF Clean, Admits, NoState, Elements

LEMMA Appended ==
  ASSUME NEW S, NEW h \in Seq(S), NEW t \in S
  PROVE  Append(h, t) \in Seq(S) /\ Elements(Append(h, t)) = Elements(h) \cup {t}
<1>1. /\ Append(h, t) \in Seq(S) /\ Len(Append(h, t)) = Len(h) + 1 /\ Len(h) \in Nat
      /\ DOMAIN h = 1..Len(h) /\ DOMAIN Append(h, t) = 1..(Len(h) + 1)
      /\ \A i \in 1..Len(h) : Append(h, t)[i] = h[i]
      /\ Append(h, t)[Len(h) + 1] = t
  BY AppendProperties
<1>2. ASSUME NEW x \in Elements(Append(h, t)) PROVE x \in Elements(h) \cup {t}
  <2>1. PICK i \in 1..(Len(h) + 1) : x = Append(h, t)[i]
    BY <1>1 DEF Elements
  <2>2. i \in 1..Len(h) \/ i = Len(h) + 1
    BY <1>1
  <2> QED BY <1>1, <2>1, <2>2 DEF Elements
<1>3. ASSUME NEW x \in Elements(h) \cup {t} PROVE x \in Elements(Append(h, t))
  <2>1. CASE x = t
    BY <1>1, <2>1 DEF Elements
  <2>2. CASE x \in Elements(h)
    <3>1. PICK i \in 1..Len(h) : x = h[i]
      BY <1>1, <2>2 DEF Elements
    <3> QED BY <1>1, <3>1 DEF Elements
  <2> QED BY <1>3, <2>1, <2>2
<1> QED BY <1>1, <1>2, <1>3

LEMMA CleanAppend ==
  ASSUME NEW S, NEW h \in Seq(S), NEW s, NEW T, NEW a, NEW e, NEW t \in S, t \in T, Clean(h, s, T, a, e)
  PROVE  Clean(Append(h, t), s, T, a, e)
  BY Appended DEF Clean

LEMMA CleanExcept ==
  ASSUME NEW h, NEW s \in [Owners -> Nat], NEW T, NEW a, NEW e, Clean(h, s, T, a, e),
         NEW o \in Owners, NEW v, v = 0 \/ a[v] \in T \cup {0} \/ v \in e
  PROVE  Clean(h, [s EXCEPT ![o] = v], T, a, e)
  BY DEF Clean, Admits

LEMMA JoinedParts ==
  ASSUME NEW S, NEW h \in Seq(S), NEW u \in Seq(S)
  PROVE  h \o u \in Seq(S) /\ Elements(h \o u) \subseteq Elements(h) \cup Elements(u)
<1>1. /\ h \o u \in Seq(S) /\ Len(h \o u) = Len(h) + Len(u) /\ Len(h) \in Nat /\ Len(u) \in Nat
      /\ DOMAIN h = 1..Len(h) /\ DOMAIN u = 1..Len(u) /\ DOMAIN (h \o u) = 1..(Len(h) + Len(u))
      /\ \A i \in 1..(Len(h) + Len(u)) : (h \o u)[i] = IF i <= Len(h) THEN h[i] ELSE u[i - Len(h)]
  BY ConcatProperties, LenProperties
<1>2. ASSUME NEW x \in Elements(h \o u) PROVE x \in Elements(h) \cup Elements(u)
  <2>1. PICK i \in 1..(Len(h) + Len(u)) : x = (h \o u)[i]
    BY <1>1 DEF Elements
  <2>2. CASE i <= Len(h)
    <3>1. i \in DOMAIN h /\ x = h[i]
      BY <1>1, <2>1, <2>2
    <3> QED BY <3>1 DEF Elements
  <2>3. CASE ~(i <= Len(h))
    <3>1. i - Len(h) \in DOMAIN u /\ x = u[i - Len(h)]
      BY <1>1, <2>1, <2>3
    <3> QED BY <3>1 DEF Elements
  <2> QED BY <2>2, <2>3
<1> QED BY <1>1, <1>2

LEMMA Tails ==
  ASSUME NEW S, NEW h \in Seq(S), NEW n \in Nat
  PROVE  SubSeq(h, n + 1, Len(h)) \in Seq(S) /\ Elements(SubSeq(h, n + 1, Len(h))) \subseteq Elements(h)
<1> DEFINE u == SubSeq(h, n + 1, Len(h))
<1>1. Len(h) \in Nat /\ DOMAIN h = 1..Len(h) /\ \A i \in 1..Len(h) : h[i] \in S
  BY LenProperties
<1>2. \A i \in (n + 1)..Len(h) : h[i] \in S
  BY <1>1
<1>3. /\ u \in Seq(S) /\ Len(u) = (IF n + 1 <= Len(h) THEN Len(h) - (n + 1) + 1 ELSE 0)
      /\ \A i \in 1..(Len(h) - (n + 1) + 1) : u[i] = h[(n + 1) + i - 1]
  BY <1>1, <1>2, SubSeqProperties
<1>4. DOMAIN u = 1..Len(u)
  BY <1>3, LenProperties
<1>5. Len(u) \in Nat /\ n + 1 \in Nat
  BY <1>3, LenProperties
<1> HIDE DEF u
<1>6. /\ n + 1 <= Len(h) => Len(u) = Len(h) - n /\ Len(h) - (n + 1) + 1 = Len(h) - n
      /\ ~(n + 1 <= Len(h)) => Len(u) = 0
  <2> DEFINE k == Len(u)
             l == Len(h)
  <2>1. k \in Nat /\ l \in Nat /\ k = IF n + 1 <= l THEN l - (n + 1) + 1 ELSE 0
    BY <1>1, <1>3, <1>5
  <2> HIDE DEF k, l
  <2>2. (n + 1 <= l => k = l - n /\ l - (n + 1) + 1 = l - n) /\ (~(n + 1 <= l) => k = 0)
    BY <2>1
  <2> QED BY <2>2 DEF k, l
<1>7. ASSUME NEW i \in 1..Len(u) PROVE u[i] = h[n + i] /\ n + i \in DOMAIN h
  <2>1. i \in 1..(Len(h) - (n + 1) + 1) /\ i <= Len(h) - n
    <3>1. n + 1 <= Len(h)
      BY <1>5, <1>6
    <3> QED BY <1>1, <1>6, <3>1
  <2>2. i \in Nat /\ i >= 1
    BY <1>5
  <2>3. u[i] = h[(n + 1) + i - 1] /\ (n + 1) + i - 1 = n + i
    BY <1>3, <2>1, <2>2
  <2> QED BY <1>1, <2>1, <2>2, <2>3
<1>8. Elements(u) \subseteq Elements(h)
  BY <1>4, <1>7 DEF Elements
<1> QED BY <1>3, <1>8 DEF u

LEMMA ContinuesSelf == ASSUME NEW S, NEW s \in Seq(S) PROVE Continues(s, s)
  BY LenProperties DEF Continues

LEMMA ContinuesAppend ==
  ASSUME NEW S, NEW s \in Seq(S), NEW t \in Seq(S), NEW e \in S, Continues(s, t)
  PROVE  Continues(s, Append(t, e))
  BY LenProperties, AppendProperties DEF Continues

LEMMA Rejoin ==
  ASSUME NEW S, NEW s \in Seq(S), NEW t \in Seq(S), Continues(s, t)
  PROVE  s \o SubSeq(t, Len(s) + 1, Len(t)) = t
<1> DEFINE u == SubSeq(t, Len(s) + 1, Len(t))
<1>1. /\ Len(s) \in Nat /\ Len(t) \in Nat /\ Len(s) <= Len(t) /\ \A i \in 1..Len(t) : t[i] \in S
      /\ \A i \in 1..Len(s) : t[i] = s[i]
  BY LenProperties DEF Continues
<1>2. \A i \in (Len(s) + 1)..Len(t) : t[i] \in S
  BY <1>1
<1>3. /\ u \in Seq(S) /\ Len(u) = (IF Len(s) + 1 <= Len(t) THEN Len(t) - (Len(s) + 1) + 1 ELSE 0)
      /\ \A i \in 1..(Len(t) - (Len(s) + 1) + 1) : u[i] = t[(Len(s) + 1) + i - 1]
  BY <1>1, <1>2, SubSeqProperties
<1> HIDE DEF u
<1>4. Len(u) = Len(t) - Len(s)
  BY <1>1, <1>3
<1>5. /\ s \o u \in Seq(S) /\ Len(s \o u) = Len(s) + Len(u)
      /\ \A i \in 1..(Len(s) + Len(u)) : (s \o u)[i] = IF i <= Len(s) THEN s[i] ELSE u[i - Len(s)]
  BY <1>3, ConcatProperties
<1>6. Len(s \o u) = Len(t)
  BY <1>1, <1>4, <1>5
<1>7. ASSUME NEW i \in 1..Len(s \o u) PROVE (s \o u)[i] = t[i]
  <2>1. i \in 1..(Len(s) + Len(u)) /\ i \in 1..Len(t)
    BY <1>5, <1>6, <1>7
  <2>2. CASE i <= Len(s)
    BY <1>1, <1>5, <2>1, <2>2
  <2>3. CASE ~(i <= Len(s))
    <3>1. i - Len(s) \in 1..(Len(t) - (Len(s) + 1) + 1) /\ (Len(s) + 1) + (i - Len(s)) - 1 = i
      BY <1>1, <2>1, <2>3
    <3>2. u[i - Len(s)] = t[i]
      BY <1>3, <3>1
    <3> QED BY <1>5, <2>1, <2>3, <3>2
  <2> QED BY <2>2, <2>3
<1>8. s \o u = t
  BY <1>5, <1>6, <1>7, SeqEqual
<1> QED BY <1>8 DEF u

LEMMA Versioned ==
  ASSUME Types, NEW o \in Owners, NEW maker \in 0..MaxTurn, Change(o, maker)
  PROVE  /\ clock \in Nat /\ clock' = clock + 1 /\ clock' \in 0..MaxVersion /\ clock' \in Versions
         /\ author' \in [Versions -> 0..MaxTurn] /\ author'[clock'] = maker
         /\ \A v \in 1..clock : author'[v] = author[v]
         /\ Made \subseteq Made' /\ Snap \subseteq Snap' /\ TurnFrame \subseteq TurnFrame'
         /\ CommandFrame \subseteq CommandFrame' /\ NavigationFrame \subseteq NavigationFrame'
         /\ \A s \in Made : [s EXCEPT ![o] = clock'] \in Made'
<1>1. clock \in Nat /\ clock' = clock + 1 /\ clock' \in 0..MaxVersion /\ clock' \in Versions
  BY Sizes DEF Types, Counters, Change, Versions
<1>2. author' \in [Versions -> 0..MaxTurn] /\ author'[clock'] = maker
      /\ \A v \in 1..clock : author'[v] = author[v]
  BY <1>1, Sizes DEF Types, Counters, GhostsFit, Change, Versions
<1>3. 0..clock \subseteq 0..clock' /\ clock' \in 0..clock'
  BY <1>1
<1>4. Made \subseteq Made'
  BY <1>3 DEF Made
<1>5. Snap \subseteq Snap'
  BY <1>4 DEF Snap
<1>6. \A s \in Made : [s EXCEPT ![o] = clock'] \in Made'
  BY <1>3, <1>4 DEF Made
<1>7. TurnFrame \subseteq TurnFrame'
  BY <1>4, <1>5 DEF TurnFrame
<1>8. CommandFrame \subseteq CommandFrame' /\ NavigationFrame \subseteq NavigationFrame'
  BY <1>3, <1>5 DEF CommandFrame, NavigationFrame
<1> QED BY <1>1, <1>2, <1>4, <1>5, <1>6, <1>7, <1>8

LEMMA CleanChanged ==
  ASSUME Types, NEW o \in Owners, NEW maker \in 0..MaxTurn, Change(o, maker),
         NEW h, NEW s \in Made, NEW T, Clean(h, s, T, author, explicit)
  PROVE  /\ Clean(h, s, T, author', explicit)
         /\ maker \in T \cup {0} => Clean(h, [s EXCEPT ![o] = clock'], T, author', explicit)
<1>1. /\ clock \in Nat /\ author'[clock'] = maker
      /\ \A v \in 1..clock : author'[v] = author[v]
  BY Versioned
<1>2. ASSUME NEW p \in Owners PROVE s[p] = 0 \/ author'[s[p]] \in T \cup {0} \/ s[p] \in explicit
  <2>1. s[p] \in 0..clock
    BY DEF Made
  <2>2. s[p] = 0 \/ author[s[p]] \in T \cup {0} \/ s[p] \in explicit
    BY DEF Clean, Admits
  <2> QED BY <1>1, <2>1, <2>2
<1>3. Clean(h, s, T, author', explicit)
  BY <1>2 DEF Clean, Admits
<1>4. ASSUME maker \in T \cup {0} PROVE Clean(h, [s EXCEPT ![o] = clock'], T, author', explicit)
  <2>1. s \in [Owners -> Nat]
    BY <1>1 DEF Made
  <2> QED BY <1>1, <1>3, <1>4, <2>1, CleanExcept
<1> QED BY <1>3, <1>4

LEMMA Snapped ==
  ASSUME NEW h \in Seq(Turns), NEW s \in Made
  PROVE  LET c == [history |-> h, state |-> s] IN c \in Snap /\ c.history = h /\ c.state = s
  BY DEF Snap

LEMMA Fields ==
  ASSUME Types
  PROVE  /\ clock \in Nat
         /\ turn.id \in 0..MaxTurn /\ turn.live \in BOOLEAN /\ turn.start \in Seq(Turns)
         /\ turn.rollback \in Made /\ turn.owners \subseteq Owners /\ turn.child \in Snap
         /\ turn.child.history \in Seq(Turns) /\ turn.child.state \in Made
         /\ nav.target \in Snap /\ nav.target.history \in Seq(Turns) /\ nav.target.state \in Made
         /\ nav.previous \in Snap /\ nav.previous.history \in Seq(Turns) /\ nav.previous.state \in Made
         /\ nav.replaced \in Snap /\ nav.replaced.history \in Seq(Turns) /\ nav.replaced.state \in Made
         /\ saved.history \in Seq(Turns) /\ saved.state \in Made
         /\ history \in Seq(Turns) /\ memory \in Made /\ kept \in Made /\ branch \in Seq(Turns)
         /\ \A c \in candidates \cup commits : c \in Snap /\ c.history \in Seq(Turns) /\ c.state \in Made
<1>1. clock \in Nat /\ \A c \in Snap : c.history \in Seq(Turns) /\ c.state \in Made
  BY Sizes DEF Types, Counters, Snap
<1>2. /\ turn.id \in 0..MaxTurn /\ turn.live \in BOOLEAN /\ turn.start \in Seq(Turns)
      /\ turn.rollback \in Made /\ turn.owners \subseteq Owners /\ turn.child \in Snap
  BY DEF Types, FramesFit, TurnFrame
<1>3. /\ nav.target \in Snap /\ nav.previous \in Snap /\ nav.replaced \in Snap /\ saved \in Snap
      /\ candidates \cup commits \subseteq Snap
  BY DEF Types, FramesFit, StoreFits, NavigationFrame
<1>4. history \in Seq(Turns) /\ memory \in Made /\ kept \in Made /\ branch \in Seq(Turns)
  BY DEF Types, SessionFits, StoreFits, GhostsFit
<1> QED BY <1>1, <1>2, <1>3, <1>4

LEMMA CandidatesFit ==
  ASSUME Types
  PROVE  \A c \in candidates : c \in Snap /\ c.state \in Made /\ \A o \in Owners : c.state[o] \in Nat
<1>1. clock \in Nat /\ \A c \in candidates : c \in Snap
  BY Sizes DEF Types, Counters, StoreFits
<1>2. \A c \in Snap : c.state \in Made
  BY DEF Snap
<1>3. \A s \in Made : \A o \in Owners : s[o] \in Nat
  BY <1>1 DEF Made
<1> QED BY <1>1, <1>2, <1>3

LEMMA Refused ==
  ASSUME Types, NEW c, Refuse(c)
  PROVE  /\ saved' = saved /\ candidates' \subseteq candidates \cup {c}
         /\ failed' \in BOOLEAN /\ failures' \in 0..MaxFailures
<1>1. failed' = failed \/ failed' = TRUE
  BY DEF Refuse
<1>2. failed' \in BOOLEAN
  BY Zenon, <1>1 DEF Types, Flags
<1>3. failures' \in 0..MaxFailures
  BY Sizes DEF Refuse, Fail, Types, Counters
<1>4. saved' = saved /\ candidates' \subseteq candidates \cup {c}
  BY DEF Refuse
<1> QED BY <1>2, <1>3, <1>4

LEMMA Still ==
  ASSUME UNCHANGED clock
  PROVE  /\ Made' = Made /\ Snap' = Snap /\ TurnFrame' = TurnFrame /\ CommandFrame' = CommandFrame
         /\ NavigationFrame' = NavigationFrame
  BY DEF Made, Snap, TurnFrame, CommandFrame, NavigationFrame

LEMMA EmptyFits ==
  ASSUME clock \in Nat
  PROVE  /\ NoState \in Made /\ <<>> \in Seq(Turns) /\ NoSnapshot \in Snap /\ NoTurn \in TurnFrame
         /\ NoCommand \in CommandFrame /\ NoNavigation \in NavigationFrame
         /\ \A o \in Owners : NoState[o] = 0
<1>1. NoState \in Made /\ <<>> \in Seq(Turns) /\ \A o \in Owners : NoState[o] = 0
  BY DEF Made, NoState
<1>2. NoSnapshot \in Snap
  BY <1>1 DEF NoSnapshot, Snap
<1>3. NoTurn \in TurnFrame
  BY <1>1, <1>2, Sizes DEF NoTurn, TurnFrame, Place
<1>4. NoCommand \in CommandFrame
  BY DEF NoCommand, CommandFrame
<1>5. NoNavigation \in NavigationFrame
  BY <1>2 DEF NoNavigation, NavigationFrame, Stage
<1> QED BY <1>1, <1>2, <1>3, <1>4, <1>5

LEMMA InitInv == Init => Inv
<1> SUFFICES ASSUME Init PROVE Inv
  OBVIOUS
<1> USE Sizes DEF Init
<1>1. /\ NoState \in Made /\ <<>> \in Seq(Turns) /\ NoSnapshot \in Snap /\ NoTurn \in TurnFrame
      /\ NoCommand \in CommandFrame /\ NoNavigation \in NavigationFrame
      /\ \A o \in Owners : NoState[o] = 0
  BY EmptyFits
<1>2. Types
  <2>1. Counters /\ Flags
    <3>1. Counters
      BY DEF Counters
    <3>2. Flags
      BY Zenon DEF Flags
    <3> QED BY <3>1, <3>2
  <2>2. SessionFits /\ FramesFit /\ StoreFits
    BY <1>1 DEF SessionFits, FramesFit, StoreFits
  <2>3. author \in [Versions -> 0..MaxTurn]
    OBVIOUS
  <2>4. GhostsFit
    BY <1>1, <2>3 DEF GhostsFit
  <2> QED BY <2>1, <2>2, <2>4 DEF Types
<1>3. Frames
  BY DEF Frames, NoTurn, NoCommand, NoNavigation, NoSnapshot
<1>4. Owned
  BY <1>1, CleanEmpty DEF Owned, NoTurn, NoNavigation, NoSnapshot
<1>5. Beside /\ Stored /\ Appends
  BY DEF Beside, Stored, Appends, Matches, Start, Base, NoTurn, NoCommand, NoNavigation, NoSnapshot
<1>6. Newer
  BY <1>1 DEF Newer, NoTurn, NoCommand, NoNavigation, NoSnapshot
<1> QED BY <1>2, <1>3, <1>4, <1>5, <1>6 DEF Inv

LEMMA BeginTurnInv == ASSUME Inv, BeginTurn PROVE Inv'
<1> USE Sizes DEF BeginTurn, session, store, ghosts, apart
<1>a. PICK first \in {"open", "launch"} :
        turn' = [pc |-> first, id |-> begun', live |-> TRUE, start |-> history, rollback |-> memory,
                 owners |-> {}, child |-> NoSnapshot]
  OBVIOUS
<1>b. /\ turn'.pc = first /\ turn'.live /\ turn'.id = begun' /\ turn'.start = history /\ turn'.rollback = memory
      /\ turn'.child = NoSnapshot /\ begun' \in Turns /\ begun' \in 0..MaxTurn
      /\ turn.pc = "none" /\ nav.pc = "none" /\ ~turn.live
  BY <1>a DEF Inv, Types, Counters, Turns, Frames
<1>1. Types'
  <2>1. Made' = Made /\ Snap' = Snap /\ TurnFrame' = TurnFrame /\ CommandFrame' = CommandFrame
        /\ NavigationFrame' = NavigationFrame
    BY Still
  <2>2. Counters'
    BY DEF Inv, Types, Counters
  <2>3. Flags'
    BY DEF Inv, Types, Flags
  <2>4. SessionFits'
    BY <2>1 DEF Inv, Types, SessionFits
  <2>5. turn' \in TurnFrame'
    <3>1. NoSnapshot \in Snap /\ history \in Seq(Turns) /\ memory \in Made
      BY EmptyFits, Fields DEF Inv
    <3> QED BY <1>a, <1>b, <2>1, <3>1 DEF TurnFrame, Place
  <2>6. cmd' \in CommandFrame'
    BY <2>1 DEF Inv, Types, FramesFit
  <2>7. nav' \in NavigationFrame'
    BY <2>1 DEF Inv, Types, FramesFit
  <2>8. StoreFits'
    BY <2>1 DEF Inv, Types, StoreFits
  <2>9. GhostsFit'
    BY <2>1 DEF Inv, Types, GhostsFit
  <2> QED BY <2>2, <2>3, <2>4, <2>5, <2>6, <2>7, <2>8, <2>9 DEF Types, FramesFit
<1>2. Frames'
  BY <1>b DEF Inv, Frames
<1>3. Owned'
  <2>1. Clean(history, memory, accepted, author, explicit) /\ Elements(branch) \subseteq accepted
    BY <1>b DEF Inv, Frames, Owned
  <2>2. /\ Clean(history, memory, accepted \cup {turn'.id}, author, explicit)
        /\ Clean(<<>>, NoState, accepted \cup {turn'.id}, author, explicit)
    BY <2>1, CleanGrows, CleanEmpty
  <2> QED BY <1>b, <2>1, <2>2 DEF Inv, Owned, NoSnapshot
<1>4. Beside'
  BY DEF Inv, Beside, Frames
<1>5. Stored'
  BY <1>b DEF Inv, Stored, Matches, Start, Base
<1>6. Appends'
  BY <1>b DEF Inv, Appends, Stored, Frames, Start
<1>7. Newer'
  BY <1>b DEF Inv, Newer
<1> QED BY <1>1, <1>2, <1>3, <1>4, <1>5, <1>6, <1>7 DEF Inv

LEMMA MessageInv == ASSUME Inv, Message PROVE Inv'
<1> USE Sizes DEF Message, ghosts, apart
<1>a. /\ turn.pc = "open" /\ turn.live /\ turn'.live /\ turn'.id = turn.id /\ turn'.pc \in {"open", "failing"}
      /\ turn'.start = turn.start /\ turn'.rollback = turn.rollback /\ turn'.child = turn.child /\ turn.id \in Turns
      /\ turn'.owners = turn.owners /\ nav.pc = "none" /\ history' = Append(history, turn.id)
      /\ \/ branch' = Append(branch, turn.id) /\ turn' = turn
         \/ branch' = branch /\ turn'.pc = "failing"
  BY DEF Inv, Frames, Types, FramesFit, TurnFrame
<1>b. /\ Append(history, turn.id) \in Seq(Turns) /\ Elements(Append(history, turn.id)) = Elements(history) \cup {turn.id}
      /\ Append(branch, turn.id) \in Seq(Turns) /\ Elements(Append(branch, turn.id)) = Elements(branch) \cup {turn.id}
  BY <1>a, Appended, Fields DEF Inv
<1>1. Types'
  <2>1. Made' = Made /\ Snap' = Snap /\ TurnFrame' = TurnFrame /\ CommandFrame' = CommandFrame
        /\ NavigationFrame' = NavigationFrame
    BY Still
  <2>2. Counters'
    <3>1. failures' = failures \/ Fail
      OBVIOUS
    <3> QED BY <3>1 DEF Inv, Types, Counters, Fail
  <2>3. Flags'
    BY DEF Inv, Types, Flags
  <2>4. SessionFits'
    BY <1>b, <2>1 DEF Inv, Types, SessionFits
  <2>5. turn' \in TurnFrame'
    BY <2>1 DEF Inv, Types, FramesFit, TurnFrame, Place
  <2>6. cmd' \in CommandFrame'
    BY <2>1 DEF Inv, Types, FramesFit
  <2>7. nav' \in NavigationFrame'
    BY <2>1 DEF Inv, Types, FramesFit
  <2>8. StoreFits'
    BY <1>a, <1>b, <2>1 DEF Inv, Types, StoreFits
  <2>9. GhostsFit'
    BY <2>1 DEF Inv, Types, GhostsFit
  <2> QED BY <2>2, <2>3, <2>4, <2>5, <2>6, <2>7, <2>8, <2>9 DEF Types, FramesFit
<1>2. Frames'
  BY <1>a DEF Inv, Frames
<1>3. Owned'
  <2>1. Clean(history', memory, accepted \cup {turn.id}, author, explicit)
    BY <1>a, <1>b DEF Inv, Owned, Clean
  <2>2. Elements(branch') \subseteq accepted \cup {turn.id}
    BY <1>a, <1>b DEF Inv, Owned
  <2> QED BY <1>a, <2>1, <2>2 DEF Inv, Owned
<1>4. Beside'
  BY <1>a DEF Inv, Beside
<1>5. Stored'
  BY <1>a DEF Inv, Stored, Matches, Start, Base
<1>6. Appends'
  BY <1>a DEF Inv, Appends
<1>7. Newer'
  BY <1>a DEF Inv, Newer
<1> QED BY <1>1, <1>2, <1>3, <1>4, <1>5, <1>6, <1>7 DEF Inv

LEMMA TurnChangeInv == ASSUME Inv, TurnChange PROVE Inv'
<1> USE Sizes DEF TurnChange, store, apart
<1>a. PICK o \in Owners : Change(o, turn.id) /\ memory' = [memory EXCEPT ![o] = clock']
  OBVIOUS
<1>b. turn.id \in 0..MaxTurn /\ Types /\ turn.pc = "open" /\ turn.live /\ nav.pc = "none"
  BY Fields DEF Inv, Frames
<1>c. /\ clock \in Nat /\ clock' = clock + 1 /\ memory \in Made /\ kept \in Made
      /\ \A p \in Owners : memory'[p] = IF p = o THEN clock' ELSE memory[p]
  BY <1>a, <1>b, Versioned, Fields DEF Made
<1>1. Types'
  <2>1. /\ clock \in Nat /\ clock' = clock + 1 /\ clock' \in 0..MaxVersion
        /\ author' \in [Versions -> 0..MaxTurn] /\ Made \subseteq Made' /\ Snap \subseteq Snap'
        /\ TurnFrame \subseteq TurnFrame' /\ CommandFrame \subseteq CommandFrame'
        /\ NavigationFrame \subseteq NavigationFrame' /\ \A s \in Made : [s EXCEPT ![o] = clock'] \in Made'
    BY <1>a, <1>b, Versioned
  <2>2. Counters'
    BY <2>1 DEF Inv, Types, Counters
  <2>3. Flags'
    BY DEF Inv, Types, Flags
  <2>4. SessionFits'
    BY <1>a, <1>c, <2>1 DEF Inv, Types, SessionFits
  <2>5. turn' \in TurnFrame'
    BY <2>1 DEF Inv, Types, FramesFit
  <2>6. cmd' \in CommandFrame'
    BY <2>1 DEF Inv, Types, FramesFit
  <2>7. nav' \in NavigationFrame'
    BY <2>1 DEF Inv, Types, FramesFit
  <2>8. StoreFits'
    BY <2>1 DEF Inv, Types, StoreFits
  <2>9. GhostsFit'
    BY <2>1 DEF Inv, Types, GhostsFit
  <2> QED BY <2>2, <2>3, <2>4, <2>5, <2>6, <2>7, <2>8, <2>9 DEF Types, FramesFit
<1>2. Frames'
  BY DEF Inv, Frames, Types, FramesFit, TurnFrame
<1>3. Owned'
  <2>3. /\ \A c \in candidates : Clean(c.history, c.state, accepted \cup Elements(c.history), author', explicit)
        /\ \A c \in commits : Clean(c.history, c.state, accepted, author', explicit)
    BY <1>a, <1>b, CleanChanged, Fields DEF Inv, Owned
  <2>5. /\ Clean(turn.start, turn.rollback, accepted, author', explicit)
        /\ Clean(turn.child.history, turn.child.state, accepted \cup {turn.id}, author', explicit)
    BY <1>a, <1>b, CleanChanged, Fields DEF Inv, Owned
  <2>6. Clean(history, memory', accepted \cup {turn.id}, author', explicit)
    <3>1. Clean(history, memory, accepted \cup {turn.id}, author, explicit)
      BY <1>b DEF Inv, Owned
    <3>2. Clean(history, [memory EXCEPT ![o] = clock'], accepted \cup {turn.id}, author', explicit)
      BY <1>a, <1>b, <1>c, <3>1, CleanChanged
    <3> QED BY <1>a, <3>2
  <2> QED BY <1>b, <2>3, <2>5, <2>6 DEF Inv, Owned
<1>4. Beside'
  BY <1>b DEF Inv, Beside
<1>5. Stored'
  BY DEF Inv, Stored, Matches, Start, Base, Frames
<1>6. Appends'
  BY DEF Inv, Appends, Frames
<1>7. Newer'
  <2>1. \A p \in Owners : kept[p] \in 0..clock /\ memory[p] \in 0..clock
    BY <1>c DEF Made
  <2>2. \A p \in Owners : kept[p] <= memory[p] => kept[p] <= memory'[p]
    BY <1>c, <2>1
  <2> QED BY <1>b, <2>2 DEF Inv, Newer
<1> QED BY <1>1, <1>2, <1>3, <1>4, <1>5, <1>6, <1>7 DEF Inv

LEMMA StartChildInv == ASSUME Inv, StartChild PROVE Inv'
<1> USE Sizes DEF StartChild, session, store, ghosts, apart
<1>a. /\ turn.pc = "launch" /\ turn.live /\ turn'.live /\ turn'.start = turn.start /\ turn'.rollback = turn.rollback
      /\ turn'.id = turn.id /\ turn'.pc = "child" /\ turn'.owners = turn.owners
      /\ turn'.child.history = history /\ turn'.child.state = memory /\ nav.pc = "none"
  BY DEF Inv, Frames, Types, FramesFit, TurnFrame
<1>1. Types'
  <2>1. Made' = Made /\ Snap' = Snap /\ TurnFrame' = TurnFrame /\ CommandFrame' = CommandFrame
        /\ NavigationFrame' = NavigationFrame
    BY Still
  <2>2. Counters'
    BY DEF Inv, Types, Counters
  <2>3. Flags'
    BY DEF Inv, Types, Flags
  <2>4. SessionFits'
    BY <2>1 DEF Inv, Types, SessionFits
  <2>5. turn' \in TurnFrame'
    <3> DEFINE c == [history |-> history, state |-> memory]
    <3>1. c \in Snap
      BY Snapped, Fields DEF Inv
    <3>2. turn' = [turn EXCEPT !.pc = "child", !.child = c]
      OBVIOUS
    <3> HIDE DEF c
    <3> QED BY <2>1, <3>1, <3>2 DEF Inv, Types, FramesFit, TurnFrame, Place
  <2>6. cmd' \in CommandFrame'
    BY <2>1 DEF Inv, Types, FramesFit
  <2>7. nav' \in NavigationFrame'
    BY <2>1 DEF Inv, Types, FramesFit
  <2>8. StoreFits'
    BY <2>1 DEF Inv, Types, StoreFits
  <2>9. GhostsFit'
    BY <2>1 DEF Inv, Types, GhostsFit
  <2> QED BY <2>2, <2>3, <2>4, <2>5, <2>6, <2>7, <2>8, <2>9 DEF Types, FramesFit
<1>2. Frames'
  BY <1>a DEF Inv, Frames
<1>3. Owned'
  BY <1>a DEF Inv, Owned
<1>4. Beside'
  BY <1>a DEF Inv, Beside
<1>5. Stored'
  BY <1>a DEF Inv, Stored, Matches, Start, Base
<1>6. Appends'
  <2>1. history = turn.start /\ history \in Seq(Turns)
    BY <1>a, Fields DEF Inv, Appends
  <2> QED BY <1>a, <2>1, ContinuesSelf DEF Appends
<1>7. Newer'
  BY <1>a DEF Inv, Newer
<1> QED BY <1>1, <1>2, <1>3, <1>4, <1>5, <1>6, <1>7 DEF Inv

LEMMA ChildMessageInv == ASSUME Inv, ChildMessage PROVE Inv'
<1> USE Sizes DEF ChildMessage, session, store, ghosts, apart
<1>a. /\ turn.pc = "child" /\ turn.live /\ turn'.live /\ turn'.start = turn.start /\ turn'.rollback = turn.rollback
      /\ turn'.id = turn.id /\ turn'.pc = "child" /\ turn'.owners = turn.owners /\ turn.id \in Turns
      /\ turn'.child.history = Append(turn.child.history, turn.id) /\ turn'.child.state = turn.child.state
      /\ turn.child \in Snap /\ turn.child.history \in Seq(Turns) /\ turn.start \in Seq(Turns) /\ nav.pc = "none"
  BY DEF Inv, Frames, Types, FramesFit, TurnFrame, Snap
<1>1. Types'
  <2>1. Made' = Made /\ Snap' = Snap /\ TurnFrame' = TurnFrame /\ CommandFrame' = CommandFrame
        /\ NavigationFrame' = NavigationFrame
    BY Still
  <2>2. Counters'
    BY DEF Inv, Types, Counters
  <2>3. Flags'
    BY DEF Inv, Types, Flags
  <2>4. SessionFits'
    BY <2>1 DEF Inv, Types, SessionFits
  <2>5. turn' \in TurnFrame'
    <3> DEFINE c == [turn.child EXCEPT !.history = Append(@, turn.id)]
    <3>2. Append(turn.child.history, turn.id) \in Seq(Turns)
      BY <1>a, Appended
    <3>3. c \in Snap
      BY <1>a, <3>2 DEF Snap
    <3>4. turn' = [turn EXCEPT !.child = c]
      OBVIOUS
    <3> HIDE DEF c
    <3> QED BY <2>1, <3>3, <3>4 DEF Inv, Types, FramesFit, TurnFrame
  <2>6. cmd' \in CommandFrame'
    BY <2>1 DEF Inv, Types, FramesFit
  <2>7. nav' \in NavigationFrame'
    BY <2>1 DEF Inv, Types, FramesFit
  <2>8. StoreFits'
    BY <2>1 DEF Inv, Types, StoreFits
  <2>9. GhostsFit'
    BY <2>1 DEF Inv, Types, GhostsFit
  <2> QED BY <2>2, <2>3, <2>4, <2>5, <2>6, <2>7, <2>8, <2>9 DEF Types, FramesFit
<1>2. Frames'
  BY <1>a DEF Inv, Frames
<1>3. Owned'
  <2>1. Clean(turn.child.history, turn.child.state, accepted \cup {turn.id}, author, explicit)
    BY <1>a DEF Inv, Owned
  <2>2. Clean(Append(turn.child.history, turn.id), turn.child.state, accepted \cup {turn.id}, author, explicit)
    BY <1>a, <2>1, CleanAppend
  <2> QED BY <1>a, <2>2 DEF Inv, Owned
<1>4. Beside'
  BY <1>a DEF Inv, Beside
<1>5. Stored'
  BY <1>a DEF Inv, Stored, Matches, Start, Base
<1>6. Appends'
  <2>1. Continues(turn.start, turn.child.history)
    BY <1>a DEF Inv, Appends
  <2>2. Continues(turn.start, Append(turn.child.history, turn.id))
    BY <1>a, <2>1, ContinuesAppend
  <2> QED BY <1>a, <2>2 DEF Inv, Appends
<1>7. Newer'
  BY <1>a DEF Inv, Newer
<1> QED BY <1>1, <1>2, <1>3, <1>4, <1>5, <1>6, <1>7 DEF Inv

LEMMA ChildChangeInv == ASSUME Inv, ChildChange PROVE Inv'
<1> USE Sizes DEF ChildChange, session, store, apart
<1>a. PICK o \in Owners : Change(o, turn.id) /\ turn' = [turn EXCEPT !.child.state[o] = clock']
  OBVIOUS
<1>b. turn.id \in 0..MaxTurn /\ Types /\ turn.pc = "child" /\ turn.live /\ nav.pc = "none"
  BY Fields DEF Inv, Frames
<1>c. /\ clock \in Nat /\ clock' = clock + 1 /\ turn.child.state \in Made /\ kept \in Made
      /\ turn'.pc = "child" /\ turn'.live /\ turn'.id = turn.id /\ turn'.start = turn.start
      /\ turn'.rollback = turn.rollback /\ turn'.owners = turn.owners
      /\ turn'.child.history = turn.child.history /\ turn'.child.state = [turn.child.state EXCEPT ![o] = clock']
  <2>1. clock \in Nat /\ clock' = clock + 1 /\ turn.child.state \in Made /\ kept \in Made
    BY <1>a, <1>b, Versioned, Fields
  <2> QED BY <1>a, <1>b, <2>1 DEF Types, FramesFit, TurnFrame, Snap
<1>d. \A p \in Owners : turn'.child.state[p] = IF p = o THEN clock' ELSE turn.child.state[p]
  BY <1>c DEF Made
<1>1. Types'
  <2>1. /\ clock \in Nat /\ clock' = clock + 1 /\ clock' \in 0..MaxVersion
        /\ author' \in [Versions -> 0..MaxTurn] /\ Made \subseteq Made' /\ Snap \subseteq Snap'
        /\ TurnFrame \subseteq TurnFrame' /\ CommandFrame \subseteq CommandFrame'
        /\ NavigationFrame \subseteq NavigationFrame' /\ \A s \in Made : [s EXCEPT ![o] = clock'] \in Made'
    BY <1>a, <1>b, Versioned
  <2>2. Counters'
    BY <2>1 DEF Inv, Types, Counters
  <2>3. Flags'
    BY DEF Inv, Types, Flags
  <2>4. SessionFits'
    BY <2>1 DEF Inv, Types, SessionFits
  <2>5. turn' \in TurnFrame'
    <3> DEFINE c == [turn.child EXCEPT !.state[o] = clock']
    <3>1. turn.child \in Snap /\ turn \in TurnFrame'
      BY <2>1, Fields DEF Inv, Types, FramesFit
    <3>2. c = [turn.child EXCEPT !.state = [turn.child.state EXCEPT ![o] = clock']]
      BY <3>1 DEF Snap
    <3>3. c \in Snap'
      BY <2>1, <3>1, <3>2 DEF Snap
    <3>4. turn' = [turn EXCEPT !.child = c]
      BY <1>a
    <3> HIDE DEF c
    <3> QED BY <3>1, <3>3, <3>4 DEF TurnFrame
  <2>6. cmd' \in CommandFrame'
    BY <2>1 DEF Inv, Types, FramesFit
  <2>7. nav' \in NavigationFrame'
    BY <2>1 DEF Inv, Types, FramesFit
  <2>8. StoreFits'
    BY <2>1 DEF Inv, Types, StoreFits
  <2>9. GhostsFit'
    BY <2>1 DEF Inv, Types, GhostsFit
  <2> QED BY <2>2, <2>3, <2>4, <2>5, <2>6, <2>7, <2>8, <2>9 DEF Types, FramesFit
<1>2. Frames'
  BY <1>b, <1>c DEF Inv, Frames
<1>3. Owned'
  <2>3. /\ \A c \in candidates : Clean(c.history, c.state, accepted \cup Elements(c.history), author', explicit)
        /\ \A c \in commits : Clean(c.history, c.state, accepted, author', explicit)
    BY <1>a, <1>b, CleanChanged, Fields DEF Inv, Owned
  <2>5. /\ Clean(turn.start, turn.rollback, accepted, author', explicit)
        /\ Clean(history, memory, accepted \cup {turn.id}, author', explicit)
    BY <1>a, <1>b, CleanChanged, Fields DEF Inv, Owned
  <2>6. Clean(turn.child.history, turn.child.state, accepted \cup {turn.id}, author, explicit)
    BY <1>b DEF Inv, Owned
  <2>7. Clean(turn.child.history, [turn.child.state EXCEPT ![o] = clock'], accepted \cup {turn.id}, author', explicit)
    BY <1>a, <1>b, <1>c, <2>6, CleanChanged
  <2> QED BY <1>b, <1>c, <2>3, <2>5, <2>7 DEF Inv, Owned
<1>4. Beside'
  BY <1>b DEF Inv, Beside
<1>5. Stored'
  BY <1>b, <1>c DEF Inv, Stored, Matches, Start, Base
<1>6. Appends'
  BY <1>b, <1>c DEF Inv, Appends
<1>7. Newer'
  <2>1. \A p \in Owners : kept[p] \in 0..clock /\ turn.child.state[p] \in 0..clock
    BY <1>c DEF Made
  <2>2. \A p \in Owners : kept[p] <= turn.child.state[p] => kept[p] <= turn'.child.state[p]
    BY <1>c, <1>d, <2>1
  <2> QED BY <1>b, <1>c, <2>2 DEF Inv, Newer
<1> QED BY <1>1, <1>2, <1>3, <1>4, <1>5, <1>6, <1>7 DEF Inv

LEMMA RestoreInv == ASSUME Inv, Restore PROVE Inv'
<1> USE Sizes DEF Restore, store, ghosts, apart
<1>a. /\ turn.pc = "child" /\ turn.live /\ turn'.live /\ turn'.start = turn.start /\ turn'.rollback = turn.rollback
      /\ turn'.id = turn.id /\ turn'.pc = "restored" /\ turn'.owners = turn.owners
      /\ turn'.child.history = history /\ turn'.child.state = memory
      /\ nav.pc = "none" /\ history' = turn.child.history
      /\ \A o \in Owners : memory'[o] = IF o \in turn.owners THEN turn.rollback[o] ELSE turn.child.state[o]
  BY DEF Inv, Frames, Types, FramesFit, TurnFrame
<1>1. Types'
  <2>1. Made' = Made /\ Snap' = Snap /\ TurnFrame' = TurnFrame /\ CommandFrame' = CommandFrame
        /\ NavigationFrame' = NavigationFrame
    BY Still
  <2>2. Counters'
    BY DEF Inv, Types, Counters
  <2>3. Flags'
    BY DEF Inv, Types, Flags
  <2>4. SessionFits'
    <3>1. turn.child.state \in Made /\ turn.rollback \in Made /\ turn.child.history \in Seq(Turns)
      BY Fields DEF Inv
    <3>2. memory' \in Made
      BY <3>1 DEF Made
    <3> QED BY <2>1, <3>1, <3>2 DEF SessionFits
  <2>5. turn' \in TurnFrame'
    <3> DEFINE c == [history |-> history, state |-> memory]
    <3>1. c \in Snap
      BY Snapped, Fields DEF Inv
    <3>2. turn' = [turn EXCEPT !.pc = "restored", !.child = c]
      OBVIOUS
    <3> HIDE DEF c
    <3> QED BY <2>1, <3>1, <3>2 DEF Inv, Types, FramesFit, TurnFrame, Place
  <2>6. cmd' \in CommandFrame'
    BY <2>1 DEF Inv, Types, FramesFit
  <2>7. nav' \in NavigationFrame'
    BY <2>1 DEF Inv, Types, FramesFit
  <2>8. StoreFits'
    BY <2>1 DEF Inv, Types, StoreFits
  <2>9. GhostsFit'
    BY <2>1 DEF Inv, Types, GhostsFit
  <2> QED BY <2>2, <2>3, <2>4, <2>5, <2>6, <2>7, <2>8, <2>9 DEF Types, FramesFit
<1>2. Frames'
  BY <1>a DEF Inv, Frames
<1>3. Owned'
  <2>2. /\ Clean(turn.child.history, turn.child.state, accepted \cup {turn.id}, author, explicit)
        /\ Clean(turn.start, turn.rollback, accepted, author, explicit)
        /\ Clean(history, memory, accepted \cup {turn.id}, author, explicit)
    BY <1>a DEF Inv, Owned
  <2>3. Clean(history', memory', accepted \cup {turn.id}, author, explicit)
    BY <1>a, <2>2 DEF Clean, Admits
  <2> QED BY <1>a, <2>2, <2>3 DEF Inv, Owned
<1>4. Beside'
  BY <1>a DEF Inv, Beside
<1>5. Stored'
  BY <1>a DEF Inv, Stored, Matches, Start, Base
<1>6. Appends'
  BY <1>a DEF Inv, Appends
<1>7. Newer'
  BY <1>a DEF Inv, Newer
<1> QED BY <1>1, <1>2, <1>3, <1>4, <1>5, <1>6, <1>7 DEF Inv

LEMMA RestoreFailsInv == ASSUME Inv, RestoreFails PROVE Inv'
<1> USE Sizes DEF RestoreFails, store
<1>a. /\ turn.pc = "restored" /\ turn.live /\ turn'.live /\ turn'.start = turn.start /\ turn'.rollback = turn.rollback
      /\ turn'.id = turn.id /\ turn'.pc = "failing" /\ turn'.owners = turn.owners /\ turn'.child = turn.child
      /\ nav.pc = "none" /\ history' = turn.child.history /\ memory' = turn.child.state
  BY DEF Inv, Frames, Types, FramesFit, TurnFrame
<1>1. Types'
  <2>1. Made' = Made /\ Snap' = Snap /\ TurnFrame' = TurnFrame /\ CommandFrame' = CommandFrame
        /\ NavigationFrame' = NavigationFrame
    BY Still
  <2>2. Counters'
    BY DEF Inv, Types, Counters, Fail
  <2>3. Flags'
    BY DEF Inv, Types, Flags
  <2>4. SessionFits'
    BY <2>1, <1>a, Fields DEF Inv, SessionFits
  <2>5. turn' \in TurnFrame'
    BY <2>1 DEF Inv, Types, FramesFit, TurnFrame, Place
  <2>6. cmd' \in CommandFrame'
    BY <2>1 DEF Inv, Types, FramesFit
  <2>7. nav' \in NavigationFrame'
    BY <2>1 DEF Inv, Types, FramesFit
  <2>8. StoreFits'
    BY <2>1 DEF Inv, Types, StoreFits
  <2>9. GhostsFit'
    BY <2>1 DEF Inv, Types, GhostsFit
  <2> QED BY <2>2, <2>3, <2>4, <2>5, <2>6, <2>7, <2>8, <2>9 DEF Types, FramesFit
<1>2. Frames'
  BY <1>a DEF Inv, Frames
<1>3. Owned'
  BY <1>a DEF Inv, Owned
<1>4. Beside'
  BY <1>a DEF Inv, Beside
<1>5. Stored'
  BY <1>a DEF Inv, Stored, Matches, Start, Base
<1>6. Appends'
  BY <1>a DEF Inv, Appends
<1>7. Newer'
  BY <1>a DEF Inv, Newer
<1> QED BY <1>1, <1>2, <1>3, <1>4, <1>5, <1>6, <1>7 DEF Inv

LEMMA CommitInv == ASSUME Inv, Commit PROVE Inv'
<1> DEFINE messages == branch \o ChildMessages
           s == [history |-> messages, state |-> memory]
<1> USE Sizes
<1>1. /\ turn.live /\ turn.id \in Turns /\ turn.id \in Elements(messages) /\ nav.pc = "none"
      /\ turn.pc \in {"open", "restored"} /\ turn \in TurnFrame
  BY DEF Commit, Inv, Frames, Types, FramesFit, NavigationFrame
<1>2. ChildMessages \in Seq(Turns) /\ Elements(ChildMessages) \subseteq accepted \cup {turn.id}
  <2>1. CASE turn.pc = "restored"
    <3>1. /\ history \in Seq(Turns) /\ Len(turn.child.history) \in Nat
          /\ Elements(history) \subseteq accepted \cup {turn.id}
      BY <1>1, Fields, LenProperties DEF Inv, Owned, Clean
    <3>2. ChildMessages = SubSeq(history, Len(turn.child.history) + 1, Len(history))
      BY <2>1 DEF ChildMessages
    <3> QED BY <3>1, <3>2, Tails
  <2>2. CASE turn.pc # "restored"
    BY <2>2, EmptyFits, Fields DEF ChildMessages, Elements, Inv
  <2> QED BY <2>1, <2>2
<1>3. messages \in Seq(Turns) /\ Elements(messages) \subseteq accepted \cup {turn.id}
  <2>1. branch \in Seq(Turns) /\ Elements(branch) \subseteq accepted \cup {turn.id}
    BY <1>1, Fields DEF Inv, Owned
  <2> QED BY <1>2, <2>1, JoinedParts
<1>4. ASSUME ~disputed, ~stale PROVE messages = history
  <2>1. CASE turn.pc = "open"
    <3>1. ChildMessages = <<>> /\ branch = history /\ branch \in Seq(Turns)
      BY <1>4, <2>1, Fields DEF ChildMessages, Inv, Appends
    <3> QED BY <3>1, ConcatEmptySeq
  <2>2. CASE turn.pc = "restored"
    <3>1. /\ branch = turn.start /\ turn.child.history = turn.start /\ Continues(turn.start, history)
          /\ turn.start \in Seq(Turns) /\ history \in Seq(Turns)
      BY <1>1, <1>4, <2>2, Fields DEF Inv, Frames, Stored, Start, Appends
    <3>2. ChildMessages = SubSeq(history, Len(turn.start) + 1, Len(history))
      BY <2>2, <3>1 DEF ChildMessages
    <3> QED BY <3>1, <3>2, Rejoin
  <2> QED BY <1>1, <2>1, <2>2
<1>5. s \in Snap /\ s.history = messages /\ s.state = memory
  BY <1>3, Snapped, Fields DEF Inv
<1>6. /\ offered' = offered \cup {turn.id}
      /\ UNCHANGED <<history, memory, cmd, nav, clock, begun, author, explicit, kept, stale, disputed>>
      /\ \/ /\ Accept(s) /\ branch' = messages /\ commits' = Tree \cup {s}
            /\ accepted' = accepted \cup {turn.id}
            /\ turn' = [turn EXCEPT !.pc = "committed", !.live = FALSE] /\ unsaved' = {}
         \/ /\ Refuse(s) /\ turn' = [turn EXCEPT !.pc = "failing"]
            /\ UNCHANGED <<branch, commits, accepted, unsaved>>
  BY DEF Commit, session
<1>7. /\ Elements(messages) \subseteq offered' /\ memory \in Made
      /\ Admits(memory, accepted \cup {turn.id}, author, explicit)
      /\ Clean(messages, memory, accepted \cup Elements(messages), author, explicit)
  <2>1. Admits(memory, accepted \cup {turn.id}, author, explicit) /\ memory \in Made /\ accepted \subseteq offered
    BY <1>1, Fields DEF Inv, Owned, Clean, Types, GhostsFit
  <2>2. Admits(memory, accepted \cup Elements(messages), author, explicit)
    BY <1>1, <2>1 DEF Admits
  <2> QED BY <1>3, <1>6, <2>1, <2>2 DEF Clean
<1>8. Made' = Made /\ Snap' = Snap /\ TurnFrame' = TurnFrame /\ CommandFrame' = CommandFrame
      /\ NavigationFrame' = NavigationFrame
  BY <1>6, Still
<1> HIDE DEF s, messages
<1>9. CASE /\ Accept(s) /\ branch' = messages /\ commits' = Tree \cup {s}
           /\ accepted' = accepted \cup {turn.id}
           /\ turn' = [turn EXCEPT !.pc = "committed", !.live = FALSE] /\ unsaved' = {}
  <2>1. ~turn'.live /\ turn'.pc = "committed" /\ turn' \in TurnFrame
    BY <1>1, <1>9 DEF TurnFrame, Place
  <2>2. saved' = s /\ candidates' = {s} /\ failed' = failed /\ failures' = failures
    BY <1>9 DEF Accept
  <2>3. commits' \subseteq commits \cup {s}
    BY <1>9 DEF Tree
  <2>4. Types'
    <3>1. Counters' /\ Flags' /\ SessionFits'
      BY <1>6, <1>8, <2>2 DEF Inv, Types, Counters, Flags, SessionFits
    <3>2. FramesFit'
      BY <1>6, <1>8, <2>1 DEF Inv, Types, FramesFit
    <3>3. StoreFits'
      BY <1>3, <1>5, <1>8, <1>9, <2>2, <2>3 DEF Inv, Types, StoreFits
    <3>4. GhostsFit'
      BY <1>1, <1>6, <1>8, <1>9 DEF Inv, Types, GhostsFit
    <3> QED BY <3>1, <3>2, <3>3, <3>4 DEF Types
  <2>5. Frames'
    BY <1>1, <1>5, <1>6, <1>9, <2>1, <2>2 DEF Inv, Frames
  <2>6. Owned'
    <3>1. \A c \in commits' : Clean(c.history, c.state, accepted', author, explicit)
      <4>1. Clean(messages, memory, accepted', author, explicit)
        BY <1>3, <1>7, <1>9 DEF Clean
      <4>2. \A c \in commits : Clean(c.history, c.state, accepted', author, explicit)
        BY <1>9, CleanGrows DEF Inv, Owned
      <4> QED BY <1>5, <2>3, <4>1, <4>2
    <3>2. Clean(messages, memory, accepted' \cup Elements(messages), author, explicit)
      BY <1>7, <1>9, CleanGrows
    <3>3. Clean(history, memory, accepted', author, explicit) /\ Elements(messages) \subseteq accepted'
      BY <1>1, <1>3, <1>9 DEF Inv, Owned
    <3> QED BY <1>1, <1>5, <1>6, <1>7, <2>1, <2>2, <3>1, <3>2, <3>3 DEF Owned
  <2>7. Beside'
    BY <1>1, <1>6 DEF Beside
  <2>8. Stored'
    BY <1>1, <1>4, <1>5, <1>6, <2>1, <2>2 DEF Stored, Matches, Start, Base
  <2>9. Appends'
    BY <2>1 DEF Appends
  <2>10. Newer'
    BY <1>1, <1>5, <1>6, <2>1, <2>2 DEF Inv, Newer
  <2> QED BY <2>4, <2>5, <2>6, <2>7, <2>8, <2>9, <2>10 DEF Inv
<1>10. CASE /\ Refuse(s) /\ turn' = [turn EXCEPT !.pc = "failing"]
            /\ UNCHANGED <<branch, commits, accepted, unsaved>>
  <2>1. /\ turn'.live /\ turn'.pc = "failing" /\ turn' \in TurnFrame /\ turn'.id = turn.id
        /\ turn'.start = turn.start /\ turn'.rollback = turn.rollback /\ turn'.child = turn.child
    BY <1>1, <1>10 DEF TurnFrame, Place
  <2>2. /\ saved' = saved /\ candidates' \subseteq candidates \cup {s}
        /\ failed' \in BOOLEAN /\ failures' \in 0..MaxFailures
    BY <1>10, Refused DEF Inv
  <2>3. Types'
    <3>1. Counters' /\ Flags' /\ SessionFits'
      BY <1>6, <1>8, <2>2 DEF Inv, Types, Counters, Flags, SessionFits
    <3>2. FramesFit'
      BY <1>6, <1>8, <2>1 DEF Inv, Types, FramesFit
    <3>3. StoreFits'
      BY <1>5, <1>8, <1>10, <2>2 DEF Inv, Types, StoreFits
    <3>4. GhostsFit'
      BY <1>1, <1>6, <1>8, <1>10 DEF Inv, Types, GhostsFit
    <3> QED BY <3>1, <3>2, <3>3, <3>4 DEF Types
  <2>4. Frames'
    BY <1>1, <1>6, <1>10, <2>1 DEF Inv, Frames
  <2>5. Owned'
    <3>1. \A c \in candidates' : c \in candidates \/ (c.history = messages /\ c.state = memory)
      BY <1>5, <2>2
    <3>2. \A c \in candidates' :
            /\ Elements(c.history) \subseteq offered'
            /\ Clean(c.history, c.state, accepted \cup Elements(c.history), author, explicit)
      BY <1>6, <1>7, <3>1 DEF Inv, Owned
    <3> QED BY <1>1, <1>6, <1>10, <2>1, <2>2, <3>2 DEF Inv, Owned
  <2>6. Beside'
    BY <1>1, <1>6 DEF Beside
  <2>7. Stored'
    BY <1>1, <1>6, <1>10, <2>1, <2>2 DEF Inv, Stored, Matches, Start, Base
  <2>8. Appends'
    BY <2>1 DEF Appends
  <2>9. Newer'
    <3>1. \A c \in candidates' : c \in candidates \/ c.state = memory
      BY <1>5, <2>2
    <3> QED BY <1>1, <1>6, <2>1, <3>1 DEF Inv, Newer
  <2> QED BY <2>3, <2>4, <2>5, <2>6, <2>7, <2>8, <2>9 DEF Inv
<1> QED BY <1>6, <1>9, <1>10

LEMMA FinishInv == ASSUME Inv, Finish PROVE Inv'
<1> USE Sizes DEF Finish, session, ghosts, apart
<1>a. /\ turn' = [NoTurn EXCEPT !.pc = "ending"] /\ ~turn'.live /\ turn'.pc = "ending" /\ nav.pc = "none"
      /\ turn.pc \notin {"none", "ending"} /\ NoTurn \in TurnFrame
      /\ \/ turn.live /\ history' = turn.start /\ memory' = turn.rollback /\ branch' = saved.history
         \/ /\ ~turn.live /\ turn.pc = "committed"
            /\ history' = history /\ memory' = memory /\ branch' = branch /\ branch = saved.history
  <2>1. turn.live \/ (~turn.live /\ turn.pc = "committed")
    BY DEF Inv, Frames, Types, FramesFit, TurnFrame, Place
  <2> QED BY <2>1, EmptyFits, Fields DEF Inv, Frames, NoTurn
<1>1. Types'
  <2>1. Made' = Made /\ Snap' = Snap /\ TurnFrame' = TurnFrame /\ CommandFrame' = CommandFrame
        /\ NavigationFrame' = NavigationFrame
    BY Still
  <2>2. Counters'
    BY DEF Inv, Types, Counters
  <2>3. Flags'
    BY DEF Inv, Types, Flags
  <2>4. SessionFits'
    BY <1>a, <2>1, Fields DEF Inv, SessionFits
  <2>5. turn' \in TurnFrame'
    BY <1>a, <2>1 DEF TurnFrame, Place
  <2>6. cmd' \in CommandFrame'
    BY <2>1 DEF Inv, Types, FramesFit
  <2>7. nav' \in NavigationFrame'
    BY <2>1 DEF Inv, Types, FramesFit
  <2>8. StoreFits'
    BY <1>a, <2>1, Fields DEF Inv, Types, StoreFits
  <2>9. GhostsFit'
    BY <2>1 DEF Inv, Types, GhostsFit
  <2> QED BY <2>2, <2>3, <2>4, <2>5, <2>6, <2>7, <2>8, <2>9 DEF Types, FramesFit
<1>2. Frames'
  BY <1>a DEF Inv, Frames
<1>3. Owned'
  BY <1>a DEF Inv, Owned
<1>4. Beside'
  BY <1>a DEF Inv, Beside
<1>5. Stored'
  BY <1>a DEF Inv, Stored, Matches, Start, Base
<1>6. Appends'
  BY <1>a DEF Appends
<1>7. Newer'
  BY <1>a DEF Inv, Newer
<1> QED BY <1>1, <1>2, <1>3, <1>4, <1>5, <1>6, <1>7 DEF Inv

LEMMA EndInv == ASSUME Inv, End PROVE Inv'
<1> USE Sizes DEF End, session, store, ghosts, apart
<1>a. turn.pc = "ending" /\ turn' = NoTurn /\ ~turn.live /\ ~turn'.live /\ turn'.pc = "none" /\ NoTurn \in TurnFrame
  BY EmptyFits, Fields DEF Inv, Frames, NoTurn
<1>1. Types'
  <2>1. Made' = Made /\ Snap' = Snap /\ TurnFrame' = TurnFrame /\ CommandFrame' = CommandFrame
        /\ NavigationFrame' = NavigationFrame
    BY Still
  <2>2. Counters'
    BY DEF Inv, Types, Counters
  <2>3. Flags'
    BY DEF Inv, Types, Flags
  <2>4. SessionFits'
    BY <2>1 DEF Inv, Types, SessionFits
  <2>5. turn' \in TurnFrame'
    BY <1>a, <2>1
  <2>6. cmd' \in CommandFrame'
    BY <2>1 DEF Inv, Types, FramesFit
  <2>7. nav' \in NavigationFrame'
    BY <2>1 DEF Inv, Types, FramesFit
  <2>8. StoreFits'
    BY <2>1 DEF Inv, Types, StoreFits
  <2>9. GhostsFit'
    BY <2>1 DEF Inv, Types, GhostsFit
  <2> QED BY <2>2, <2>3, <2>4, <2>5, <2>6, <2>7, <2>8, <2>9 DEF Types, FramesFit
<1>2. Frames'
  BY <1>a DEF Inv, Frames
<1>3. Owned'
  BY <1>a DEF Inv, Owned
<1>4. Beside'
  BY <1>a DEF Inv, Beside
<1>5. Stored'
  BY <1>a DEF Inv, Stored, Matches, Start, Base
<1>6. Appends'
  BY <1>a DEF Appends
<1>7. Newer'
  BY <1>a DEF Inv, Newer
<1> QED BY <1>1, <1>2, <1>3, <1>4, <1>5, <1>6, <1>7 DEF Inv

LEMMA CommandChangeInv == ASSUME Inv, CommandChange PROVE Inv'
<1> USE Sizes DEF CommandChange, store
<1>a. PICK o \in Owners : /\ Change(o, 0) /\ memory' = [memory EXCEPT ![o] = clock']
                          /\ cmd' = [pc |-> "changed", owner |-> o, version |-> clock']
  OBVIOUS
<1>b. 0 \in 0..MaxTurn /\ Types
  BY DEF Inv
<1>c. /\ clock \in Nat /\ clock' = clock + 1 /\ memory \in Made /\ kept \in Made
      /\ cmd'.pc = "changed" /\ cmd'.owner = o /\ cmd.pc = "none"
      /\ \A p \in Owners : memory'[p] = IF p = o THEN clock' ELSE memory[p]
  <2>1. clock \in Nat /\ clock' = clock + 1 /\ memory \in Made /\ kept \in Made
    BY <1>a, <1>b, Versioned, Fields
  <2> QED BY <1>a, <2>1 DEF Made
<1>d. disputed' \/ (~disputed /\ nav.pc = "none")
  OBVIOUS
<1>1. Types'
  <2>1. /\ clock \in Nat /\ clock' = clock + 1 /\ clock' \in 0..MaxVersion
        /\ author' \in [Versions -> 0..MaxTurn] /\ Made \subseteq Made' /\ Snap \subseteq Snap'
        /\ TurnFrame \subseteq TurnFrame' /\ CommandFrame \subseteq CommandFrame'
        /\ NavigationFrame \subseteq NavigationFrame' /\ \A s \in Made : [s EXCEPT ![o] = clock'] \in Made'
    BY <1>a, <1>b, Versioned
  <2>2. Counters'
    BY <2>1 DEF Inv, Types, Counters
  <2>3. Flags'
    BY DEF Inv, Types, Flags
  <2>4. SessionFits'
    BY <1>a, <1>c, <2>1 DEF Inv, Types, SessionFits
  <2>5. turn' \in TurnFrame'
    BY <2>1 DEF Inv, Types, FramesFit
  <2>6. cmd' \in CommandFrame'
    BY <1>a, <2>1 DEF CommandFrame
  <2>7. nav' \in NavigationFrame'
    BY <2>1 DEF Inv, Types, FramesFit
  <2>8. StoreFits'
    BY <2>1 DEF Inv, Types, StoreFits
  <2>9. GhostsFit'
    BY <2>1 DEF Inv, Types, GhostsFit
  <2> QED BY <2>2, <2>3, <2>4, <2>5, <2>6, <2>7, <2>8, <2>9 DEF Types, FramesFit
<1>2. Frames'
  BY <1>c DEF Inv, Frames
<1>3. Owned'
  <2>3. /\ \A c \in candidates : Clean(c.history, c.state, accepted \cup Elements(c.history), author', explicit)
        /\ \A c \in commits : Clean(c.history, c.state, accepted, author', explicit)
    BY <1>a, <1>b, CleanChanged, Fields DEF Inv, Owned
  <2>5. ~turn.live => Clean(history, memory', accepted, author', explicit)
    <3>1. ~turn.live => Clean(history, memory, accepted, author, explicit)
      BY DEF Inv, Owned
    <3>2. ~turn.live => Clean(history, [memory EXCEPT ![o] = clock'], accepted, author', explicit)
      BY <1>a, <1>b, <1>c, <3>1, CleanChanged
    <3> QED BY <1>a, <3>2
  <2>6. turn.live =>
          /\ Clean(turn.start, turn.rollback, accepted, author', explicit)
          /\ Clean(turn.child.history, turn.child.state, accepted \cup {turn.id}, author', explicit)
          /\ Clean(history, [memory EXCEPT ![o] = clock'], accepted \cup {turn.id}, author', explicit)
    <3>1. turn.live =>
            /\ Clean(turn.start, turn.rollback, accepted, author, explicit)
            /\ Clean(turn.child.history, turn.child.state, accepted \cup {turn.id}, author, explicit)
            /\ Clean(history, memory, accepted \cup {turn.id}, author, explicit)
      BY DEF Inv, Owned
    <3> QED BY <1>a, <1>b, <1>c, <3>1, CleanChanged, Fields
  <2>7. nav.pc \in {"begun", "fork", "undo"} =>
          /\ Clean(nav.target.history, nav.target.state, accepted, author', explicit)
          /\ Clean(nav.previous.history, nav.previous.state, accepted, author', explicit)
          /\ Clean(nav.replaced.history, nav.replaced.state, accepted, author', explicit)
    BY <1>a, <1>b, CleanChanged, Fields DEF Inv, Owned
  <2> QED BY <1>a, <2>3, <2>5, <2>6, <2>7 DEF Inv, Owned
<1>4. Beside'
  BY <1>d DEF Beside
<1>5. Stored'
  BY <1>c, <1>d DEF Inv, Stored, Matches, Start, Base
<1>6. Appends'
  BY DEF Inv, Appends, Frames
<1>7. Newer'
  <2>1. \A p \in Owners : kept[p] \in 0..clock /\ memory[p] \in 0..clock
    BY <1>c DEF Made
  <2>2. \A p \in Owners : kept[p] <= memory[p] => kept[p] <= memory'[p]
    BY <1>c, <2>1
  <2>3. kept[o] <= memory'[o]
    BY <1>c, <2>1
  <2> QED BY <1>c, <1>d, <2>2, <2>3 DEF Inv, Newer
<1> QED BY <1>1, <1>2, <1>3, <1>4, <1>5, <1>6, <1>7 DEF Inv

LEMMA CheckpointInv == ASSUME Inv, Checkpoint PROVE Inv'
<1> DEFINE owner == cmd.owner
           state == Checkpointed(owner)
           s == [history |-> saved.history, state |-> state]
<1>1. owner \in Owners /\ memory \in Made /\ Base \in Made /\ saved.history \in Seq(Turns) /\ kept \in Made
  BY Fields DEF Checkpoint, Inv, Frames, Base
<1>2. state = [Base EXCEPT ![owner] = memory[owner]]
  BY DEF Checkpointed, Base
<1>3. /\ state \in Made /\ state[owner] = memory[owner] /\ memory[owner] \in 0..clock
      /\ \A o \in Owners : o # owner => state[o] = Base[o]
  BY <1>1, <1>2 DEF Made
<1>4. s \in Snap /\ s.history = saved.history /\ s.state = state
  BY <1>1, <1>3, Snapped
<1>5. /\ cmd.pc = "changed" /\ explicit' = explicit \cup {memory[owner]}
      /\ UNCHANGED <<history, memory, nav, branch, commits, clock, begun, author, accepted, offered, stale, disputed>>
      /\ \/ /\ Accept(s)
            /\ turn' = IF turn.live THEN [turn EXCEPT !.rollback = state, !.owners = @ \cup {owner}] ELSE turn
            /\ kept' = [kept EXCEPT ![owner] = IF @ < memory[owner] THEN memory[owner] ELSE @]
            /\ cmd' = [cmd EXCEPT !.pc = "saved"] /\ unsaved' = {}
         \/ Refuse(s) /\ cmd' = NoCommand /\ unsaved' = unsaved \cup {owner} /\ UNCHANGED <<turn, kept>>
  BY DEF Checkpoint, session
<1>6. /\ Made' = Made /\ Snap' = Snap /\ TurnFrame' = TurnFrame /\ CommandFrame' = CommandFrame
      /\ NavigationFrame' = NavigationFrame
  BY <1>5, Still
<1>7. explicit' \subseteq 0..MaxVersion /\ turn \in TurnFrame /\ cmd \in CommandFrame /\ clock \in Nat
  BY <1>3, <1>5, Fields, Sizes DEF Inv, Types, Counters, FramesFit, GhostsFit
<1>8. ASSUME ~disputed
      PROVE  /\ nav.pc \notin {"begun", "fork", "undo"} /\ nav.pc \in {"none", "reset"}
             /\ kept[owner] <= memory[owner]
             /\ \A o \in Owners : /\ kept[o] <= state[o] /\ (turn.pc # "failing" => kept[o] <= memory[o])
  <2>1. nav.pc \notin {"begun", "fork", "undo"} /\ nav.pc \in {"none", "reset"}
    BY <1>5, <1>8 DEF Inv, Beside, Types, FramesFit, NavigationFrame, Stage
  <2>2. /\ kept[owner] <= memory[owner]
        /\ \A o \in Owners : turn.pc # "failing" => kept[o] <= memory[o]
    BY <1>1, <1>5, <1>8, <2>1 DEF Inv, Newer
  <2>3. \A o \in Owners : kept[o] <= Base[o]
    BY <1>8, <2>1 DEF Inv, Newer, Base, Frames
  <2> QED BY <1>3, <2>1, <2>2, <2>3
<1> HIDE DEF s
<1>9. \A h, t, T : Clean(h, t, T, author, explicit) => Clean(h, t, T, author, explicit')
  BY <1>5, CleanGrows
<1>10. \A h, T : Clean(h, Base, T, author, explicit) => Clean(h, state, T, author, explicit')
  BY <1>3, <1>5 DEF Clean, Admits
<1>11. Clean(saved.history, state, accepted \cup Elements(saved.history), author, explicit')
       /\ Elements(saved.history) \subseteq offered
  <2>1. Clean(Start, Base, accepted, author, explicit) /\ Elements(saved.history) \subseteq accepted
    BY DEF Inv, Owned, Start, Base
  <2>2. Clean(saved.history, Base, accepted \cup Elements(saved.history), author, explicit)
    BY <2>1 DEF Clean, Admits
  <2> QED BY <1>10, <2>1, <2>2 DEF Inv, Types, GhostsFit
<1> HIDE DEF state
<1>12. CASE /\ Accept(s)
            /\ turn' = IF turn.live THEN [turn EXCEPT !.rollback = state, !.owners = @ \cup {owner}] ELSE turn
            /\ kept' = [kept EXCEPT ![owner] = IF @ < memory[owner] THEN memory[owner] ELSE @]
            /\ cmd' = [cmd EXCEPT !.pc = "saved"] /\ unsaved' = {}
  <2>1. saved' = s /\ candidates' = {s} /\ failed' = failed /\ failures' = failures
    BY <1>12 DEF Accept
  <2>2. /\ turn'.live = turn.live /\ turn'.pc = turn.pc /\ turn'.id = turn.id /\ turn'.start = turn.start
        /\ turn'.child = turn.child /\ turn.owners \subseteq turn'.owners
        /\ turn.live => turn'.rollback = state /\ owner \in turn'.owners
        /\ ~turn.live => turn'.rollback = turn.rollback
    BY <1>7, <1>12 DEF TurnFrame
  <2>3. turn' \in TurnFrame
    BY <1>1, <1>3, <1>7, <1>12 DEF TurnFrame
  <2>4. cmd'.pc = "saved" /\ cmd'.owner = owner /\ cmd' \in CommandFrame
    BY <1>7, <1>12 DEF CommandFrame
  <2>5. kept' \in Made /\ (\A o \in Owners : o # owner => kept'[o] = kept[o])
        /\ (kept[owner] <= memory[owner] => kept'[owner] = memory[owner])
    <3>1. kept[owner] \in 0..clock /\ memory[owner] \in 0..clock
      BY <1>1, <1>3 DEF Made
    <3>2. kept'[owner] = IF kept[owner] < memory[owner] THEN memory[owner] ELSE kept[owner]
      BY <1>1, <1>12 DEF Made
    <3> QED BY <1>1, <1>7, <1>12, <3>1, <3>2 DEF Made
  <2>6. Types'
    <3>1. Counters' /\ Flags' /\ SessionFits'
      BY <1>5, <1>6, <2>1 DEF Inv, Types, Counters, Flags, SessionFits
    <3>2. FramesFit'
      BY <1>5, <1>6, <2>3, <2>4 DEF Inv, Types, FramesFit
    <3>3. StoreFits'
      BY <1>4, <1>5, <1>6, <2>1 DEF Inv, Types, StoreFits
    <3>4. GhostsFit'
      BY <1>5, <1>6, <1>7, <1>12, <2>5 DEF Inv, Types, GhostsFit
    <3> QED BY <3>1, <3>2, <3>3, <3>4 DEF Types
  <2>7. Frames'
    BY <1>1, <1>4, <1>5, <2>1, <2>2, <2>4 DEF Inv, Frames
  <2>8. Owned'
    <3>1. turn.live => Clean(turn.start, state, accepted, author, explicit')
      BY <1>10 DEF Inv, Owned, Base
    <3>2. Elements(saved.history) \subseteq accepted
      BY DEF Inv, Owned
    <3> QED BY <1>4, <1>5, <1>9, <1>11, <2>1, <2>2, <3>1, <3>2 DEF Inv, Owned
  <2>9. Beside'
    BY <1>5, <1>8, <2>4 DEF Inv, Beside
  <2>10. Stored'
    <3>1. ~disputed /\ ~stale /\ nav.pc = "none" => Start' = saved.history
      BY <1>5, <2>2 DEF Inv, Stored, Start
    <3>2. \A o \in Owners : Base'[o] = state[o]
      <4>1. CASE turn.live
        BY <2>2, <4>1 DEF Base
      <4>2. CASE ~turn.live
        BY <1>3, <1>5, <2>2, <4>2 DEF Base
      <4> QED BY <4>1, <4>2
    <3> QED BY <1>4, <1>5, <1>8, <2>1, <3>1, <3>2 DEF Stored, Matches
  <2>11. Appends'
    BY <1>5, <2>2 DEF Inv, Appends
  <2>12. Newer'
    <3> SUFFICES ASSUME ~disputed, NEW o \in Owners
                 PROVE  /\ kept'[o] <= state[o]
                        /\ turn.pc # "failing" => kept'[o] <= memory[o]
                        /\ turn'.live => kept'[o] <= turn'.rollback[o]
                        /\ turn'.pc = "child" /\ o \notin turn'.owners => kept'[o] <= turn'.child.state[o]
      BY <1>4, <1>5, <1>8, <2>1, <2>2, <2>4 DEF Newer
    <3>1. memory[owner] <= memory[owner]
      BY <1>3, <1>7
    <3>2. kept'[o] <= state[o] /\ (turn.pc # "failing" => kept'[o] <= memory[o])
      BY <1>3, <1>8, <2>5, <3>1
    <3>3. turn.pc = "child" => turn.live
      BY DEF Inv, Frames
    <3>4. turn'.pc = "child" /\ o \notin turn'.owners => kept'[o] <= turn'.child.state[o]
      BY <2>2, <2>5, <3>3 DEF Inv, Newer
    <3> QED BY <2>2, <3>2, <3>4
  <2> QED BY <2>6, <2>7, <2>8, <2>9, <2>10, <2>11, <2>12 DEF Inv
<1>13. CASE Refuse(s) /\ cmd' = NoCommand /\ unsaved' = unsaved \cup {owner} /\ UNCHANGED <<turn, kept>>
  <2>1. /\ saved' = saved /\ candidates' \subseteq candidates \cup {s}
        /\ failed' \in BOOLEAN /\ failures' \in 0..MaxFailures
    BY <1>13, Refused DEF Inv
  <2>2. cmd' \in CommandFrame /\ cmd'.pc = "none"
    BY <1>7, <1>13, EmptyFits DEF NoCommand
  <2>3. Types'
    <3>1. Counters' /\ Flags' /\ SessionFits'
      BY <1>5, <1>6, <2>1 DEF Inv, Types, Counters, Flags, SessionFits
    <3>2. FramesFit'
      BY <1>5, <1>6, <1>13, <2>2 DEF Inv, Types, FramesFit
    <3>3. StoreFits'
      BY <1>4, <1>5, <1>6, <2>1 DEF Inv, Types, StoreFits
    <3>4. GhostsFit'
      BY <1>1, <1>5, <1>6, <1>7, <1>13 DEF Inv, Types, GhostsFit
    <3> QED BY <3>1, <3>2, <3>3, <3>4 DEF Types
  <2>4. Frames'
    BY <1>5, <1>13, <2>1, <2>2 DEF Inv, Frames
  <2>5. Owned'
    <3>1. \A c \in candidates' : c \in candidates \/ (c.history = saved.history /\ c.state = state)
      BY <1>4, <2>1
    <3> QED BY <1>5, <1>9, <1>11, <1>13, <2>1, <3>1 DEF Inv, Owned
  <2>6. Beside'
    BY <1>5, <2>2 DEF Inv, Beside
  <2>7. Stored'
    BY <1>5, <1>8, <1>13, <2>1, <2>2 DEF Inv, Stored, Matches, Start, Base
  <2>8. Appends'
    BY <1>5, <1>13 DEF Inv, Appends
  <2>9. Newer'
    <3>1. \A c \in candidates' : c \in candidates \/ c.state = state
      BY <1>4, <2>1
    <3> QED BY <1>5, <1>8, <1>13, <2>2, <3>1 DEF Inv, Newer
  <2> QED BY <2>3, <2>4, <2>5, <2>6, <2>7, <2>8, <2>9 DEF Inv
<1> QED BY <1>5, <1>12, <1>13

LEMMA CommandReturnsInv == ASSUME Inv, CommandReturns PROVE Inv'
<1> USE Sizes DEF CommandReturns, session, store, ghosts, apart
<1>a. cmd.pc = "saved" /\ cmd' = NoCommand /\ cmd'.pc = "none" /\ NoCommand \in CommandFrame
  BY EmptyFits, Fields DEF Inv, NoCommand
<1>1. Types'
  <2>1. Made' = Made /\ Snap' = Snap /\ TurnFrame' = TurnFrame /\ CommandFrame' = CommandFrame
        /\ NavigationFrame' = NavigationFrame
    BY Still
  <2>2. Counters'
    BY DEF Inv, Types, Counters
  <2>3. Flags'
    BY DEF Inv, Types, Flags
  <2>4. SessionFits'
    BY <2>1 DEF Inv, Types, SessionFits
  <2>5. turn' \in TurnFrame'
    BY <2>1 DEF Inv, Types, FramesFit, TurnFrame, Place
  <2>6. cmd' \in CommandFrame'
    BY <1>a, <2>1
  <2>7. nav' \in NavigationFrame'
    BY <2>1 DEF Inv, Types, FramesFit
  <2>8. StoreFits'
    BY <2>1 DEF Inv, Types, StoreFits
  <2>9. GhostsFit'
    BY <2>1 DEF Inv, Types, GhostsFit
  <2> QED BY <2>2, <2>3, <2>4, <2>5, <2>6, <2>7, <2>8, <2>9 DEF Types, FramesFit
<1>2. Frames'
  BY <1>a DEF Inv, Frames
<1>3. Owned'
  BY DEF Inv, Owned, Frames
<1>4. Beside'
  BY <1>a DEF Inv, Beside
<1>5. Stored'
  BY <1>a DEF Inv, Stored, Matches, Start, Base
<1>6. Appends'
  BY DEF Inv, Appends, Frames
<1>7. Newer'
  BY <1>a DEF Inv, Newer
<1> QED BY <1>1, <1>2, <1>3, <1>4, <1>5, <1>6, <1>7 DEF Inv

LEMMA ForkBeginInv == ASSUME Inv, ForkBegin PROVE Inv'
<1> USE Sizes DEF ForkBegin, session, store
<1>a. PICK target \in Tree : nav' = [NoNavigation EXCEPT !.pc = "begun", !.target = target,
                                       !.previous = [history |-> history, state |-> memory]]
  OBVIOUS
<1>b. /\ target \in commits /\ target \in Snap /\ NoSnapshot \in Snap /\ [history |-> history, state |-> memory] \in Snap
  BY <1>a, Fields, EmptyFits, Snapped DEF Inv, Tree
<1>c. /\ nav'.pc = "begun" /\ nav'.target = target /\ nav'.previous.history = history /\ nav'.previous.state = memory
      /\ nav'.replaced = NoSnapshot /\ turn.pc = "none" /\ ~turn.live /\ nav.pc = "none"
  BY <1>a DEF Inv, Frames, NoNavigation
<1>d. disputed' \/ (~disputed /\ cmd.pc # "changed")
  OBVIOUS
<1>1. Types'
  <2>1. Made' = Made /\ Snap' = Snap /\ TurnFrame' = TurnFrame /\ CommandFrame' = CommandFrame
        /\ NavigationFrame' = NavigationFrame
    BY Still
  <2>2. Counters'
    BY DEF Inv, Types, Counters
  <2>3. Flags'
    BY DEF Inv, Types, Flags
  <2>4. SessionFits'
    BY <2>1 DEF Inv, Types, SessionFits
  <2>5. turn' \in TurnFrame'
    BY <2>1 DEF Inv, Types, FramesFit, TurnFrame, Place
  <2>6. cmd' \in CommandFrame'
    BY <2>1 DEF Inv, Types, FramesFit
  <2>7. nav' \in NavigationFrame'
    <3> DEFINE c == [history |-> history, state |-> memory]
    <3>1. c \in Snap
      BY <1>b
    <3>2. nav' = [NoNavigation EXCEPT !.pc = "begun", !.target = target, !.previous = c]
      BY <1>a
    <3> HIDE DEF c
    <3> QED BY <1>b, <2>1, <3>1, <3>2 DEF NavigationFrame, NoNavigation, Stage
  <2>8. StoreFits'
    BY <2>1 DEF Inv, Types, StoreFits
  <2>9. GhostsFit'
    BY <2>1 DEF Inv, Types, GhostsFit
  <2> QED BY <2>2, <2>3, <2>4, <2>5, <2>6, <2>7, <2>8, <2>9 DEF Types, FramesFit
<1>2. Frames'
  BY <1>c DEF Inv, Frames
<1>3. Owned'
  BY <1>b, <1>c, CleanEmpty DEF Inv, Owned, NoSnapshot
<1>4. Beside'
  BY <1>c, <1>d DEF Beside
<1>5. Stored'
  BY <1>c, <1>d DEF Inv, Stored, Matches, Start, Base
<1>6. Appends'
  BY <1>c DEF Appends
<1>7. Newer'
  BY <1>c, <1>d DEF Inv, Newer
<1> QED BY <1>1, <1>2, <1>3, <1>4, <1>5, <1>6, <1>7 DEF Inv

LEMMA ForkRestoreInv == ASSUME Inv, ForkRestore PROVE Inv'
<1> USE Sizes DEF ForkRestore, store, ghosts, apart
<1>b. [history |-> history, state |-> memory] \in Snap
  BY Fields, Snapped DEF Inv
<1>c. /\ nav.pc = "begun" /\ nav'.pc = "fork" /\ nav'.target = nav.target /\ nav'.previous = nav.previous
      /\ nav'.replaced.history = history /\ nav'.replaced.state = memory /\ turn.pc = "none" /\ ~turn.live
      /\ nav'.replaced = [history |-> history, state |-> memory]
  BY DEF Inv, Frames, Types, FramesFit, NavigationFrame
<1>1. Types'
  <2>1. Made' = Made /\ Snap' = Snap /\ TurnFrame' = TurnFrame /\ CommandFrame' = CommandFrame
        /\ NavigationFrame' = NavigationFrame
    BY Still
  <2>2. Counters'
    BY DEF Inv, Types, Counters
  <2>3. Flags'
    BY DEF Inv, Types, Flags
  <2>4. SessionFits'
    BY <2>1, Fields DEF Inv, SessionFits
  <2>5. turn' \in TurnFrame'
    BY <2>1 DEF Inv, Types, FramesFit, TurnFrame, Place
  <2>6. cmd' \in CommandFrame'
    BY <2>1 DEF Inv, Types, FramesFit
  <2>7. nav' \in NavigationFrame'
    <3> DEFINE c == [history |-> history, state |-> memory]
    <3>1. c \in Snap
      BY <1>b
    <3>2. nav' = [nav EXCEPT !.pc = "fork", !.replaced = c]
      OBVIOUS
    <3> HIDE DEF c
    <3> QED BY <2>1, <3>1, <3>2 DEF Inv, Types, FramesFit, NavigationFrame, Stage
  <2>8. StoreFits'
    BY <2>1 DEF Inv, Types, StoreFits
  <2>9. GhostsFit'
    BY <2>1 DEF Inv, Types, GhostsFit
  <2> QED BY <2>2, <2>3, <2>4, <2>5, <2>6, <2>7, <2>8, <2>9 DEF Types, FramesFit
<1>2. Frames'
  BY <1>c DEF Inv, Frames
<1>3. Owned'
  BY <1>c DEF Inv, Owned
<1>4. Beside'
  <2>1. ~disputed => nav.previous = [history |-> history, state |-> memory]
    <3>1. ~disputed => nav.previous.history = history /\ nav.previous.state = memory
      BY <1>c DEF Inv, Beside
    <3>2. nav.previous \in Snap
      BY Fields DEF Inv
    <3> QED BY <3>1, <3>2 DEF Snap
  <2> QED BY <1>c, <2>1 DEF Inv, Beside
<1>5. Stored'
  BY <1>c DEF Inv, Stored, Matches
<1>6. Appends'
  BY <1>c DEF Appends
<1>7. Newer'
  BY <1>c DEF Inv, Newer, Beside
<1> QED BY <1>1, <1>2, <1>3, <1>4, <1>5, <1>6, <1>7 DEF Inv

LEMMA ForkFailsInv == ASSUME Inv, ForkFails PROVE Inv'
<1> USE Sizes DEF ForkFails, store, ghosts, apart
<1>a. /\ nav' = NoNavigation /\ nav'.pc = "none" /\ NoNavigation \in NavigationFrame /\ nav.pc = "fork"
      /\ turn.pc = "none" /\ ~turn.live /\ history' = nav.replaced.history /\ memory' = nav.replaced.state
  BY EmptyFits, Fields DEF Inv, Frames, NoNavigation
<1>1. Types'
  <2>1. Made' = Made /\ Snap' = Snap /\ TurnFrame' = TurnFrame /\ CommandFrame' = CommandFrame
        /\ NavigationFrame' = NavigationFrame
    BY Still
  <2>2. Counters'
    BY DEF Inv, Types, Counters, Fail
  <2>3. Flags'
    BY DEF Inv, Types, Flags
  <2>4. SessionFits'
    BY <1>a, <2>1, Fields DEF Inv, SessionFits
  <2>5. turn' \in TurnFrame'
    BY <2>1 DEF Inv, Types, FramesFit, TurnFrame, Place
  <2>6. cmd' \in CommandFrame'
    BY <2>1 DEF Inv, Types, FramesFit
  <2>7. nav' \in NavigationFrame'
    BY <1>a, <2>1
  <2>8. StoreFits'
    BY <2>1 DEF Inv, Types, StoreFits
  <2>9. GhostsFit'
    BY <2>1 DEF Inv, Types, GhostsFit
  <2> QED BY <2>2, <2>3, <2>4, <2>5, <2>6, <2>7, <2>8, <2>9 DEF Types, FramesFit
<1>2. Frames'
  BY <1>a DEF Inv, Frames
<1>3. Owned'
  BY <1>a DEF Inv, Owned
<1>4. Beside'
  BY <1>a DEF Beside
<1>5. Stored'
  BY <1>a DEF Inv, Stored, Beside, Matches, Start, Base
<1>6. Appends'
  BY <1>a DEF Appends
<1>7. Newer'
  BY <1>a DEF Inv, Newer
<1> QED BY <1>1, <1>2, <1>3, <1>4, <1>5, <1>6, <1>7 DEF Inv

LEMMA ForkSelectInv == ASSUME Inv, ForkSelect PROVE Inv'
<1> USE Sizes
<1>1. /\ nav.pc = "fork" /\ turn.pc = "none" /\ ~turn.live /\ kept' = Older(kept, nav.target.state)
      /\ UNCHANGED <<turn, cmd, commits, clock, begun, author, accepted, offered, explicit, disputed>>
      /\ \/ /\ Accept(nav.target) /\ branch' = nav.target.history /\ nav' = NoNavigation /\ stale' = FALSE
            /\ unsaved' = {} /\ history' = history /\ memory' = memory
         \/ /\ Refuse(nav.target)
            /\ history' = nav.previous.history /\ memory' = nav.previous.state
            /\ nav' = [nav EXCEPT !.pc = "undo", !.replaced = [history |-> history, state |-> memory]]
            /\ UNCHANGED <<branch, stale, unsaved>>
  BY DEF ForkSelect, session, Inv, Frames
<1>2. /\ Made' = Made /\ Snap' = Snap /\ TurnFrame' = TurnFrame /\ CommandFrame' = CommandFrame
      /\ NavigationFrame' = NavigationFrame
  BY <1>1, Still
<1>3. /\ nav.target \in Snap /\ nav.target.history \in Seq(Turns) /\ nav.target.state \in Made
      /\ nav.previous.history \in Seq(Turns) /\ nav.previous.state \in Made /\ nav.replaced.state \in Made
      /\ memory \in Made /\ history \in Seq(Turns) /\ kept \in Made /\ clock \in Nat /\ nav \in NavigationFrame
  BY Fields DEF Inv, Types, FramesFit
<1>4. /\ kept' \in Made
      /\ \A o \in Owners : kept'[o] <= kept[o] /\ kept'[o] <= nav.target.state[o] /\ kept'[o] \in Nat
  BY <1>1, <1>3 DEF Older, Made
<1>5. /\ Clean(nav.target.history, nav.target.state, accepted, author, explicit)
      /\ Clean(nav.previous.history, nav.previous.state, accepted, author, explicit)
      /\ Clean(nav.target.history, nav.target.state, accepted \cup Elements(nav.target.history), author, explicit)
      /\ Elements(nav.target.history) \subseteq accepted /\ Elements(nav.target.history) \subseteq offered
  <2>1. /\ Clean(nav.target.history, nav.target.state, accepted, author, explicit)
        /\ Clean(nav.previous.history, nav.previous.state, accepted, author, explicit)
    BY <1>1 DEF Inv, Owned
  <2> QED BY <2>1, CleanGrows DEF Clean, Inv, Types, GhostsFit
<1>6. ASSUME NEW o \in Owners, NEW v \in Nat, kept[o] <= v PROVE kept'[o] <= v
  BY <1>3, <1>4, <1>6 DEF Made
<1>7. CASE /\ Accept(nav.target) /\ branch' = nav.target.history /\ nav' = NoNavigation /\ stale' = FALSE
           /\ unsaved' = {} /\ history' = history /\ memory' = memory
  <2>1. saved' = nav.target /\ candidates' = {nav.target} /\ failed' = failed /\ failures' = failures
    BY <1>7 DEF Accept
  <2>2. nav'.pc = "none" /\ nav' \in NavigationFrame
    BY <1>3, <1>7, EmptyFits DEF NoNavigation
  <2>3. Types'
    <3>1. Counters' /\ Flags' /\ SessionFits'
      BY <1>1, <1>2, <1>7, <2>1 DEF Inv, Types, Counters, Flags, SessionFits
    <3>2. FramesFit'
      BY <1>1, <1>2, <2>2 DEF Inv, Types, FramesFit
    <3>3. StoreFits'
      BY <1>1, <1>2, <1>3, <1>7, <2>1 DEF Inv, Types, StoreFits
    <3>4. GhostsFit'
      BY <1>1, <1>2, <1>4, <1>7 DEF Inv, Types, GhostsFit
    <3> QED BY <3>1, <3>2, <3>3, <3>4 DEF Types
  <2>4. Frames'
    BY <1>1, <1>7, <2>1, <2>2 DEF Inv, Frames
  <2>5. Owned'
    BY <1>1, <1>5, <1>7, <2>1, <2>2 DEF Inv, Owned
  <2>6. Beside'
    BY <2>2 DEF Beside
  <2>7. Stored'
    <3>1. ~disputed => history = nav.target.history /\ memory = nav.target.state
      BY <1>1 DEF Inv, Beside
    <3> QED BY <1>1, <1>7, <2>1, <2>2, <3>1 DEF Stored, Matches, Start, Base
  <2>8. Appends'
    BY <1>1 DEF Appends
  <2>9. Newer'
    <3>1. ~disputed => memory = nav.target.state
      BY <1>1 DEF Inv, Beside
    <3> QED BY <1>1, <1>4, <1>7, <2>1, <2>2, <3>1 DEF Newer
  <2> QED BY <2>3, <2>4, <2>5, <2>6, <2>7, <2>8, <2>9 DEF Inv
<1>8. CASE /\ Refuse(nav.target)
           /\ history' = nav.previous.history /\ memory' = nav.previous.state
           /\ nav' = [nav EXCEPT !.pc = "undo", !.replaced = [history |-> history, state |-> memory]]
           /\ UNCHANGED <<branch, stale, unsaved>>
  <2>1. /\ saved' = saved /\ candidates' \subseteq candidates \cup {nav.target}
        /\ failed' \in BOOLEAN /\ failures' \in 0..MaxFailures
    BY <1>8, Refused DEF Inv
  <2>2. /\ nav'.pc = "undo" /\ nav' \in NavigationFrame /\ nav'.target = nav.target /\ nav'.previous = nav.previous
        /\ nav'.replaced.history = history /\ nav'.replaced.state = memory
    <3> DEFINE c == [history |-> history, state |-> memory]
    <3>1. c \in Snap /\ c.history = history /\ c.state = memory
      BY <1>3, Snapped
    <3>2. nav' = [nav EXCEPT !.pc = "undo", !.replaced = c]
      BY <1>8
    <3> HIDE DEF c
    <3> QED BY <1>3, <3>1, <3>2 DEF NavigationFrame, Stage
  <2>3. Types'
    <3>1. Counters' /\ Flags' /\ SessionFits'
      BY <1>1, <1>2, <1>3, <1>8, <2>1 DEF Inv, Types, Counters, Flags, SessionFits
    <3>2. FramesFit'
      BY <1>1, <1>2, <2>2 DEF Inv, Types, FramesFit
    <3>3. StoreFits'
      BY <1>1, <1>2, <1>3, <1>8, <2>1 DEF Inv, Types, StoreFits
    <3>4. GhostsFit'
      BY <1>1, <1>2, <1>4, <1>8 DEF Inv, Types, GhostsFit
    <3> QED BY <3>1, <3>2, <3>3, <3>4 DEF Types
  <2>4. Frames'
    BY <1>1, <1>8, <2>1, <2>2 DEF Inv, Frames
  <2>5. Owned'
    <3>1. \A c \in candidates' : c \in candidates \/ c = nav.target
      BY <2>1
    <3>2. Clean(history, memory, accepted, author, explicit)
      BY <1>1 DEF Inv, Owned
    <3> QED BY <1>1, <1>5, <1>8, <2>1, <2>2, <3>1, <3>2 DEF Inv, Owned
  <2>6. Beside'
    BY <1>1, <1>8, <2>2 DEF Inv, Beside
  <2>7. Stored'
    BY <1>1, <1>8, <2>1, <2>2 DEF Inv, Stored, Matches
  <2>8. Appends'
    BY <1>1 DEF Appends
  <2>9. Newer'
    <3> SUFFICES ASSUME ~disputed, NEW o \in Owners
                 PROVE  /\ \A c \in candidates' : kept'[o] <= c.state[o]
                        /\ kept'[o] <= nav.previous.state[o] /\ kept'[o] <= memory[o]
      <4>1. cmd.pc # "changed" \/ disputed
        BY <1>1 DEF Inv, Beside
      <4> QED BY <1>1, <1>8, <2>2 DEF Newer
    <3>1. ASSUME NEW c \in candidates PROVE kept'[o] <= c.state[o]
      <4>1. c.state[o] \in Nat /\ kept[o] <= c.state[o]
        BY CandidatesFit DEF Inv, Newer
      <4> QED BY <1>6, <4>1
    <3>2. kept'[o] <= nav.previous.state[o]
      <4>1. kept[o] <= nav.previous.state[o]
        BY <1>1 DEF Inv, Newer
      <4>2. nav.previous.state[o] \in Nat
        BY <1>3 DEF Made
      <4> QED BY <1>6, <4>1, <4>2
    <3>3. memory = nav.target.state
      BY <1>1 DEF Inv, Beside
    <3> QED BY <1>4, <2>1, <3>1, <3>2, <3>3
  <2> QED BY <2>3, <2>4, <2>5, <2>6, <2>7, <2>8, <2>9 DEF Inv
<1> QED BY <1>1, <1>7, <1>8

LEMMA ForkUndoneInv == ASSUME Inv, ForkUndone PROVE Inv'
<1> USE Sizes DEF ForkUndone, store
<1>a. /\ nav' = NoNavigation /\ nav'.pc = "none" /\ NoNavigation \in NavigationFrame /\ nav.pc = "undo"
      /\ turn.pc = "none" /\ ~turn.live
      /\ \/ history' = history /\ memory' = memory /\ stale' = stale /\ failures' = failures
         \/ history' = nav.replaced.history /\ memory' = nav.replaced.state /\ stale' = TRUE /\ Fail
  BY EmptyFits, Fields DEF Inv, Frames, NoNavigation, session
<1>1. Types'
  <2>1. Made' = Made /\ Snap' = Snap /\ TurnFrame' = TurnFrame /\ CommandFrame' = CommandFrame
        /\ NavigationFrame' = NavigationFrame
    BY Still
  <2>2. Counters'
    BY <1>a DEF Inv, Types, Counters, Fail
  <2>3. Flags'
    BY <1>a DEF Inv, Types, Flags
  <2>4. SessionFits'
    BY <1>a, <2>1, Fields DEF Inv, SessionFits
  <2>5. turn' \in TurnFrame'
    BY <2>1 DEF Inv, Types, FramesFit, TurnFrame, Place
  <2>6. cmd' \in CommandFrame'
    BY <2>1 DEF Inv, Types, FramesFit
  <2>7. nav' \in NavigationFrame'
    BY <1>a, <2>1
  <2>8. StoreFits'
    BY <2>1 DEF Inv, Types, StoreFits
  <2>9. GhostsFit'
    BY <2>1 DEF Inv, Types, GhostsFit
  <2> QED BY <2>2, <2>3, <2>4, <2>5, <2>6, <2>7, <2>8, <2>9 DEF Types, FramesFit
<1>2. Frames'
  BY <1>a DEF Inv, Frames
<1>3. Owned'
  BY <1>a DEF Inv, Owned
<1>4. Beside'
  BY <1>a DEF Beside
<1>5. Stored'
  BY <1>a DEF Inv, Stored, Beside, Matches, Start, Base
<1>6. Appends'
  BY <1>a DEF Appends
<1>7. Newer'
  BY <1>a DEF Inv, Newer
<1> QED BY <1>1, <1>2, <1>3, <1>4, <1>5, <1>6, <1>7 DEF Inv

LEMMA ResetMemoryInv == ASSUME Inv, ResetMemory PROVE Inv'
<1> USE Sizes DEF ResetMemory, store
<1>a. /\ nav' = [NoNavigation EXCEPT !.pc = "reset"] /\ nav'.pc = "reset" /\ nav' \in NavigationFrame
      /\ turn.pc = "none" /\ ~turn.live /\ NoState \in Made /\ <<>> \in Seq(Turns)
      /\ \A o \in Owners : NoState[o] = 0
  <2>1. NoNavigation \in NavigationFrame /\ NoState \in Made /\ <<>> \in Seq(Turns) /\ \A o \in Owners : NoState[o] = 0
    BY EmptyFits, Fields DEF Inv
  <2> QED BY <2>1 DEF Inv, Frames, NavigationFrame, Stage, NoNavigation
<1>1. Types'
  <2>1. Made' = Made /\ Snap' = Snap /\ TurnFrame' = TurnFrame /\ CommandFrame' = CommandFrame
        /\ NavigationFrame' = NavigationFrame
    BY Still
  <2>2. Counters'
    BY DEF Inv, Types, Counters
  <2>3. Flags'
    BY DEF Inv, Types, Flags
  <2>4. SessionFits'
    BY <1>a, <2>1 DEF SessionFits
  <2>5. turn' \in TurnFrame'
    BY <2>1 DEF Inv, Types, FramesFit, TurnFrame, Place
  <2>6. cmd' \in CommandFrame'
    BY <2>1 DEF Inv, Types, FramesFit
  <2>7. nav' \in NavigationFrame'
    BY <1>a, <2>1
  <2>8. StoreFits'
    BY <2>1 DEF Inv, Types, StoreFits
  <2>9. GhostsFit'
    BY <1>a, <2>1 DEF Inv, Types, GhostsFit
  <2> QED BY <2>2, <2>3, <2>4, <2>5, <2>6, <2>7, <2>8, <2>9 DEF Types, FramesFit
<1>2. Frames'
  BY <1>a DEF Inv, Frames
<1>3. Owned'
  BY <1>a, CleanEmpty DEF Inv, Owned
<1>4. Beside'
  BY <1>a DEF Beside
<1>5. Stored'
  BY <1>a DEF Stored
<1>6. Appends'
  BY <1>a DEF Appends
<1>7. Newer'
  <2>1. \A c \in candidates : \A o \in Owners : c.state[o] \in Nat
    BY CandidatesFit DEF Inv
  <2> QED BY <1>a, <2>1 DEF Newer
<1> QED BY <1>1, <1>2, <1>3, <1>4, <1>5, <1>6, <1>7 DEF Inv

LEMMA ResetStoreInv == ASSUME Inv, ResetStore PROVE Inv'
<1> USE Sizes DEF ResetStore, session
<1>a. /\ nav' = NoNavigation /\ nav'.pc = "none" /\ NoNavigation \in NavigationFrame /\ nav.pc = "reset"
      /\ turn.pc = "none" /\ ~turn.live /\ history = <<>> /\ NoSnapshot \in Snap
      /\ saved'.history = <<>> /\ saved'.state = NoState /\ <<>> \in Seq(Turns)
  BY EmptyFits, Fields DEF Inv, Frames, NoNavigation, NoSnapshot
<1>b. ~disputed => memory = NoState
  BY <1>a DEF Inv, Beside
<1>1. Types'
  <2>1. Made' = Made /\ Snap' = Snap /\ TurnFrame' = TurnFrame /\ CommandFrame' = CommandFrame
        /\ NavigationFrame' = NavigationFrame
    BY Still
  <2>2. Counters'
    BY DEF Inv, Types, Counters
  <2>3. Flags'
    BY DEF Inv, Types, Flags
  <2>4. SessionFits'
    BY <2>1 DEF Inv, Types, SessionFits
  <2>5. turn' \in TurnFrame'
    BY <2>1 DEF Inv, Types, FramesFit, TurnFrame, Place
  <2>6. cmd' \in CommandFrame'
    BY <2>1 DEF Inv, Types, FramesFit
  <2>7. nav' \in NavigationFrame'
    BY <1>a, <2>1
  <2>8. StoreFits'
    BY <1>a, <2>1 DEF StoreFits
  <2>9. GhostsFit'
    BY <2>1 DEF Inv, Types, GhostsFit
  <2> QED BY <2>2, <2>3, <2>4, <2>5, <2>6, <2>7, <2>8, <2>9 DEF Types, FramesFit
<1>2. Frames'
  BY <1>a DEF Inv, Frames
<1>3. Owned'
  BY <1>a, CleanEmpty DEF Inv, Owned, NoSnapshot
<1>4. Beside'
  BY <1>a DEF Beside
<1>5. Stored'
  BY <1>a, <1>b DEF Stored, Matches, Start, Base
<1>6. Appends'
  BY <1>a DEF Appends
<1>7. Newer'
  BY <1>a, <1>b DEF Inv, Newer, NoSnapshot
<1> QED BY <1>1, <1>2, <1>3, <1>4, <1>5, <1>6, <1>7 DEF Inv

LEMMA ResetFailsInv == ASSUME Inv, ResetFails PROVE Inv'
<1> USE Sizes DEF ResetFails, session
<1>a. /\ nav' = NoNavigation /\ nav'.pc = "none" /\ NoNavigation \in NavigationFrame /\ nav.pc = "reset"
      /\ turn.pc = "none" /\ ~turn.live /\ NoSnapshot \in Snap /\ <<>> \in Seq(Turns)
      /\ NoSnapshot.history = <<>> /\ NoSnapshot.state = NoState /\ failed' \in BOOLEAN
      /\ \/ saved' = saved /\ branch' = branch /\ candidates' = candidates
         \/ saved' = NoSnapshot /\ branch' = <<>> /\ candidates' = candidates \cup {NoSnapshot}
  BY EmptyFits, Fields DEF Inv, Types, Flags, Frames, NoNavigation, NoSnapshot
<1>b. /\ stale' /\ UNCHANGED <<history, memory, turn, cmd, commits, clock, begun, author, accepted, offered>>
      /\ UNCHANGED <<explicit, kept, unsaved, disputed>>
  OBVIOUS
<1>1. Types'
  <2>1. Made' = Made /\ Snap' = Snap /\ TurnFrame' = TurnFrame /\ CommandFrame' = CommandFrame
        /\ NavigationFrame' = NavigationFrame
    BY Still
  <2>2. Counters'
    BY DEF Inv, Types, Counters, Fail
  <2>3. Flags'
    BY <1>a DEF Inv, Types, Flags
  <2>4. SessionFits'
    BY <2>1 DEF Inv, Types, SessionFits
  <2>5. turn' \in TurnFrame'
    BY <2>1 DEF Inv, Types, FramesFit, TurnFrame, Place
  <2>6. cmd' \in CommandFrame'
    BY <2>1 DEF Inv, Types, FramesFit
  <2>7. nav' \in NavigationFrame'
    BY <1>a, <2>1
  <2>8. StoreFits'
    BY <1>a, <2>1 DEF Inv, Types, StoreFits
  <2>9. GhostsFit'
    BY <2>1 DEF Inv, Types, GhostsFit
  <2> QED BY <2>2, <2>3, <2>4, <2>5, <2>6, <2>7, <2>8, <2>9 DEF Types, FramesFit
<1>2. Frames'
  BY <1>a DEF Inv, Frames
<1>3. Owned'
  <2>1. Clean(<<>>, NoState, accepted \cup Elements(<<>>), author, explicit) /\ Elements(<<>>) = {}
    BY CleanEmpty
  <2>2. \A c \in candidates' : c \in candidates \/ (c.history = <<>> /\ c.state = NoState)
    BY <1>a
  <2>3. \A c \in candidates' : /\ Elements(c.history) \subseteq offered
                               /\ Clean(c.history, c.state, accepted \cup Elements(c.history), author, explicit)
    BY <2>1, <2>2 DEF Inv, Owned
  <2>4. Elements(saved'.history) \subseteq accepted
    BY <1>a, <2>1 DEF Inv, Owned
  <2> QED BY <1>a, <1>b, <2>3, <2>4 DEF Inv, Owned
<1>4. Beside'
  BY <1>a DEF Beside
<1>5. Stored'
  BY <1>b DEF Stored
<1>6. Appends'
  BY <1>a DEF Appends
<1>7. Newer'
  <2>1. ~disputed => \A o \in Owners : kept[o] <= 0
    <3>1. ~disputed => memory = NoState /\ \A o \in Owners : kept[o] <= memory[o]
      BY <1>a DEF Inv, Beside, Newer
    <3> QED BY <3>1, EmptyFits, Fields DEF Inv
  <2>2. \A c \in candidates' : c \in candidates \/ c.state = NoState
    BY <1>a
  <2>3. \A o \in Owners : NoState[o] = 0
    BY EmptyFits, Fields DEF Inv
  <2> QED BY <1>a, <1>b, <2>1, <2>2, <2>3 DEF Inv, Newer
<1> QED BY <1>1, <1>2, <1>3, <1>4, <1>5, <1>6, <1>7 DEF Inv

LEMMA CrashInv == ASSUME Inv, Crash PROVE Inv'
<1>1. PICK snapshot \in candidates :
        /\ history' = snapshot.history /\ memory' = snapshot.state /\ saved' = snapshot
        /\ branch' = snapshot.history /\ accepted' = accepted \cup Elements(snapshot.history)
        /\ \/ candidates' = {snapshot} /\ kept' = snapshot.state /\ disputed' = FALSE
           \/ UNCHANGED <<candidates, kept, disputed>>
  BY DEF Crash
<1>2. /\ failed' = FALSE /\ stale' = FALSE /\ unsaved' = {} /\ turn' = NoTurn /\ cmd' = NoCommand /\ nav' = NoNavigation
      /\ UNCHANGED <<commits, clock, begun, failures, author, offered, explicit>>
  BY DEF Crash
<1>3. /\ snapshot \in Snap /\ snapshot.history \in Seq(Turns) /\ snapshot.state \in Made /\ clock \in Nat
      /\ Elements(snapshot.history) \subseteq offered
      /\ Clean(snapshot.history, snapshot.state, accepted', author, explicit)
  BY <1>1, Fields DEF Inv, Owned
<1>4. /\ Made' = Made /\ Snap' = Snap /\ TurnFrame' = TurnFrame /\ CommandFrame' = CommandFrame
      /\ NavigationFrame' = NavigationFrame
  BY <1>2, Still
<1>5. ~turn'.live /\ turn'.pc = "none" /\ nav'.pc = "none" /\ cmd'.pc = "none"
  BY <1>2 DEF NoTurn, NoNavigation, NoCommand
<1>6. Types'
  <2>1. turn' \in TurnFrame /\ cmd' \in CommandFrame /\ nav' \in NavigationFrame
    BY <1>2, <1>3, EmptyFits
  <2>2. Counters' /\ Flags'
    BY <1>1, <1>2 DEF Inv, Types, Counters, Flags
  <2>3. SessionFits' /\ FramesFit'
    BY <1>1, <1>3, <1>4, <2>1 DEF SessionFits, FramesFit
  <2>4. StoreFits'
    BY <1>1, <1>2, <1>3, <1>4 DEF Inv, Types, StoreFits
  <2>5. GhostsFit'
    BY <1>1, <1>2, <1>3, <1>4 DEF Inv, Types, GhostsFit
  <2> QED BY <2>2, <2>3, <2>4, <2>5 DEF Types
<1>7. Frames'
  BY <1>1, <1>5 DEF Frames
<1>8. Owned'
  <2>1. \A c \in commits : Clean(c.history, c.state, accepted', author, explicit)
    BY <1>1, CleanGrows DEF Inv, Owned
  <2>2. \A c \in candidates : Clean(c.history, c.state, accepted' \cup Elements(c.history), author, explicit)
    BY <1>1, CleanGrows DEF Inv, Owned
  <2>3. \A c \in candidates' : c \in candidates
    BY <1>1
  <2>4. \A c \in candidates : Elements(c.history) \subseteq offered
    BY DEF Inv, Owned
  <2> QED BY <1>1, <1>2, <1>3, <1>5, <2>1, <2>2, <2>3, <2>4 DEF Owned
<1>9. Beside' /\ Appends'
  BY <1>5 DEF Beside, Appends
<1>10. Stored'
  BY <1>1, <1>2, <1>5 DEF Stored, Matches, Start, Base
<1>11. Newer'
  <2>1. \A o \in Owners : snapshot.state[o] <= snapshot.state[o]
    BY <1>3 DEF Made
  <2> QED BY <1>1, <1>5, <2>1 DEF Inv, Newer
<1> QED BY <1>6, <1>7, <1>8, <1>9, <1>10, <1>11 DEF Inv

LEMMA NextInv == Inv /\ [Next]_vars => Inv'
<1> SUFFICES ASSUME Inv, [Next]_vars PROVE Inv'
  OBVIOUS
<1>1. CASE UNCHANGED vars
  <2>1. /\ UNCHANGED <<history, memory, turn, cmd, nav, saved, branch, commits, candidates, failed, clock>>
        /\ UNCHANGED <<begun, failures, author, accepted, offered, explicit, kept, stale, unsaved, disputed>>
    BY <1>1 DEF vars, session, store, ghosts, apart
  <2>2. Types'
    BY <2>1, Still DEF Inv, Types, Counters, Flags, SessionFits, FramesFit, StoreFits, GhostsFit
  <2>3. Frames' /\ Owned' /\ Beside' /\ Appends' /\ Newer'
    BY <2>1 DEF Inv, Frames, Owned, Beside, Appends, Newer
  <2>4. Stored'
    BY <2>1 DEF Inv, Stored, Matches, Start, Base
  <2> QED BY <2>2, <2>3, <2>4 DEF Inv
<1>2. CASE TurnStep
  BY <1>2, BeginTurnInv, MessageInv, TurnChangeInv, CommitInv, FinishInv, EndInv, StartChildInv,
     ChildMessageInv, ChildChangeInv, RestoreInv, RestoreFailsInv DEF TurnStep
<1>3. CASE CommandStep
  BY <1>3, CommandChangeInv, CheckpointInv, CommandReturnsInv DEF CommandStep
<1>4. CASE NavigationStep
  BY <1>4, ForkBeginInv, ForkRestoreInv, ForkFailsInv, ForkSelectInv, ForkUndoneInv, ResetMemoryInv,
     ResetStoreInv, ResetFailsInv DEF NavigationStep
<1> QED BY <1>1, <1>2, <1>3, <1>4, CrashInv DEF Next

LEMMA Invariant == Spec => []Inv
  BY InitInv, NextInv, PTL DEF Spec

(* An idle session is what its journal has selected, after any mix of       *)
(* turns, checkpoints and forks, and when the journal has failed:           *)
(* _finish_turn, commit_turn, checkpoint and _fork leave memory and journal *)
(* alike. Left out by name are the sessions that a failed reset or undoing  *)
(* left behind (stale), plugins whose checkpoint raised (unsaved), and a    *)
(* command's change that met a navigation or a raising hook (disputed).     *)
THEOREM QuietIsStored == Spec => []QuietMatchesStore
<1>1. Inv => QuietMatchesStore
  <2> SUFFICES ASSUME Inv, Quiet, ~stale, ~disputed
               PROVE  /\ history = saved.history /\ branch = saved.history
                      /\ \A o \in Owners \ unsaved : memory[o] = saved.state[o]
    BY DEF QuietMatchesStore
  <2>1. ~turn.live /\ turn.pc = "none" /\ nav.pc = "none" /\ cmd.pc # "changed"
    BY DEF Quiet, Inv, Frames
  <2> QED BY <2>1 DEF Inv, Stored, Frames, Matches, Start, Base
<1> QED BY Invariant, <1>1, PTL

(* What checkpoint made durable outlives the turn beside it, whether that   *)
(* commits a child's older copy, fails or is cut short by a crash.          *)
THEOREM SavedSurvives == Spec => []SavedChangeSurvives
<1>1. Inv => SavedChangeSurvives
  <2> SUFFICES ASSUME Inv, ~disputed, NEW o \in Owners
               PROVE  (\A c \in candidates : c.state[o] >= kept[o]) /\ (Quiet => memory[o] >= kept[o])
    BY DEF SavedChangeSurvives
  <2>1. kept[o] \in Nat /\ memory[o] \in Nat /\ \A c \in candidates : c.state[o] \in Nat
    <3>1. kept \in Made /\ memory \in Made /\ \A c \in candidates : c.state \in Made
      BY Fields DEF Inv, Types
    <3>2. \A m \in Made : m[o] \in Nat
      BY Sizes DEF Inv, Types, Counters, Made
    <3> QED BY <3>1, <3>2
  <2>2. (Quiet => kept[o] <= memory[o]) /\ \A c \in candidates : kept[o] <= c.state[o]
    BY DEF Inv, Newer, Quiet
  <2> QED BY <2>1, <2>2
<1> QED BY Invariant, <1>1, PTL

(* Whatever a reopening finds comes from turns that reached their commit,   *)
(* and after a turn that did not commit nothing of it is in the session.    *)
THEOREM NothingUncommitted == Spec => []UncommittedLeavesNothing
<1>1. Inv => TypeOK
  <2> SUFFICES ASSUME Inv PROVE TypeOK
    OBVIOUS
  <2>1. Made \subseteq State /\ Snap \subseteq Snapshot
    <3>1. 0..clock \subseteq 0..MaxVersion
      BY Sizes DEF Inv, Types, Counters
    <3> QED BY <3>1 DEF Made, State, Snap, Snapshot
  <2>2. /\ turn.pc \in Place /\ cmd.pc \in {"none", "changed", "saved"} /\ cmd.version \in 0..MaxVersion
        /\ nav.pc \in Stage
    BY Sizes DEF Inv, Types, Counters, FramesFit, TurnFrame, CommandFrame, NavigationFrame
  <2>3. /\ turn.id \in 0..MaxTurn /\ turn.live \in BOOLEAN /\ turn.start \in Seq(Turns)
        /\ turn.rollback \in State /\ turn.owners \subseteq Owners /\ turn.child \in Snapshot
        /\ nav.target \in Snapshot /\ nav.previous \in Snapshot /\ nav.replaced \in Snapshot
    BY <2>1, Fields DEF Inv
  <2>4. /\ history \in Seq(Turns) /\ memory \in State /\ saved \in Snapshot /\ branch \in Seq(Turns)
        /\ commits \subseteq Snapshot /\ candidates \subseteq Snapshot /\ kept \in State
    BY <2>1 DEF Inv, Types, SessionFits, StoreFits, GhostsFit
  <2>5. /\ failed \in BOOLEAN /\ stale \in BOOLEAN /\ disputed \in BOOLEAN
        /\ clock \in 0..MaxVersion /\ begun \in 0..MaxTurn /\ failures \in 0..MaxFailures
        /\ explicit \subseteq 0..MaxVersion /\ unsaved \subseteq Owners
    BY DEF Inv, Types, Counters, Flags, GhostsFit
  <2> QED BY <2>2, <2>3, <2>4, <2>5 DEF TypeOK, Place, Stage
<1>2. Inv => CheckpointAdmitsNoTurn
  BY DEF Inv, Types, GhostsFit, Owned, Clean, Admits, CheckpointAdmitsNoTurn, Admitted
<1>3. Inv => AbortLeavesNothing
  BY DEF Inv, Frames, Owned, Clean, Admits, AbortLeavesNothing, Admitted
<1> QED BY Invariant, <1>1, <1>2, <1>3, PTL DEF UncommittedLeavesNothing

------------------------------------------------------------------------------
(* Delegation: what a batch reports of its children, and what the catalog    *)
(* says of them, for every set of requests and every width of the pool.     *)

(* A request, the thread of its pool and the worker of its child: a task is *)
(* pending from its submission until its worker has run or refused it.      *)
RequestInv ==
  \A r \in Request :
    /\ result[r] # "none" <=> thread[r] = "done"
    /\ thread[r] = "raised" => Cancelled
    /\ thread[r] \in {"none", "queued", "create", "dropped"} => place[r] = "none"
    /\ place[r] = "none" <=> completion[r] = "none"
    /\ place[r] \in {"took", "working"} => completion[r] = "pending"
    /\ \A i \in 1..Len(queue[r]) :
         queue[r][i] = "task" => i = 1 /\ place[r] = "get" /\ completion[r] = "pending"
    /\ stopping[r] => exit # "open"

(* The plugin is replaced once, and never again once the catalog closes.    *)
GenerationInv ==
  /\ parent = "idle" => \A r \in Request : thread[r] = "none"
  /\ source = 2 => generation = 2 /\ reload = "none"
  /\ reload \in {"exported", "restored"} => generation = 1
  /\ reload = "active" => generation = 2
  /\ exit \in {"closing", "closed"} => reload = "none" /\ closed[generation]

(* Whoever has a worker is in the catalog the batch was prepared by.        *)
EntriesInv ==
  \A r \in Request :
    /\ place[r] # "none" => r \in entries[source]
    /\ thread[r] \in {"none", "queued", "create"} => \A g \in Generation : r \notin entries[g]
    /\ exit = "closed" /\ r \in entries[generation] => place[r] \in {"none", "dead"}

(* Which catalog a worker reports to.                                       *)
BoundInv ==
  \A r \in Request :
    /\ generation = 1 => bound[r] = 1
    /\ generation = 2 /\ reload = "none" /\ r \in entries[2] => bound[r] = 2

(* The first catalog counts who works; the second counts, from the moment   *)
(* it has looked, who worked then and did not move before it was told of.   *)
CountInv ==
  \A r \in Request :
    /\ place[r] = "none" => \A g \in Generation : r \notin active[g]
    /\ generation = 1 => (r \in active[1] <=> place[r] \in {"working", "cleared"})
    /\ exit = "open" /\ (reload = "restored" \/ generation = 2) /\ r \in entries[2] \ slipped =>
         /\ place[r] = "working" => r \in active[2]
         /\ place[r] \in {"none", "get", "dead"} => r \notin active[2]

DelegationInv ==
  /\ DelegationTypeOK /\ RequestInv /\ ResultsAreTrue /\ SiblingsReport
  /\ GenerationInv /\ EntriesInv /\ BoundInv /\ CountInv

LEMMA DelegateStep ==
  ASSUME DelegationInv, Delegate
  PROVE  DelegationInv'
<1>1. DelegationTypeOK'
  BY DEF DelegationInv, Delegate, DelegationTypeOK, childVars, catalogVars, reloadVars
<1>2. RequestInv'
  BY DEF DelegationInv, Delegate, RequestInv, GenerationInv, childVars
<1>3. SiblingsReport'
  BY DEF Delegate, SiblingsReport
<1>4. GenerationInv'
  BY DEF Delegate, GenerationInv, Cancelled, reloadVars
<1>5. EntriesInv'
  BY DEF DelegationInv, Delegate, EntriesInv, DelegationTypeOK, GenerationInv, childVars,
         catalogVars
<1>6. ResultsAreTrue' /\ BoundInv' /\ CountInv'
  BY DEF DelegationInv, Delegate, ResultsAreTrue, BoundInv, CountInv, childVars, catalogVars,
         reloadVars
<1>7. QED BY <1>1, <1>2, <1>3, <1>4, <1>5, <1>6 DEF DelegationInv

LEMMA CancelTurnStep ==
  ASSUME DelegationInv, CancelTurn
  PROVE  DelegationInv'
<1>1. DelegationTypeOK'
  BY DEF DelegationInv, CancelTurn, DelegationTypeOK, childVars, catalogVars, reloadVars
<1>2. RequestInv'
  BY DEF DelegationInv, CancelTurn, RequestInv, Cancelled, childVars
<1>3. SiblingsReport'
  BY DEF CancelTurn, SiblingsReport
<1>4. ResultsAreTrue' /\ GenerationInv' /\ EntriesInv' /\ BoundInv' /\ CountInv'
  BY DEF DelegationInv, CancelTurn, ResultsAreTrue, GenerationInv, EntriesInv, BoundInv, CountInv,
         childVars, catalogVars, reloadVars
<1>5. QED BY <1>1, <1>2, <1>3, <1>4 DEF DelegationInv

LEMMA CollectsStep ==
  ASSUME DelegationInv, Collects
  PROVE  DelegationInv'
<1>1. DelegationTypeOK'
  BY DEF DelegationInv, Collects, Aborts, DelegationTypeOK, childVars, catalogVars, reloadVars
<1>2. RequestInv'
  BY DEF DelegationInv, Collects, Aborts, RequestInv, Cancelled, childVars
<1>3. SiblingsReport'
  BY DEF DelegationInv, Collects, Aborts, SiblingsReport, Cancelled, RequestInv
<1>4. GenerationInv'
  BY DEF DelegationInv, Collects, Aborts, GenerationInv, catalogVars, reloadVars
<1>5. EntriesInv'
  BY DEF DelegationInv, Collects, Aborts, EntriesInv, childVars, catalogVars, reloadVars
<1>6. ResultsAreTrue' /\ BoundInv' /\ CountInv'
  BY DEF DelegationInv, Collects, ResultsAreTrue, BoundInv, CountInv, childVars, catalogVars,
         reloadVars
<1>7. QED BY <1>1, <1>2, <1>3, <1>4, <1>5, <1>6 DEF DelegationInv

LEMMA StartsStep ==
  ASSUME DelegationInv, NEW r \in Request, Starts(r)
  PROVE  DelegationInv'
<1>1. DelegationTypeOK'
  BY DEF DelegationInv, Starts, Raises, DelegationTypeOK, childVars, catalogVars, reloadVars
<1>2. RequestInv'
  BY DEF DelegationInv, Starts, Raises, RequestInv, DelegationTypeOK, Cancelled, childVars
<1>3. GenerationInv'
  BY DEF DelegationInv, Starts, GenerationInv, catalogVars, reloadVars
<1>4. EntriesInv'
  BY DEF DelegationInv, Starts, Raises, EntriesInv, DelegationTypeOK, Generation, childVars,
         catalogVars, reloadVars
<1>5. ResultsAreTrue' /\ SiblingsReport' /\ BoundInv' /\ CountInv'
  BY DEF DelegationInv, Starts, Raises, ResultsAreTrue, SiblingsReport, BoundInv, CountInv,
         Cancelled, childVars, catalogVars, reloadVars
<1>6. QED BY <1>1, <1>2, <1>3, <1>4, <1>5 DEF DelegationInv

LEMMA CreateChildStep ==
  ASSUME DelegationInv, NEW r \in Request, CreateChild(r)
  PROVE  DelegationInv'
<1>1. DelegationTypeOK'
  <2>1. CASE closed[source]
    BY <2>1 DEF DelegationInv, CreateChild, Fails, Raises, Ends, DelegationTypeOK, reloadVars
  <2>2. entries' \in [Generation -> SUBSET Request] /\ bound' \in [Request -> Generation]
    <3>1. source \in Generation /\ bound \in [Request -> Generation] /\ entries \in [Generation -> SUBSET Request]
      BY DEF DelegationInv, DelegationTypeOK
    <3>2. CASE closed[source] BY <3>1, <3>2 DEF CreateChild
    <3>3. CASE ~closed[source]
      <4>1. entries' = [entries EXCEPT ![source] = @ \cup {r}] /\ bound' = [bound EXCEPT ![r] = source]
        BY <3>3 DEF CreateChild
      <4>2. QED BY <3>1, <4>1
    <3>4. QED BY <3>2, <3>3
  <2>3. CASE Submits(r)
    <3>1. <<"task">> \in Seq({"task", "stop"}) OBVIOUS
    <3>2. queue' \in [Request -> Seq({"task", "stop"})]
      BY <2>3, <3>1 DEF DelegationInv, Submits, DelegationTypeOK
    <3>3. QED BY <2>2, <2>3, <3>2 DEF DelegationInv, CreateChild, Submits, DelegationTypeOK,
                                      reloadVars
  <2>4. CASE ~closed[source] /\ Fails(r) /\ UNCHANGED <<place, queue, completion>>
    <3>1. thread' \in [Request -> {"none", "queued", "create", "wait", "done", "raised", "dropped"}]
          /\ result' \in [Request -> {"none", "completed", "failed", "cancelled"}]
      BY <2>4 DEF DelegationInv, Fails, Raises, Ends, DelegationTypeOK
    <3>2. QED BY <2>2, <2>4, <3>1 DEF DelegationInv, CreateChild, DelegationTypeOK, reloadVars
  <2>5. QED BY <2>1, <2>3, <2>4 DEF CreateChild
<1>2. RequestInv'
  BY DEF DelegationInv, CreateChild, Fails, Raises, Ends, Submits, RequestInv, DelegationTypeOK,
         Cancelled
<1>3. ResultsAreTrue'
  BY DEF DelegationInv, CreateChild, Fails, Raises, Ends, Submits, ResultsAreTrue, DelegationTypeOK,
         RequestInv
<1>4. SiblingsReport'
  BY DEF DelegationInv, CreateChild, Fails, Raises, Ends, Submits, SiblingsReport, DelegationTypeOK,
         Cancelled
<1>5. GenerationInv'
  BY DEF DelegationInv, CreateChild, GenerationInv, reloadVars
<1>6. EntriesInv'
  BY DEF DelegationInv, CreateChild, Fails, Raises, Ends, Submits, EntriesInv, DelegationTypeOK,
         GenerationInv, Generation, reloadVars
<1>7. BoundInv'
  BY DEF DelegationInv, CreateChild, BoundInv, DelegationTypeOK, GenerationInv, EntriesInv,
         Generation, reloadVars
<1>8. CountInv'
  BY DEF DelegationInv, CreateChild, Submits, CountInv, DelegationTypeOK, RequestInv, BoundInv,
         Generation, reloadVars
<1>9. QED BY <1>1, <1>2, <1>3, <1>4, <1>5, <1>6, <1>7, <1>8 DEF DelegationInv

LEMMA WaitsStep ==
  ASSUME DelegationInv, NEW r \in Request, Waits(r)
  PROVE  DelegationInv'
<1>1. DelegationTypeOK'
  <2>1. CASE Raises(r)
    BY <2>1 DEF DelegationInv, Waits, Raises, DelegationTypeOK, childVars, catalogVars, reloadVars
  <2>2. ASSUME NEW how \in {"completed", "cancelled", "failed"}, Ends(r, how) PROVE DelegationTypeOK'
    BY <2>2 DEF DelegationInv, Waits, Ends, DelegationTypeOK, childVars, catalogVars, reloadVars
  <2>3. QED BY <2>1, <2>2 DEF Waits, Fails
<1>2. RequestInv'
  BY DEF DelegationInv, Waits, Fails, Raises, Ends, RequestInv, DelegationTypeOK, Cancelled,
         childVars
<1>3. ResultsAreTrue'
  BY DEF DelegationInv, Waits, Fails, Raises, Ends, ResultsAreTrue, DelegationTypeOK, childVars
<1>4. SiblingsReport'
  BY DEF DelegationInv, Waits, Fails, Raises, Ends, SiblingsReport, DelegationTypeOK, Cancelled
<1>5. GenerationInv'
  BY DEF DelegationInv, Waits, GenerationInv, catalogVars, reloadVars
<1>6. EntriesInv'
  BY DEF DelegationInv, Waits, Fails, Raises, Ends, EntriesInv, DelegationTypeOK, Generation,
         childVars, catalogVars, reloadVars
<1>7. BoundInv' /\ CountInv'
  BY DEF DelegationInv, Waits, BoundInv, CountInv, childVars, catalogVars, reloadVars
<1>8. QED BY <1>1, <1>2, <1>3, <1>4, <1>5, <1>6, <1>7 DEF DelegationInv

LEMMA TakesStep ==
  ASSUME DelegationInv, NEW r \in Request, Takes(r)
  PROVE  DelegationInv'
<1>1. DelegationTypeOK'
  BY DEF DelegationInv, Takes, DelegationTypeOK, batchVars, catalogVars, reloadVars
<1>2. RequestInv'
  BY DEF DelegationInv, Takes, RequestInv, DelegationTypeOK, Cancelled, batchVars
<1>3. EntriesInv'
  BY DEF DelegationInv, Takes, EntriesInv, batchVars, catalogVars, reloadVars
<1>4. CountInv'
  BY DEF DelegationInv, Takes, CountInv, catalogVars, reloadVars
<1>5. ResultsAreTrue' /\ SiblingsReport' /\ GenerationInv' /\ BoundInv'
  BY DEF DelegationInv, Takes, ResultsAreTrue, SiblingsReport, GenerationInv, BoundInv, Cancelled,
         batchVars, catalogVars, reloadVars
<1>6. QED BY <1>1, <1>2, <1>3, <1>4, <1>5 DEF DelegationInv

LEMMA RefusesStep ==
  ASSUME DelegationInv, NEW r \in Request, Refuses(r)
  PROVE  DelegationInv'
<1>1. DelegationTypeOK'
  BY DEF DelegationInv, Refuses, Resolved, DelegationTypeOK, batchVars, catalogVars, reloadVars
<1>2. RequestInv'
  BY DEF DelegationInv, Refuses, Resolved, RequestInv, DelegationTypeOK, Cancelled, batchVars
<1>3. ResultsAreTrue'
  BY DEF DelegationInv, Refuses, Resolved, ResultsAreTrue, RequestInv, batchVars
<1>4. EntriesInv'
  BY DEF DelegationInv, Refuses, EntriesInv, batchVars, catalogVars, reloadVars
<1>5. CountInv'
  BY DEF DelegationInv, Refuses, CountInv, RequestInv, catalogVars, reloadVars
<1>6. SiblingsReport' /\ GenerationInv' /\ BoundInv'
  BY DEF DelegationInv, Refuses, SiblingsReport, GenerationInv, BoundInv, Cancelled, batchVars,
         catalogVars, reloadVars
<1>7. QED BY <1>1, <1>2, <1>3, <1>4, <1>5, <1>6 DEF DelegationInv

LEMMA BeginsStep ==
  ASSUME DelegationInv, NEW r \in Request, Begins(r)
  PROVE  DelegationInv'
<1>1. DelegationTypeOK'
  BY DEF DelegationInv, Begins, Slips, DelegationTypeOK, batchVars, reloadVars
<1>2. RequestInv'
  BY DEF DelegationInv, Begins, RequestInv, Cancelled, batchVars
<1>3. EntriesInv'
  BY DEF DelegationInv, Begins, EntriesInv, batchVars, reloadVars
<1>4. CountInv'
  BY DEF DelegationInv, Begins, Slips, CountInv, DelegationTypeOK, GenerationInv, BoundInv,
         reloadVars
<1>5. ResultsAreTrue' /\ SiblingsReport' /\ GenerationInv' /\ BoundInv'
  BY DEF DelegationInv, Begins, ResultsAreTrue, SiblingsReport, GenerationInv, BoundInv, Cancelled,
         batchVars, reloadVars
<1>6. QED BY <1>1, <1>2, <1>3, <1>4, <1>5 DEF DelegationInv

LEMMA FinishesStep ==
  ASSUME DelegationInv, NEW r \in Request, Finishes(r)
  PROVE  DelegationInv'
<1>1. DelegationTypeOK'
  BY DEF DelegationInv, Finishes, Resolved, DelegationTypeOK, Generation, Cancelled, batchVars,
         childVars, catalogVars, reloadVars
<1>2. RequestInv'
  BY DEF DelegationInv, Finishes, Resolved, RequestInv, DelegationTypeOK, Cancelled, batchVars
<1>3. ResultsAreTrue'
  BY DEF DelegationInv, Finishes, Resolved, ResultsAreTrue, DelegationTypeOK, RequestInv,
         Generation, batchVars, catalogVars
<1>4. EntriesInv'
  BY DEF DelegationInv, Finishes, EntriesInv, batchVars, catalogVars, reloadVars
<1>5. CountInv'
  BY DEF DelegationInv, Finishes, CountInv, catalogVars, reloadVars
<1>6. SiblingsReport' /\ GenerationInv' /\ BoundInv'
  BY DEF DelegationInv, Finishes, SiblingsReport, GenerationInv, BoundInv, Cancelled, batchVars,
         catalogVars, reloadVars
<1>7. QED BY <1>1, <1>2, <1>3, <1>4, <1>5, <1>6 DEF DelegationInv

LEMMA RestsStep ==
  ASSUME DelegationInv, NEW r \in Request, Rests(r)
  PROVE  DelegationInv'
<1>1. DelegationTypeOK'
  BY DEF DelegationInv, Rests, Slips, DelegationTypeOK, batchVars, reloadVars
<1>2. RequestInv'
  BY DEF DelegationInv, Rests, RequestInv, Cancelled, batchVars
<1>3. EntriesInv'
  BY DEF DelegationInv, Rests, EntriesInv, batchVars, reloadVars
<1>4. CountInv'
  BY DEF DelegationInv, Rests, Slips, CountInv, DelegationTypeOK, GenerationInv, BoundInv,
         reloadVars
<1>5. ResultsAreTrue' /\ SiblingsReport' /\ GenerationInv' /\ BoundInv'
  BY DEF DelegationInv, Rests, ResultsAreTrue, SiblingsReport, GenerationInv, BoundInv, Cancelled,
         batchVars, reloadVars
<1>6. QED BY <1>1, <1>2, <1>3, <1>4, <1>5 DEF DelegationInv

LEMMA StopChildStep ==
  ASSUME DelegationInv, NEW r \in Request, StopChild(r)
  PROVE  DelegationInv'
<1>1. DelegationTypeOK'
  BY DEF DelegationInv, StopChild, DelegationTypeOK, batchVars, catalogVars, reloadVars
<1>2. RequestInv' /\ ResultsAreTrue' /\ SiblingsReport' /\ GenerationInv' /\ EntriesInv' /\ BoundInv' /\ CountInv'
  BY DEF DelegationInv, StopChild, RequestInv, ResultsAreTrue, SiblingsReport, GenerationInv,
         EntriesInv, BoundInv, CountInv, Cancelled, batchVars, catalogVars, reloadVars
<1>3. QED BY <1>1, <1>2 DEF DelegationInv

LEMMA ExportCatalogStep ==
  ASSUME DelegationInv, ExportCatalog
  PROVE  DelegationInv'
<1>1. DelegationTypeOK'
  BY DEF DelegationInv, ExportCatalog, DelegationTypeOK, batchVars, childVars
<1>2. GenerationInv'
  BY DEF DelegationInv, ExportCatalog, GenerationInv, batchVars
<1>3. EntriesInv'
  BY DEF DelegationInv, ExportCatalog, EntriesInv, DelegationTypeOK, GenerationInv, batchVars,
         childVars
<1>4. BoundInv'
  BY DEF DelegationInv, ExportCatalog, BoundInv
<1>5. CountInv'
  BY DEF DelegationInv, ExportCatalog, CountInv, childVars
<1>6. RequestInv' /\ ResultsAreTrue' /\ SiblingsReport'
  BY DEF DelegationInv, ExportCatalog, RequestInv, ResultsAreTrue, SiblingsReport, Cancelled,
         batchVars, childVars
<1>7. QED BY <1>1, <1>2, <1>3, <1>4, <1>5, <1>6 DEF DelegationInv

LEMMA DiscardCatalogStep ==
  ASSUME DelegationInv, DiscardCatalog
  PROVE  DelegationInv'
<1>1. DelegationTypeOK'
  BY DEF DelegationInv, DiscardCatalog, DelegationTypeOK, batchVars, childVars
<1>2. GenerationInv'
  BY DEF DelegationInv, DiscardCatalog, GenerationInv, batchVars
<1>3. EntriesInv'
  BY DEF DelegationInv, DiscardCatalog, EntriesInv, GenerationInv, batchVars, childVars
<1>4. BoundInv'
  BY DEF DelegationInv, DiscardCatalog, BoundInv, DelegationTypeOK
<1>5. CountInv'
  BY DEF DelegationInv, DiscardCatalog, CountInv, DelegationTypeOK, childVars
<1>6. RequestInv' /\ ResultsAreTrue' /\ SiblingsReport'
  BY DEF DelegationInv, DiscardCatalog, RequestInv, ResultsAreTrue, SiblingsReport, Cancelled,
         batchVars, childVars
<1>7. QED BY <1>1, <1>2, <1>3, <1>4, <1>5, <1>6 DEF DelegationInv

LEMMA RestoreCatalogStep ==
  ASSUME DelegationInv, RestoreCatalog
  PROVE  DelegationInv'
<1>1. DelegationTypeOK'
  BY DEF DelegationInv, RestoreCatalog, DelegationTypeOK, batchVars, childVars
<1>2. GenerationInv'
  BY DEF DelegationInv, RestoreCatalog, GenerationInv, batchVars
<1>3. BoundInv'
  BY DEF DelegationInv, RestoreCatalog, BoundInv
<1>4. CountInv'
  BY DEF DelegationInv, RestoreCatalog, CountInv, DelegationTypeOK, Generation, childVars
<1>5. RequestInv' /\ ResultsAreTrue' /\ SiblingsReport' /\ EntriesInv'
  BY DEF DelegationInv, RestoreCatalog, RequestInv, ResultsAreTrue, SiblingsReport, EntriesInv,
         Cancelled, batchVars, childVars
<1>6. QED BY <1>1, <1>2, <1>3, <1>4, <1>5 DEF DelegationInv

LEMMA ActivateStep ==
  ASSUME DelegationInv, Activate
  PROVE  DelegationInv'
<1>1. DelegationTypeOK'
  BY DEF DelegationInv, Activate, DelegationTypeOK, Generation, batchVars, childVars, catalogVars
<1>2. GenerationInv'
  BY DEF DelegationInv, Activate, GenerationInv, batchVars
<1>3. EntriesInv'
  BY DEF DelegationInv, Activate, EntriesInv, GenerationInv, batchVars, childVars, catalogVars
<1>4. BoundInv'
  BY DEF Activate, BoundInv
<1>5. CountInv'
  BY DEF DelegationInv, Activate, CountInv, childVars, catalogVars
<1>6. RequestInv' /\ ResultsAreTrue' /\ SiblingsReport'
  BY DEF DelegationInv, Activate, RequestInv, ResultsAreTrue, SiblingsReport, Cancelled, batchVars,
         childVars
<1>7. QED BY <1>1, <1>2, <1>3, <1>4, <1>5, <1>6 DEF DelegationInv

LEMMA ReconfigureStep ==
  ASSUME DelegationInv, Reconfigure
  PROVE  DelegationInv'
<1>1. DelegationTypeOK'
  BY DEF DelegationInv, Reconfigure, DelegationTypeOK, Generation, batchVars, childVars
<1>2. GenerationInv'
  BY DEF DelegationInv, Reconfigure, GenerationInv, batchVars
<1>3. BoundInv'
  BY DEF DelegationInv, Reconfigure, BoundInv, GenerationInv
<1>4. CountInv'
  BY DEF DelegationInv, Reconfigure, CountInv, childVars
<1>5. RequestInv' /\ ResultsAreTrue' /\ SiblingsReport' /\ EntriesInv'
  BY DEF DelegationInv, Reconfigure, RequestInv, ResultsAreTrue, SiblingsReport, EntriesInv,
         Cancelled, batchVars, childVars
<1>6. QED BY <1>1, <1>2, <1>3, <1>4, <1>5 DEF DelegationInv

LEMMA QuitStep ==
  ASSUME DelegationInv, Quit
  PROVE  DelegationInv'
<1>1. DelegationTypeOK'
  BY DEF DelegationInv, Quit, Stop, DelegationTypeOK, batchVars, catalogVars, reloadVars
<1>2. RequestInv'
  BY DEF DelegationInv, Quit, Stop, RequestInv, Cancelled, batchVars
<1>3. SiblingsReport'
  BY DEF DelegationInv, Quit, SiblingsReport, Cancelled, batchVars
<1>4. GenerationInv'
  BY DEF DelegationInv, Quit, GenerationInv, batchVars, reloadVars
<1>5. EntriesInv'
  BY DEF DelegationInv, Quit, Stop, EntriesInv, batchVars, catalogVars
<1>6. CountInv'
  BY DEF DelegationInv, Quit, Stop, CountInv, catalogVars, reloadVars
<1>7. ResultsAreTrue' /\ BoundInv'
  BY DEF DelegationInv, Quit, Stop, ResultsAreTrue, BoundInv, batchVars, catalogVars, reloadVars
<1>8. QED BY <1>1, <1>2, <1>3, <1>4, <1>5, <1>6, <1>7 DEF DelegationInv

LEMMA CloseCatalogStep ==
  ASSUME DelegationInv, CloseCatalog
  PROVE  DelegationInv'
<1>1. DelegationTypeOK'
  BY DEF DelegationInv, CloseCatalog, Stop, DelegationTypeOK, batchVars, reloadVars
<1>2. RequestInv'
  BY DEF DelegationInv, CloseCatalog, Stop, RequestInv, Cancelled, batchVars
<1>3. SiblingsReport'
  BY DEF DelegationInv, CloseCatalog, SiblingsReport, Cancelled, batchVars
<1>4. GenerationInv'
  BY DEF DelegationInv, CloseCatalog, GenerationInv, DelegationTypeOK, batchVars, reloadVars
<1>5. EntriesInv'
  BY DEF DelegationInv, CloseCatalog, Stop, EntriesInv, batchVars
<1>6. CountInv'
  BY DEF DelegationInv, CloseCatalog, Stop, CountInv, reloadVars
<1>7. ResultsAreTrue' /\ BoundInv'
  BY DEF DelegationInv, CloseCatalog, Stop, ResultsAreTrue, BoundInv, batchVars, reloadVars
<1>8. QED BY <1>1, <1>2, <1>3, <1>4, <1>5, <1>6, <1>7 DEF DelegationInv

LEMMA JoinCatalogStep ==
  ASSUME DelegationInv, JoinCatalog
  PROVE  DelegationInv'
<1>1. DelegationTypeOK'
  BY DEF DelegationInv, JoinCatalog, DelegationTypeOK, batchVars, childVars, catalogVars, reloadVars
<1>2. RequestInv'
  BY DEF DelegationInv, JoinCatalog, RequestInv, Cancelled, batchVars, childVars
<1>3. SiblingsReport'
  BY DEF DelegationInv, JoinCatalog, SiblingsReport, Cancelled, batchVars
<1>4. GenerationInv'
  BY DEF DelegationInv, JoinCatalog, GenerationInv, batchVars, catalogVars, reloadVars
<1>5. EntriesInv'
  BY DEF DelegationInv, JoinCatalog, Joined, EntriesInv, batchVars, childVars, catalogVars,
         reloadVars
<1>6. CountInv'
  BY DEF DelegationInv, JoinCatalog, CountInv, childVars, catalogVars, reloadVars
<1>7. ResultsAreTrue' /\ BoundInv'
  BY DEF DelegationInv, JoinCatalog, ResultsAreTrue, BoundInv, batchVars, childVars, catalogVars,
         reloadVars
<1>8. QED BY <1>1, <1>2, <1>3, <1>4, <1>5, <1>6, <1>7 DEF DelegationInv

LEMMA DelegationInitInv == DelegationInit => DelegationInv
<1> SUFFICES ASSUME DelegationInit PROVE DelegationInv
  OBVIOUS
<1>1. DelegationTypeOK
  <2>1. queue \in [Request -> Seq({"task", "stop"})]
    <3>1. <<>> \in Seq({"task", "stop"}) OBVIOUS
    <3> QED BY <3>1 DEF DelegationInit
  <2>2. entries \in [Generation -> SUBSET Request] /\ active \in [Generation -> SUBSET Request]
    BY DEF DelegationInit
  <2>3. /\ thread \in [Request -> {"none", "queued", "create", "wait", "done", "raised", "dropped"}]
        /\ result \in [Request -> {"none", "completed", "failed", "cancelled"}]
        /\ place \in [Request -> {"none", "get", "took", "working", "cleared", "dead"}]
        /\ completion \in [Request -> {"none", "pending", "completed", "failed", "cancelled"}]
    BY DEF DelegationInit
  <2>4. /\ halted \in [Request -> BOOLEAN] /\ stopping \in [Request -> BOOLEAN]
        /\ bound \in [Request -> Generation] /\ closed \in [Generation -> BOOLEAN]
    BY DEF DelegationInit, Generation
  <2>5. /\ parent = "idle" /\ cancel = FALSE /\ source \in Generation /\ generation \in Generation
        /\ reload = "none" /\ exit = "open" /\ slipped \subseteq Request
    BY DEF DelegationInit, Generation
  <2> QED BY <2>1, <2>2, <2>3, <2>4, <2>5 DEF DelegationTypeOK
<1>2. RequestInv /\ ResultsAreTrue /\ SiblingsReport
  <2>1. \A r \in Request : Len(queue[r]) = 0 BY DEF DelegationInit
  <2> QED BY <2>1 DEF DelegationInit, RequestInv, ResultsAreTrue, SiblingsReport
<1>3. GenerationInv /\ EntriesInv /\ BoundInv /\ CountInv
  BY DEF DelegationInit, GenerationInv, EntriesInv, BoundInv, CountInv, Generation
<1>4. QED BY <1>1, <1>2, <1>3 DEF DelegationInv

LEMMA DelegationRests == DelegationInv /\ UNCHANGED delegationVars => DelegationInv'
BY DEF DelegationInv, DelegationTypeOK, RequestInv, ResultsAreTrue, SiblingsReport, GenerationInv,
       EntriesInv, BoundInv, CountInv, Cancelled, delegationVars, batchVars, childVars, catalogVars,
       reloadVars

LEMMA DelegationNextInv == DelegationInv /\ [DelegationNext]_delegationVars => DelegationInv'
<1> SUFFICES ASSUME DelegationInv, [DelegationNext]_delegationVars PROVE DelegationInv'
  OBVIOUS
<1>1. CASE Delegate BY <1>1, DelegateStep
<1>2. CASE CancelTurn BY <1>2, CancelTurnStep
<1>3. CASE Collects BY <1>3, CollectsStep
<1>4. ASSUME NEW r \in Request, Starts(r) PROVE DelegationInv'
  BY <1>4, StartsStep
<1>5. ASSUME NEW r \in Request, CreateChild(r) PROVE DelegationInv'
  BY <1>5, CreateChildStep
<1>6. ASSUME NEW r \in Request, Waits(r) PROVE DelegationInv'
  BY <1>6, WaitsStep
<1>7. ASSUME NEW r \in Request, Takes(r) PROVE DelegationInv'
  BY <1>7, TakesStep
<1>8. ASSUME NEW r \in Request, Refuses(r) PROVE DelegationInv'
  BY <1>8, RefusesStep
<1>9. ASSUME NEW r \in Request, Begins(r) PROVE DelegationInv'
  BY <1>9, BeginsStep
<1>10. ASSUME NEW r \in Request, Finishes(r) PROVE DelegationInv'
  BY <1>10, FinishesStep
<1>11. ASSUME NEW r \in Request, Rests(r) PROVE DelegationInv'
  BY <1>11, RestsStep
<1>12. ASSUME NEW r \in Request, StopChild(r) PROVE DelegationInv'
  BY <1>12, StopChildStep
<1>13. CASE ExportCatalog BY <1>13, ExportCatalogStep
<1>14. CASE DiscardCatalog BY <1>14, DiscardCatalogStep
<1>15. CASE RestoreCatalog BY <1>15, RestoreCatalogStep
<1>16. CASE Activate BY <1>16, ActivateStep
<1>17. CASE Reconfigure BY <1>17, ReconfigureStep
<1>18. CASE Quit BY <1>18, QuitStep
<1>19. CASE CloseCatalog BY <1>19, CloseCatalogStep
<1>20. CASE JoinCatalog BY <1>20, JoinCatalogStep
<1>21. CASE UNCHANGED delegationVars BY <1>21, DelegationRests
<1>22. QED
  BY <1>1, <1>2, <1>3, <1>4, <1>5, <1>6, <1>7, <1>8, <1>9, <1>10, <1>11,
     <1>12, <1>13, <1>14, <1>15, <1>16, <1>17, <1>18, <1>19, <1>20, <1>21
     DEF DelegationNext, PoolThread, ChildThread, Replacement, Closing

LEMMA DelegationInvariant == DelegationSpec => []DelegationInv
BY DelegationInitInv, DelegationNextInv, PTL DEF DelegationSpec

(* A batch reports the truth: the result of a request is that of its own    *)
(* child, no child costs its siblings their results, and a batch that       *)
(* returns has one for every request.                                       *)
THEOREM BatchesAreTrue == DelegationSpec => []BatchIsTrue
<1>1. DelegationInv => BatchIsTrue
  BY DEF DelegationInv, BatchIsTrue
<1>2. QED BY <1>1, DelegationInvariant, PTL

(* What the catalog says of its children is true: of those that did not     *)
(* begin or rest during a replacement (slipped), it counts exactly the ones *)
(* that work while none is under way, and once it has closed no child of it *)
(* has a thread and none will.                                              *)
THEOREM CatalogsAreTrue == DelegationSpec => []CatalogIsTrue
<1>1. DelegationInv => CloseIsFinal
  BY DEF DelegationInv, RequestInv, EntriesInv, GenerationInv, DelegationTypeOK, CloseIsFinal,
         Generation
<1>2. DelegationInv => CountIsTrue
  BY DEF DelegationInv, DelegationTypeOK, GenerationInv, CountInv, EntriesInv, RequestInv,
         CountIsTrue, Generation
<1>3. QED BY <1>1, <1>2, DelegationInvariant, PTL DEF CatalogIsTrue

------------------------------------------------------------------------------
(* The files a turn or a promotion writes together: for every set of files, *)
(* contents and bounds, types, the original kept until the decision, whole  *)
(* batches for every reader, edits kept, and the refinement of AtomicChange. *)

(* The inductive invariant: where every file that nobody edited stands, by  *)
(* what the record says and how far the holder of the lock is; and that an  *)
(* edit leaves a state that no check accepts.                               *)
Journaled == /\ journal = "none" => pc = "idle"
             /\ journal \in {"committed", "rolled_back"} => pc \in {"idle", "clean"}
             /\ journal = "pending" => pc # "clean"

PlaceOf(f) ==
  /\ journal = "committed" => file[f] = After(f)
  /\ journal = "rolled_back" => file[f] = Before(f)
  /\ journal = "pending" =>
       /\ Undoable(f)
       /\ pc = "ready" => Original(f)
       /\ pc = "swap" => IF f \in left THEN Original(f) ELSE Applied(f)
       /\ pc = "applied" => Applied(f)
       /\ pc = "undo" => IF f \in left THEN Applied(f) ELSE Original(f) \/ Restored(f)

Placed == \A f \in Planned \ (edited \cup raced) : PlaceOf(f)

EditsSeen == /\ journal = "pending" => \A f \in Planned \cap edited : ~Undoable(f)
             /\ pc \in {"swap", "undo"} => left \cap edited = {}

Unforeign == \A f \in File \ (edited \cup raced) : file[f] # Foreign

WorkspaceInv == WorkspaceTypeOK /\ Journaled /\ Placed /\ EditsSeen /\ Unforeign

LEMMA WorkspaceInitInv == WorkspaceInit => WorkspaceInv
  BY WorkspaceAssumption DEF WorkspaceInit, WorkspaceInv, WorkspaceTypeOK, Journaled, Placed, EditsSeen, Unforeign,
     Planned, Content, Empty

(* Starting a rollback: every file is in one of the three states, so none   *)
(* of the batch was edited before.                                          *)
LEMMA RollbackInv ==
  ASSUME WorkspaceInv, journal # "none", StartRollback, UNCHANGED <<file, box, journal, change, count, edited, raced>>,
         faults' \in Nat
  PROVE  WorkspaceInv'
<1> DEFINE Same(f) == /\ Original(f)' = Original(f) /\ Applied(f)' = Applied(f)
                      /\ Restored(f)' = Restored(f)
                      /\ Before(f)' = Before(f) /\ After(f)' = After(f)
<1>1. Planned' = Planned /\ \A f \in File : Same(f)
  BY DEF Planned, Before, After, Original, Applied, Restored, Holds
<1>2. \/ journal # "pending" /\ pc' = "clean" /\ left' = Planned
      \/ /\ journal = "pending" /\ \A f \in Planned : Undoable(f)
         /\ pc' = "undo" /\ left' = {f \in Planned : Applied(f)}
      \/ pc' = "idle" /\ left' = {}
  BY DEF StartRollback, Goto, ToUndo
<1>3. WorkspaceTypeOK' /\ Unforeign' /\ Journaled'
  BY <1>1, <1>2 DEF WorkspaceInv, WorkspaceTypeOK, Unforeign, Journaled
<1>4. EditsSeen'
  BY <1>1, <1>2 DEF WorkspaceInv, WorkspaceTypeOK, EditsSeen, Undoable
<1>5. Placed'
  BY <1>1, <1>2 DEF WorkspaceInv, WorkspaceTypeOK, Placed, PlaceOf, Undoable
<1> QED BY <1>3, <1>4, <1>5 DEF WorkspaceInv

LEMMA WorkspaceNextInv == WorkspaceInv /\ [WorkspaceNext]_workspaceVars => WorkspaceInv'
<1> SUFFICES ASSUME WorkspaceInv, [WorkspaceNext]_workspaceVars PROVE WorkspaceInv'
  OBVIOUS
<1> USE WorkspaceAssumption
<1>1. CASE Recover
  <2>1. journal # "none" /\ UNCHANGED <<Files, faults>> /\ StartRollback
    BY <1>1 DEF Recover
  <2> QED BY <2>1, RollbackInv DEF Files, WorkspaceInv, WorkspaceTypeOK
<1>2. CASE Apply
  <2>1. pc = "ready" /\ journal = "pending" /\ UNCHANGED <<Files, faults>>
    BY <1>2 DEF Apply, WorkspaceInv, WorkspaceTypeOK, Journaled
  <2>2. CASE \A f \in Planned : Original(f)
    <3>1. pc' = "swap" /\ left' = Planned
      BY <1>2, <2>2 DEF Apply, Goto
    <3>2. Planned \cap edited = {}
      BY <2>1, <2>2 DEF WorkspaceInv, EditsSeen, Undoable
    <3> QED BY <2>1, <2>2, <3>1, <3>2 DEF WorkspaceInv, WorkspaceTypeOK, Journaled, Placed, PlaceOf, EditsSeen, Unforeign,
              Files, Undoable, Original, Applied, Restored, Holds, Planned, Before, After
  <2>3. CASE StartRollback
    BY <2>1, <2>3, RollbackInv DEF Files, WorkspaceInv, WorkspaceTypeOK
  <2> QED BY <1>2, <2>2, <2>3 DEF Apply
<1>3. CASE Published
  BY <1>3 DEF WorkspaceInv, WorkspaceTypeOK, Journaled, Placed, PlaceOf, EditsSeen, Unforeign, Original, Applied, Restored, Holds,
        Undoable, ToUndo, Planned, Before, After, Content, Empty, Goto, Files,
        Published
<1>4. CASE ApplyFails
  <2>1. journal # "none" /\ UNCHANGED Files /\ StartRollback /\ faults' \in Nat
    BY <1>4 DEF ApplyFails, Fault, WorkspaceInv, WorkspaceTypeOK, Journaled
  <2> QED BY <2>1, RollbackInv DEF Files
<1>5. CASE CommitBatch
  BY <1>5 DEF WorkspaceInv, WorkspaceTypeOK, Journaled, Placed, PlaceOf, EditsSeen, Unforeign, Original, Applied, Restored, Holds,
        Undoable, ToUndo, Planned, Before, After, Content, Empty, Goto, Files,
        CommitBatch
<1>6. CASE CommitRaises
  BY <1>6 DEF WorkspaceInv, WorkspaceTypeOK, Journaled, Placed, PlaceOf, EditsSeen, Unforeign, Original, Applied, Restored, Holds,
        Undoable, ToUndo, Planned, Before, After, Content, Empty, Goto, Files,
        CommitRaises, Fault
<1>7. CASE SaveRolledBack
  BY <1>7 DEF WorkspaceInv, WorkspaceTypeOK, Journaled, Placed, PlaceOf, EditsSeen, Unforeign, Original, Applied, Restored, Holds,
        Undoable, ToUndo, Planned, Before, After, Content, Empty, Goto, Files,
        SaveRolledBack
<1>8. CASE RemoveJournal
  BY <1>8 DEF WorkspaceInv, WorkspaceTypeOK, Journaled, Placed, PlaceOf, EditsSeen, Unforeign, Original, Applied, Restored, Holds,
        Undoable, ToUndo, Planned, Before, After, Content, Empty, Goto, Files,
        RemoveJournal
<1>9. CASE StopBatch
  BY <1>9 DEF WorkspaceInv, WorkspaceTypeOK, Journaled, Placed, PlaceOf, EditsSeen, Unforeign, Original, Applied, Restored, Holds,
        Undoable, ToUndo, Planned, Before, After, Content, Empty, Goto, Files,
        StopBatch, Fault
<1>10. ASSUME NEW f \in File, Replace(f) PROVE WorkspaceInv'
  <2>1. /\ pc = "swap" /\ journal = "pending" /\ f \in left /\ f \in Planned /\ f \notin edited
        /\ UNCHANGED <<journal, change, pc, count, faults, edited, raced>>
    BY <1>10 DEF Replace, WorkspaceInv, WorkspaceTypeOK, Journaled, EditsSeen
  <2>2. /\ left' = left \ {f}
        /\ file' = [file EXCEPT ![f] = After(f)]
        /\ box' = [box EXCEPT ![f].incoming = None]
    BY <1>10 DEF Replace
  <2> HIDE DEF Planned, Before, After
  <2>3. Planned' = Planned /\ \A g \in File : Before(g)' = Before(g) /\ After(g)' = After(g)
    BY <2>1 DEF Planned, Before, After
  <2>4. \A g \in File \ {f} : /\ file'[g] = file[g] /\ box'[g] = box[g]
                              /\ Original(g)' = Original(g) /\ Applied(g)' = Applied(g)
                              /\ Restored(g)' = Restored(g)
    BY <2>2, <2>3 DEF Original, Applied, Restored, Holds, WorkspaceInv, WorkspaceTypeOK
  <2>5. f \notin raced => Applied(f)'
    <3> SUFFICES ASSUME f \notin raced PROVE Applied(f)'
      OBVIOUS
    <3>1. Original(f)
      BY <2>1 DEF WorkspaceInv, Placed, PlaceOf
    <3>2. box'[f] = [box[f] EXCEPT !.incoming = None] /\ file'[f] = After(f)
      BY <2>2 DEF WorkspaceInv, WorkspaceTypeOK
    <3> QED BY <2>3, <3>1, <3>2 DEF Original, Applied, Holds
  <2>6. WorkspaceTypeOK'
    <3>1. After(f) \in Content /\ None \in Content
      BY <2>1 DEF WorkspaceInv, WorkspaceTypeOK, Content
    <3> QED BY <2>1, <2>2, <2>3, <3>1 DEF WorkspaceInv, WorkspaceTypeOK
  <2>7. Placed'
    BY <2>1, <2>2, <2>3, <2>4, <2>5 DEF WorkspaceInv, WorkspaceTypeOK, Placed, PlaceOf, Undoable
  <2>8. EditsSeen' /\ Unforeign' /\ Journaled'
    BY <2>1, <2>2, <2>3, <2>4 DEF WorkspaceInv, WorkspaceTypeOK, EditsSeen, Unforeign, Journaled, Undoable
  <2> QED BY <2>6, <2>7, <2>8 DEF WorkspaceInv
<1>11. ASSUME NEW f \in File, Undo(f) PROVE WorkspaceInv'
  <2>1. /\ pc = "undo" /\ journal = "pending" /\ f \in left /\ f \in Planned /\ f \notin edited
        /\ UNCHANGED <<journal, change, count, faults, edited, raced>>
    BY <1>11 DEF Undo, WorkspaceInv, WorkspaceTypeOK, Journaled, EditsSeen
  <2>2. CASE pc' = "idle" /\ left' = {} /\ UNCHANGED <<file, box>>
    BY <2>1, <2>2 DEF WorkspaceInv, WorkspaceTypeOK, Journaled, Placed, PlaceOf, EditsSeen, Unforeign, Undoable,
       Original, Applied, Restored, Holds, Planned, Before, After
  <2>3. CASE /\ left' = left \ {f} /\ UNCHANGED pc
             /\ \/ /\ Before(f) # None /\ file' = [file EXCEPT ![f] = box[f].original]
                   /\ box' = [box EXCEPT ![f].original = None]
                \/ /\ Before(f) = None /\ file' = [file EXCEPT ![f] = None]
                   /\ box' = [box EXCEPT ![f].retired = file[f]]
    <3> HIDE DEF Planned, Before, After
    <3>1. Planned' = Planned /\ \A g \in File : Before(g)' = Before(g) /\ After(g)' = After(g)
      BY <2>1 DEF Planned, Before, After
    <3>2. \A g \in File \ {f} : /\ file'[g] = file[g] /\ box'[g] = box[g]
                                /\ Original(g)' = Original(g) /\ Applied(g)' = Applied(g)
                                /\ Restored(g)' = Restored(g)
      BY <2>3, <3>1 DEF Original, Applied, Restored, Holds, WorkspaceInv, WorkspaceTypeOK
    <3>3. f \notin raced => Applied(f) /\ Restored(f)' /\ file'[f] = Before(f)
      <4> SUFFICES ASSUME f \notin raced
                   PROVE  Applied(f) /\ Restored(f)' /\ file'[f] = Before(f)
        OBVIOUS
      <4>1. Applied(f)
        BY <2>1 DEF WorkspaceInv, Placed, PlaceOf
      <4>2. box[f] = [incoming |-> None, original |-> Before(f), retired |-> None] /\ file[f] = After(f)
        BY <4>1 DEF Applied, Holds
      <4>3. CASE Before(f) # None
        <5>1. box'[f] = [incoming |-> None, original |-> None, retired |-> None] /\ file'[f] = Before(f)
          BY <2>3, <4>2, <4>3 DEF WorkspaceInv, WorkspaceTypeOK
        <5> QED BY <3>1, <4>1, <4>3, <5>1 DEF Restored, Holds
      <4>4. CASE Before(f) = None
        <5>1. box'[f] = [incoming |-> None, original |-> None, retired |-> After(f)] /\ file'[f] = None
          BY <2>3, <4>2, <4>4 DEF WorkspaceInv, WorkspaceTypeOK
        <5> QED BY <3>1, <4>1, <4>4, <5>1 DEF Restored, Holds
      <4> QED BY <4>3, <4>4
    <3>4. WorkspaceTypeOK'
      <4>1. f \notin raced => file[f] # Foreign
        BY <2>1 DEF WorkspaceInv, Unforeign
      <4>2. None \in Content /\ box[f].original \in Content
        BY DEF WorkspaceInv, WorkspaceTypeOK, Content
      <4>3. file' \in [File -> Content \cup {Foreign}]
        BY <2>3, <4>2 DEF WorkspaceInv, WorkspaceTypeOK
      <4>4. /\ box'[f].retired \in Content \cup {Foreign}
            /\ f \notin raced => box'[f].retired # Foreign
        <5>1. file[f] \in Content \cup {Foreign} /\ box[f].retired \in Content \cup {Foreign}
          BY DEF WorkspaceInv, WorkspaceTypeOK
        <5>2. box'[f].retired \in {box[f].retired, file[f]}
          BY <2>3 DEF WorkspaceInv, WorkspaceTypeOK
        <5>3. f \notin raced => box[f].retired # Foreign
          BY DEF WorkspaceInv, WorkspaceTypeOK
        <5> QED BY <4>1, <5>1, <5>2, <5>3
      <4>5. box' \in [File -> [incoming : Content, original : Content, retired : Content \cup {Foreign}]]
        <5>1. /\ box \in [File -> [incoming : Content, original : Content, retired : Content \cup {Foreign}]]
              /\ file[f] \in Content \cup {Foreign}
          BY DEF WorkspaceInv, WorkspaceTypeOK
        <5> QED BY <2>3, <4>2, <5>1
      <4>6. \A g \in File \ raced' : box'[g].retired # Foreign
        BY <2>1, <3>2, <4>4 DEF WorkspaceInv, WorkspaceTypeOK
      <4>7. /\ left' \subseteq Planned' /\ Planned' \subseteq File
            /\ \A g \in Planned' : Before(g)' \in Content /\ After(g)' \in Bytes
        BY <2>3, <3>1 DEF WorkspaceInv, WorkspaceTypeOK
      <4> QED BY <2>1, <2>3, <4>3, <4>5, <4>6, <4>7 DEF WorkspaceInv, WorkspaceTypeOK
    <3>5. Placed'
      BY <2>1, <2>3, <3>1, <3>2, <3>3 DEF WorkspaceInv, WorkspaceTypeOK, Placed, PlaceOf, Undoable
    <3>6. EditsSeen' /\ Journaled'
      BY <2>1, <2>3, <3>1, <3>2 DEF WorkspaceInv, WorkspaceTypeOK, EditsSeen, Journaled, Undoable
    <3>7. Unforeign'
      <4>1. f \notin raced => file'[f] # Foreign
        BY <2>1, <3>3 DEF WorkspaceInv, WorkspaceTypeOK, Content
      <4> QED BY <2>1, <3>2, <4>1 DEF WorkspaceInv, Unforeign
    <3> QED BY <3>4, <3>5, <3>6, <3>7 DEF WorkspaceInv
  <2> QED BY <1>11, <2>2, <2>3 DEF Undo, Goto
<1>12. ASSUME NEW f \in File, RemoveContainer(f) PROVE WorkspaceInv'
  <2>1. /\ journal # "pending" /\ journal # "none" /\ pc = "clean"
        /\ UNCHANGED <<file, journal, change, count, faults, edited, raced>>
        /\ pc' \in {"clean", "idle"} /\ left' \subseteq left
        /\ box' = box \/ box' = [box EXCEPT ![f] = Empty]
    BY <1>12 DEF RemoveContainer, Goto, WorkspaceInv, Journaled
  <2>2. WorkspaceTypeOK'
    <3>1. None \in Content
      BY DEF Content
    <3> QED BY <2>1, <3>1 DEF WorkspaceInv, WorkspaceTypeOK, Empty, Planned, Before, After
  <2>3. Journaled' /\ Placed' /\ EditsSeen' /\ Unforeign'
    BY <2>1 DEF WorkspaceInv, Journaled, Placed, PlaceOf, EditsSeen, Unforeign, Planned, Before, After
  <2> QED BY <2>2, <2>3 DEF WorkspaceInv
<1>13. ASSUME NEW f \in File, RemovePart(f) PROVE WorkspaceInv'
  BY <1>13 DEF WorkspaceInv, WorkspaceTypeOK, Journaled, Placed, PlaceOf, EditsSeen, Unforeign, Original, Applied, Restored, Holds,
        Undoable, ToUndo, Planned, Before, After, Content, Empty, Goto, Files,
        RemovePart, Fault
<1>14. ASSUME NEW f \in File, Edit(f) PROVE WorkspaceInv'
  BY <1>14 DEF WorkspaceInv, WorkspaceTypeOK, Journaled, Placed, PlaceOf, EditsSeen, Unforeign, Original, Applied, Restored, Holds,
        Undoable, ToUndo, Planned, Before, After, Content, Empty, Goto, Files,
        Edit
<1>15. CASE UNCHANGED workspaceVars
  BY <1>15 DEF WorkspaceInv, WorkspaceTypeOK, Journaled, Placed, PlaceOf, EditsSeen, Unforeign, Original, Applied, Restored, Holds,
        Undoable, ToUndo, Planned, Before, After, Content, Empty, Goto, Files, workspaceVars
<1>16. ASSUME NEW files \in (SUBSET File) \ {{}}, NEW after \in [File -> Bytes], Begin(files, after)
       PROVE  WorkspaceInv'
  <2> USE DEF Planned, Before, After
  <2>1. /\ Planned' = files /\ journal' = "pending"
        /\ \A f \in files : Before(f)' = file[f] /\ After(f)' = after[f]
        /\ \A f \in files : box'[f] = [incoming |-> after[f], original |-> file[f], retired |-> None]
        /\ \A f \in File \ files : box'[f] = Empty
        /\ DOMAIN box' = File /\ box' = [f \in File |-> box'[f]]
        /\ UNCHANGED <<file, edited, raced>>
    BY <1>16 DEF Begin, Empty
  <2>2. /\ pc' \in {"ready", "idle"} /\ left' \subseteq files
        /\ count' \in Nat /\ faults' \in Nat
    <3>1. /\ count' = count + 1
          /\ \/ pc' = "ready" /\ left' = files /\ faults' = faults
             \/ pc' = "idle" /\ left' = {} /\ faults' = faults + 1
      BY <1>16 DEF Begin, Goto, Fault
    <3> QED BY <3>1 DEF WorkspaceInv, WorkspaceTypeOK
  <2>3. \A f \in files : /\ f \notin edited /\ f \notin raced
                        /\ file[f] \in Content /\ after[f] \in Bytes
    BY <1>16 DEF Begin, WorkspaceInv, WorkspaceTypeOK, Unforeign
  <2>4. \A f \in files : Original(f)'
    BY <2>1 DEF Original, Holds
  <2>5. WorkspaceTypeOK'
    <3>1. \A f \in File : /\ box'[f] \in [incoming : Content, original : Content, retired : Content]
                         /\ box'[f].retired = None
      <4>1. None \in Content /\ \A f \in files : after[f] \in Content
        BY <2>3 DEF Content
      <4>2. ASSUME NEW f \in files
            PROVE  /\ box'[f] \in [incoming : Content, original : Content, retired : Content]
                   /\ box'[f].retired = None
        <5>1. box'[f] = [incoming |-> after[f], original |-> file[f], retired |-> None]
          BY <2>1
        <5>2. after[f] \in Content /\ file[f] \in Content /\ None \in Content
          BY <2>3, <4>1
        <5> QED BY <5>1, <5>2
      <4>3. \A f \in File \ files : /\ box'[f] \in [incoming : Content, original : Content, retired : Content]
                                   /\ box'[f].retired = None
        BY <2>1, <4>1 DEF Empty
      <4> QED BY <4>2, <4>3
    <3>2. box' \in [File -> [incoming : Content, original : Content, retired : Content \cup {Foreign}]]
      BY <2>1, <3>1
    <3> QED BY <2>1, <2>2, <2>3, <3>1, <3>2 DEF WorkspaceInv, WorkspaceTypeOK
  <2>6. Placed'
    BY <2>1, <2>2, <2>4 DEF Placed, PlaceOf, Undoable
  <2> QED BY <2>1, <2>2, <2>3, <2>5, <2>6 DEF WorkspaceInv, Journaled, EditsSeen, Unforeign
<1> QED BY <1>1, <1>2, <1>3, <1>4, <1>5, <1>6, <1>7, <1>8, <1>9, <1>10, <1>11, <1>12, <1>13, <1>14, <1>15, <1>16 DEF WorkspaceNext, Visit

LEMMA WorkspaceInvariant == WorkspaceSpec => []WorkspaceInv
  BY WorkspaceInitInv, WorkspaceNextInv, PTL DEF WorkspaceSpec

(* Every variable has its type; a container holds foreign content only of a *)
(* file edited in the instant before its rename.                            *)
THEOREM WorkspaceTypes == WorkspaceSpec => []WorkspaceTypeOK
<1>1. WorkspaceInv => WorkspaceTypeOK
  BY DEF WorkspaceInv
<1> QED BY <1>1, WorkspaceInvariant, PTL

(* For every number of files, failures, crashes and edits, a batch that is  *)
(* not decided can still be undone.                                         *)
THEOREM OriginalsKept == WorkspaceSpec => []OriginalKept
<1>1. ASSUME WorkspaceInv, journal = "pending", NEW f \in Planned \ (edited \cup raced)
      PROVE  Before(f) \in {file[f], box[f].original}
  <2>1. Original(f) \/ Applied(f) \/ Restored(f)
    BY <1>1 DEF WorkspaceInv, Placed, PlaceOf, Undoable
  <2>2. CASE Applied(f)
    BY <2>2 DEF Applied, Holds
  <2>3. CASE Original(f) \/ Restored(f)
    BY <2>3 DEF Original, Restored, Holds
  <2> QED BY <2>1, <2>2, <2>3
<1>2. WorkspaceInv => OriginalKept
  BY <1>1 DEF OriginalKept
<1> QED BY <1>2, WorkspaceInvariant, PTL

(* Nobody who is granted access sees half of a batch.                       *)
THEOREM ReadersSeeBatches == WorkspaceSpec => []AccessSeesBatch
<1>1. WorkspaceInv => AccessSeesBatch
  BY DEF WorkspaceInv, AccessSeesBatch, Placed, PlaceOf
<1> QED BY <1>1, WorkspaceInvariant, PTL

(* Together: a batch can be undone while it is undecided, and nobody who is *)
(* granted access sees a part of one.                                       *)
THEOREM BatchesAreWhole == WorkspaceSpec => []BatchIsWhole
<1>1. WorkspaceTypeOK /\ OriginalKept /\ AccessSeesBatch => BatchIsWhole
  BY DEF BatchIsWhole
<1> QED BY <1>1, WorkspaceTypes, OriginalsKept, ReadersSeeBatches, PTL

(* No rename and no removal hits an edit that a check follows.              *)
THEOREM EditsKept == WorkspaceSpec => EditKept
<1> DEFINE Kept == \A f \in edited : file'[f] = file[f]
<1>1. WorkspaceInv /\ [WorkspaceNext]_workspaceVars => Kept
  <2> SUFFICES ASSUME WorkspaceInv, [WorkspaceNext]_workspaceVars PROVE Kept
    OBVIOUS
  <2>1. ASSUME NEW f \in File, Visit(f) PROVE Kept
    <3>1. CASE Replace(f) \/ Undo(f)
      <4>1. f \notin edited
        BY <3>1 DEF Replace, Undo, WorkspaceInv, EditsSeen
      <4>2. \A g \in File \ {f} : file'[g] = file[g]
        BY <3>1 DEF Replace, Undo, WorkspaceInv, WorkspaceTypeOK
      <4> QED BY <4>1, <4>2 DEF WorkspaceInv, WorkspaceTypeOK
    <3>2. CASE RemoveContainer(f) \/ RemovePart(f)
      BY <3>2 DEF RemoveContainer, RemovePart
    <3>3. CASE Edit(f)
      <4>1. f \notin edited /\ \A g \in File \ {f} : file'[g] = file[g]
        BY <3>3 DEF Edit, WorkspaceInv, WorkspaceTypeOK
      <4> QED BY <4>1 DEF WorkspaceInv, WorkspaceTypeOK
    <3> QED BY <2>1, <3>1, <3>2, <3>3 DEF Visit
  <2>2. ASSUME NEW files \in (SUBSET File) \ {{}}, NEW after \in [File -> Bytes],
               Begin(files, after)
        PROVE  Kept
    BY <2>2 DEF Begin
  <2>3. CASE \/ Recover \/ Apply \/ Published \/ ApplyFails \/ CommitBatch \/ CommitRaises
             \/ SaveRolledBack \/ RemoveJournal \/ StopBatch
    BY <2>3 DEF Recover, Apply, Published, ApplyFails, CommitBatch, CommitRaises, SaveRolledBack,
       RemoveJournal, StopBatch, Files
  <2>4. CASE UNCHANGED workspaceVars
    BY <2>4 DEF workspaceVars
  <2> QED BY <2>1, <2>2, <2>3, <2>4 DEF WorkspaceNext
<1>2. WorkspaceInv /\ [WorkspaceNext]_workspaceVars => [Kept]_workspaceVars
  BY <1>1
<1> QED BY <1>2, WorkspaceInvariant, PTL DEF WorkspaceSpec, EditKept
-----------------------------------------------------------------------------
(* The refinement. The files of the batch are hidden while a record exists. *)
LEMMA InitBatch == WorkspaceInit => Batch!Init
  BY WorkspaceAssumption DEF WorkspaceInit, Batch!Init, Batch!Contents, Masked, Content

LEMMA BeginOpens ==
  ASSUME WorkspaceInv, NEW files \in (SUBSET File) \ {{}}, NEW after \in [File -> Bytes], Begin(files, after)
  PROVE  Batch!Open
<1>1. /\ journal = "none" /\ journal' = "pending" /\ UNCHANGED <<file, edited, raced>>
      /\ Planned' = files
      /\ \A f \in files : Before(f)' = file[f] /\ After(f)' = after[f]
  BY DEF Begin, Planned, Before, After
<1>2. Old' = [x \in File |-> file[x]]
  BY <1>1 DEF Old
<1>3. Masked(Old)' = Masked(file)
  BY <1>1, <1>2 DEF Masked
<1>4. Masked(New)' \in Batch!Contents
  <2>1. \A x \in File : New'[x] \in Content \cup {Foreign}
    BY <1>1 DEF New, WorkspaceInv, WorkspaceTypeOK, Content
  <2> QED BY <1>1, <2>1 DEF Masked, Batch!Contents
<1> QED BY <1>1, <1>3, <1>4 DEF Batch!Open

LEMMA JournalSettles == WorkspaceInv /\ RemoveJournal => Batch!Settle
<1> SUFFICES ASSUME WorkspaceInv, RemoveJournal PROVE Batch!Settle
  OBVIOUS
<1> DEFINE Target == IF journal = "committed" THEN New ELSE Old
<1>1. /\ journal' = "none" /\ journal \in {"committed", "rolled_back"}
      /\ UNCHANGED <<file, change, edited, raced>>
  BY DEF RemoveJournal, Goto, WorkspaceInv, WorkspaceTypeOK, Journaled
<1>2. \A x \in File \ (edited \cup raced) : file[x] = Target[x]
  BY <1>1 DEF Old, New, WorkspaceInv, Placed, PlaceOf
<1>3. Masked(file) = Masked(Target)
  BY <1>2 DEF Masked
<1>4. Masked(file)' = Masked(file)
  BY <1>1 DEF Masked
<1> QED BY <1>1, <1>3, <1>4 DEF Batch!Settle, Masked

LEMMA EditDisturbs ==
  ASSUME WorkspaceInv, NEW f \in File, Edit(f)
  PROVE  Batch!Disturb(f)
<1>1. /\ journal # "none" /\ f \in Planned
      /\ edited' \cup raced' = (edited \cup raced) \cup {f}
      /\ UNCHANGED <<journal, change>>
      /\ \A g \in File : g # f => file'[g] = file[g]
  BY DEF Edit, WorkspaceInv, WorkspaceTypeOK
<1>2. Old' = Old /\ New' = New
  BY <1>1 DEF Old, New, Planned, Before, After
<1> QED BY <1>1, <1>2 DEF Batch!Disturb, Masked, Old, New

(* Moves inside an open batch: its own files only.                          *)
LEMMA HiddenStep ==
  ASSUME WorkspaceInv, UNCHANGED <<change, edited, raced>>,
         \/ UNCHANGED <<journal, file>>
         \/ /\ journal # "none" /\ journal' # "none"
            /\ journal' = "committed" <=> journal = "committed"
            /\ \A g \in File \ Planned : file'[g] = file[g]
  PROVE  UNCHANGED Batch!abstract
<1>1. CASE UNCHANGED <<journal, file>>
  BY <1>1 DEF Batch!abstract, Masked, Old, New, Planned, Before, After
<1>2. CASE /\ journal # "none" /\ journal' # "none"
           /\ journal' = "committed" <=> journal = "committed"
           /\ \A g \in File \ Planned : file'[g] = file[g]
  <2>1. Old' = Old /\ New' = New
    BY <1>2 DEF Old, New, Planned, Before, After
  <2> QED BY <1>2, <2>1 DEF Batch!abstract, Masked
<1> QED BY <1>1, <1>2

LEMMA CommitDecides ==
  ASSUME WorkspaceInv, journal = "pending", journal' = "committed", UNCHANGED <<file, change, edited, raced>>
  PROVE  Batch!Decide
  BY DEF Batch!Decide, Masked, Old, New, Planned, Before, After

LEMMA StepChange == WorkspaceInv /\ [WorkspaceNext]_workspaceVars => [Batch!Next]_Batch!abstract
<1> SUFFICES ASSUME WorkspaceInv, [WorkspaceNext]_workspaceVars PROVE Batch!Next \/ UNCHANGED Batch!abstract
  OBVIOUS
<1>1. CASE Recover \/ Apply \/ Published \/ ApplyFails \/ StopBatch
  BY <1>1, HiddenStep DEF Recover, Apply, Published, ApplyFails, StopBatch, Files
<1>2. CASE CommitBatch \/ CommitRaises
  <2>1. /\ journal = "pending" /\ journal' \in {"pending", "committed"}
        /\ UNCHANGED <<file, change, edited, raced>>
    BY <1>2 DEF CommitBatch, CommitRaises, WorkspaceInv, Journaled, WorkspaceTypeOK
  <2> QED BY <2>1, CommitDecides, HiddenStep DEF Batch!Next
<1>3. CASE SaveRolledBack
  <2>1. journal = "pending" /\ journal' = "rolled_back" /\ UNCHANGED <<file, change, edited, raced>>
    BY <1>3 DEF SaveRolledBack, WorkspaceInv, Journaled, WorkspaceTypeOK
  <2> QED BY <2>1, HiddenStep
<1>4. CASE RemoveJournal
  BY <1>4, JournalSettles DEF Batch!Next
<1>5. ASSUME NEW files \in (SUBSET File) \ {{}}, NEW after \in [File -> Bytes], Begin(files, after)
      PROVE  Batch!Next
  BY <1>5, BeginOpens DEF Batch!Next
<1>6. ASSUME NEW f \in File, Visit(f)
      PROVE  Batch!Next \/ UNCHANGED Batch!abstract
  <2>1. CASE Edit(f)
    BY <2>1, EditDisturbs DEF Batch!Next
  <2>2. CASE ~Edit(f)
    <3>1. /\ UNCHANGED <<journal, change, edited, raced>> /\ journal # "none"
          /\ \A g \in File \ Planned : file'[g] = file[g]
      BY <1>6, <2>2 DEF Visit, Replace, Undo, RemoveContainer, RemovePart, WorkspaceInv, Journaled, WorkspaceTypeOK
    <3> QED BY <3>1, HiddenStep
  <2> QED BY <2>1, <2>2
<1>7. CASE UNCHANGED workspaceVars
  BY <1>7, HiddenStep DEF workspaceVars
<1> QED BY <1>1, <1>2, <1>3, <1>4, <1>5, <1>6, <1>7 DEF WorkspaceNext

(* Workspace batches implement the abstract change, as package transactions *)
(* do: no sequence of crashes, failures and recoveries shows half of one.   *)
THEOREM BatchesAreAtomic == WorkspaceSpec => ImplementsChange
  BY InitBatch, StepChange, WorkspaceInvariant, PTL DEF WorkspaceSpec, ImplementsChange, Batch!Spec
===============================================================================
